---------------------------- MODULE ProcLifeProofs ----------------------------
(***************************************************************************)
(* Proofs about ProcLife: threads never outlive their process, an exit is  *)
(* reported at most once and for a zombie, and a thread that was woken     *)
(* while it dies never runs again.                                         *)
(***************************************************************************)
EXTENDS ProcLife, SequenceTheorems, WellFoundedInduction, TLAPS

(* The list that links a thread is that of a process that was created. *)
OwnersAreProcesses == \A t \in Tids : InProcess(t) => procOf[t] \in Pids

(* The sniper's queue q has a request to kill thread t or its process. *)
RequestFor(t, q) ==
    \E i \in 1..Len(q) : q[i] \in {Mesg("KILL_THREAD", t), Mesg("KILL_PROCESS", procOf[t])}

(* Who sleeps for its end has asked for it, and was not forgotten. *)
DyingHaveAsked ==
    \A t \in Tids : pc[t] \in {"dying", "undead"} => RequestFor(t, kmesgq[Sniper])

(* Message i of thread t tells of a child's exit. *)
IsExit(t, i) == kmesgq[t][i].wType = "CHILD_PROCESS_EXIT"

(* ExitIsReportedOnce, message by message. *)
ExitsNameZombies ==
    ~ corrupt =>
    \A t \in Tids : \A i \in 1..Len(kmesgq[t]) :
        IsExit(t, i) => proc[kmesgq[t][i].dwAParam] = "zombie"

ExitsDiffer ==
    ~ corrupt =>
    \A t, u \in Tids : \A i \in 1..Len(kmesgq[t]), j \in 1..Len(kmesgq[u]) :
        /\ IsExit(t, i) /\ IsExit(u, j)
        /\ kmesgq[t][i].dwAParam = kmesgq[u][j].dwAParam
        => t = u /\ i = j

IInv ==
    /\ ThreadsHaveProcess
    /\ OwnersAreProcesses
    /\ DyingHaveAsked
    /\ UndeadNeverRuns
    /\ ExitsNameZombies
    /\ ExitsDiffer

-----------------------------------------------------------------------------
(* Least elements, messages and sequences.                                 *)

(* A set of natural numbers that is not empty has a least element. *)
LEMMA MinIsMember ==
  ASSUME NEW T, T \subseteq Nat, T # {}
  PROVE  Min(T) \in T
<1>1. PICK x \in T : \A y \in T : ~ (<<y, x>> \in OpToRel(<, Nat))
  BY NatLessThanWellFounded, WFMin
<1>2. \A y \in T : ~ (y < x)
  BY <1>1 DEF OpToRel
<1>3. \E z \in T : \A y \in T : z <= y
  BY <1>2
<1> QED
  BY <1>3 DEF Min

(* New processes and threads are what they should be. *)
LEMMA NewOnes ==
  /\ NewPids # {} => Min(NewPids) \in Pids /\ proc[Min(NewPids)] = "none"
  /\ NewTids # {} => Min(NewTids) \in Tids /\ pc[Min(NewTids)] = "none"
<1>1. NewPids \subseteq Nat /\ NewTids \subseteq Nat
  BY ProcLifeAssumption DEF NewPids, NewTids, Pids, Tids
<1>2. NewPids # {} => Min(NewPids) \in NewPids
  BY <1>1, MinIsMember
<1>3. NewTids # {} => Min(NewTids) \in NewTids
  BY <1>1, MinIsMember
<1> QED
  BY <1>2, <1>3 DEF NewPids, NewTids

(* The sniper and nobody are no user threads. *)
LEMMA Names ==
  Sniper \notin Tids /\ NoOne \notin Tids /\ NoOne # Sniper
  BY ProcLifeAssumption DEF Tids

(* Messages of the four types. *)
LEMMA MesgTypes ==
  /\ \A p \in Pids : /\ Mesg("KILL_PROCESS", p) \in Mesgs
                     /\ Mesg("CHILD_PROCESS_EXIT", p) \in Mesgs
  /\ \A t \in Tids : /\ Mesg("KILL_THREAD", t) \in Mesgs
                     /\ Mesg("CHILD_THREAD_EXIT", t) \in Mesgs
  BY DEF Mesg, Mesgs

(* A message names what it was made for. *)
LEMMA MesgFields ==
  ASSUME NEW w, NEW id
  PROVE  Mesg(w, id).wType = w /\ Mesg(w, id).dwAParam = id
  BY DEF Mesg

(* Exit messages name processes. *)
LEMMA ExitsNamePids ==
  ASSUME NEW m \in Mesgs, m.wType = "CHILD_PROCESS_EXIT"
  PROVE  m.dwAParam \in Pids
  BY DEF Mesgs

(* What is left of a sequence without element i. *)
LEMMA RemoveAtOperation ==
  ASSUME NEW S, NEW s \in Seq(S), NEW i \in 1..Len(s)
  PROVE  /\ RemoveAt(s, i) \in Seq(S)
         /\ Len(RemoveAt(s, i)) = Len(s) - 1
         /\ \A k \in 1..Len(s) - 1 :
              RemoveAt(s, i)[k] = s[IF k < i THEN k ELSE k + 1]
<1> DEFINE a == SubSeq(s, 1, i - 1)
           b == SubSeq(s, i + 1, Len(s))
<1>1. Len(s) \in Nat /\ \A k \in 1..Len(s) : s[k] \in S
  BY LenProperties, ElementOfSeq
<1>2. /\ a \in Seq(S) /\ Len(a) = i - 1
      /\ \A k \in 1..i - 1 : a[k] = s[k]
  <2>1. \A k \in 1..i - 1 : s[k] \in S
    BY <1>1
  <2>2. 1 \in Int /\ i - 1 \in Int /\ i \in Int
    BY <1>1
  <2> QED
    BY <1>1, <2>1, <2>2, SubSeqProperties
<1>3. /\ b \in Seq(S) /\ Len(b) = Len(s) - i
      /\ \A k \in 1..Len(s) - i : b[k] = s[i + k]
  <2>1. \A k \in i + 1..Len(s) : s[k] \in S
    BY <1>1
  <2>2. i + 1 \in Int /\ Len(s) \in Int /\ i \in Int
    BY <1>1
  <2>3. /\ b \in Seq(S)
        /\ Len(b) = IF i + 1 <= Len(s) THEN Len(s) - (i + 1) + 1 ELSE 0
        /\ \A k \in 1..Len(s) - (i + 1) + 1 : b[k] = s[(i + 1) + k - 1]
    BY <2>1, <2>2, SubSeqProperties
  <2> QED
    BY <1>1, <2>3
<1>4. /\ a \o b \in Seq(S)
      /\ Len(a \o b) = Len(a) + Len(b)
      /\ \A k \in 1..Len(a) + Len(b) : (a \o b)[k] = IF k <= Len(a) THEN a[k] ELSE b[k - Len(a)]
  BY <1>2, <1>3, ConcatProperties
<1>5. RemoveAt(s, i) = a \o b
  BY DEF RemoveAt
<1> HIDE DEF a, b
<1>6. ASSUME NEW k \in 1..Len(s) - 1
      PROVE  (a \o b)[k] = s[IF k < i THEN k ELSE k + 1]
  <2>1. CASE k < i
    BY <2>1, <1>1, <1>2, <1>3, <1>4
  <2>2. CASE ~ (k < i)
    <3>1. k - Len(a) \in 1..Len(s) - i /\ i + (k - Len(a)) = k + 1
      BY <2>2, <1>1, <1>2
    <3>2. (a \o b)[k] = b[k - Len(a)]
      BY <2>2, <1>1, <1>2, <1>3, <1>4
    <3> QED
      BY <3>1, <3>2, <1>3, <2>2
  <2> QED
    BY <2>1, <2>2
<1> QED
  BY <1>1, <1>2, <1>3, <1>4, <1>5, <1>6

(* ksend_kmesg appends to one queue that has room. *)
LEMMA SentOperation ==
  ASSUME TypeOK, NEW t \in Tids \cup {Sniper}, NEW m \in Mesgs
  PROVE  /\ Sent(t, m) \in [Tids \cup {Sniper} -> Seq(Mesgs)]
         /\ \A u \in Tids \cup {Sniper} : u # t => Sent(t, m)[u] = kmesgq[u]
         /\ Len(Sent(t, m)[t]) <= MAX_KMESG
         /\ Len(kmesgq[t]) < MAX_KMESG =>
              /\ Len(Sent(t, m)[t]) = Len(kmesgq[t]) + 1
              /\ \A i \in 1..Len(kmesgq[t]) : Sent(t, m)[t][i] = kmesgq[t][i]
              /\ Sent(t, m)[t][Len(kmesgq[t]) + 1] = m
         /\ Len(kmesgq[t]) >= MAX_KMESG => Sent(t, m)[t] = kmesgq[t]
<1>1. kmesgq[t] \in Seq(Mesgs) /\ Len(kmesgq[t]) \in Nat /\ Len(kmesgq[t]) <= MAX_KMESG
  BY LenProperties DEF TypeOK
<1>2. /\ Append(kmesgq[t], m) \in Seq(Mesgs)
      /\ Len(Append(kmesgq[t], m)) = Len(kmesgq[t]) + 1
      /\ \A i \in 1..Len(kmesgq[t]) : Append(kmesgq[t], m)[i] = kmesgq[t][i]
      /\ Append(kmesgq[t], m)[Len(kmesgq[t]) + 1] = m
  BY <1>1, AppendProperties
<1>3. Sent(t, m)[t] = IF Len(kmesgq[t]) < MAX_KMESG THEN Append(kmesgq[t], m) ELSE kmesgq[t]
  BY DEF TypeOK, Sent
<1>4. /\ Sent(t, m) \in [Tids \cup {Sniper} -> Seq(Mesgs)]
      /\ \A u \in Tids \cup {Sniper} : u # t => Sent(t, m)[u] = kmesgq[u]
  BY <1>1, <1>2 DEF TypeOK, Sent
<1> QED
  BY <1>1, <1>2, <1>3, <1>4, ProcLifeAssumption

(* Whom a message wakes. *)
LEMMA WokenOperation ==
  ASSUME TypeOK, NEW t \in Tids
  PROVE  \/ Woken(t)[t] = pc[t]
         \/ pc[t] = "wait" /\ Woken(t)[t] = "woken"
         \/ pc[t] = "dying" /\ Woken(t)[t] = "undead"
  BY DEF TypeOK, Woken

-----------------------------------------------------------------------------
(* Steps that leave the queues alone.                                      *)

(* Nothing the invariant speaks of changes. *)
LEMMA StutterIInv ==
  ASSUME IInv, UNCHANGED vars
  PROVE  IInv'
  BY DEF IInv, vars, ThreadsHaveProcess, TypeOK, OwnersAreProcesses, DyingHaveAsked,
         UndeadNeverRuns, ExitsNameZombies, ExitsDiffer, RequestFor, IsExit, Exists, InProcess

(* While a thread runs nobody is undead. *)
LEMMA NobodyUndead ==
  ASSUME IInv, inKernel # Sniper
  PROVE  \A t \in Tids : pc[t] # "undead"
  BY DEF IInv, UndeadNeverRuns

(* What processes and threads are keeps its type. *)
LEMMA ForkIInv ==
  ASSUME IInv, NEW t \in Tids, Fork(t)
  PROVE  IInv'
<1> DEFINE p == Min(NewPids)
           n == Min(NewTids)
<1>1. /\ p \in Pids /\ proc[p] = "none" /\ n \in Tids /\ pc[n] = "none"
  BY NewOnes DEF Fork
<1>2. /\ proc' = [proc EXCEPT ![p] = "live"]
      /\ dwParentID' = [dwParentID EXCEPT ![p] = procOf[t]]
      /\ procOf' = [procOf EXCEPT ![n] = p]
      /\ pc' = [pc EXCEPT ![n] = "run"]
      /\ UNCHANGED <<want, waitType, kmesgq, dwKillerTID, inKernel, corrupt>>
  BY DEF Fork, NewThread
<1> HIDE DEF p, n
<1>3. TypeOK /\ OwnersAreProcesses /\ ThreadsHaveProcess
  BY DEF IInv, ThreadsHaveProcess, InProcess
<1>4. pc[t] = "run" /\ inKernel = NoOne
  BY DEF Fork, Runs
<1>5. procOf[t] \in Pids
  BY <1>3, <1>4 DEF OwnersAreProcesses, Exists, InProcess
<1>6. TypeOK'
  BY <1>1, <1>2, <1>3, <1>4, <1>5 DEF TypeOK, Exists, InProcess, States
<1>7. OwnersAreProcesses'
  BY <1>1, <1>2, <1>3 DEF TypeOK, OwnersAreProcesses, Exists, InProcess
<1>8. \A u \in Tids : InProcess(u)' => proc'[procOf'[u]] = "live"
  BY <1>1, <1>2, <1>3 DEF TypeOK, OwnersAreProcesses, ThreadsHaveProcess, Exists, InProcess
<1>9. DyingHaveAsked'
  BY <1>1, <1>2, <1>3 DEF IInv, TypeOK, DyingHaveAsked, RequestFor
<1>10. UndeadNeverRuns'
  BY <1>1, <1>2, <1>3 DEF IInv, TypeOK, UndeadNeverRuns
<1>11. ExitsNameZombies'
  BY <1>1, <1>2, <1>3 DEF IInv, TypeOK, ExitsNameZombies, IsExit
<1>12. ExitsDiffer'
  BY <1>2 DEF IInv, ExitsDiffer, IsExit
<1> QED
  BY <1>6, <1>7, <1>8, <1>9, <1>10, <1>11, <1>12 DEF IInv, ThreadsHaveProcess, InProcess

(* The new thread joins the process of the one that creates it. *)
LEMMA CreateThreadIInv ==
  ASSUME IInv, NEW t \in Tids, CreateThread(t)
  PROVE  IInv'
<1> DEFINE n == Min(NewTids)
<1>1. n \in Tids /\ pc[n] = "none"
  BY NewOnes DEF CreateThread
<1>2. /\ procOf' = [procOf EXCEPT ![n] = procOf[t]]
      /\ pc' = [pc EXCEPT ![n] = "run"]
      /\ UNCHANGED <<proc, dwParentID, want, waitType, kmesgq, dwKillerTID, inKernel, corrupt>>
  BY DEF CreateThread, NewThread
<1> HIDE DEF n
<1>3. TypeOK /\ OwnersAreProcesses /\ ThreadsHaveProcess
  BY DEF IInv, ThreadsHaveProcess, InProcess
<1>4. pc[t] = "run" /\ inKernel = NoOne
  BY DEF CreateThread, Runs
<1>5. procOf[t] \in Pids /\ proc[procOf[t]] = "live"
  BY <1>3, <1>4 DEF OwnersAreProcesses, ThreadsHaveProcess, Exists, InProcess
<1>6. TypeOK'
  BY <1>1, <1>2, <1>3, <1>4, <1>5 DEF TypeOK, Exists, InProcess, States
<1>7. OwnersAreProcesses'
  BY <1>1, <1>2, <1>3, <1>5 DEF TypeOK, OwnersAreProcesses, Exists, InProcess
<1>8. \A u \in Tids : InProcess(u)' => proc'[procOf'[u]] = "live"
  BY <1>1, <1>2, <1>3, <1>5 DEF TypeOK, OwnersAreProcesses, ThreadsHaveProcess, Exists, InProcess
<1>9. DyingHaveAsked'
  BY <1>1, <1>2, <1>3 DEF IInv, TypeOK, DyingHaveAsked, RequestFor
<1>10. UndeadNeverRuns'
  BY <1>1, <1>2, <1>3 DEF IInv, TypeOK, UndeadNeverRuns
<1>11. ExitsNameZombies' /\ ExitsDiffer'
  BY <1>2 DEF IInv, ExitsNameZombies, ExitsDiffer, IsExit
<1> QED
  BY <1>6, <1>7, <1>8, <1>9, <1>10, <1>11 DEF IInv, ThreadsHaveProcess, InProcess

(* A thread goes to sleep for an event, or is woken. *)
LEMMA EventIInv ==
  ASSUME IInv, NEW t \in Tids, WaitEvent(t) \/ EventOccurs(t)
  PROVE  IInv'
<1>1. /\ pc[t] \in {"run", "event"}
      /\ pc' \in {[pc EXCEPT ![t] = "event"], [pc EXCEPT ![t] = "run"]}
      /\ waitType' \in {waitType, [waitType EXCEPT ![t] = "event"]}
      /\ UNCHANGED <<proc, dwParentID, procOf, want, kmesgq, dwKillerTID, inKernel, corrupt>>
  BY DEF WaitEvent, EventOccurs, Runs
<1>2. TypeOK /\ OwnersAreProcesses /\ ThreadsHaveProcess
  BY DEF IInv, ThreadsHaveProcess, InProcess
<1>3. TypeOK'
  BY <1>1, <1>2 DEF TypeOK, Exists, InProcess, States
<1>4. \A u \in Tids : (Exists(u)' => Exists(u)) /\ (InProcess(u)' => InProcess(u))
  BY <1>1, <1>2 DEF TypeOK, Exists, InProcess
<1>5. OwnersAreProcesses' /\ \A u \in Tids : InProcess(u)' => proc'[procOf'[u]] = "live"
  BY <1>1, <1>2, <1>4 DEF OwnersAreProcesses, ThreadsHaveProcess, InProcess
<1>6. \A u \in Tids : pc'[u] \in {"dying", "undead"} => pc'[u] = pc[u]
  BY <1>1, <1>2 DEF TypeOK
<1>7. DyingHaveAsked'
  BY <1>1, <1>6 DEF IInv, DyingHaveAsked, RequestFor
<1>8. UndeadNeverRuns'
  BY <1>1, <1>6 DEF IInv, UndeadNeverRuns
<1>9. ExitsNameZombies' /\ ExitsDiffer'
  BY <1>1 DEF IInv, ExitsNameZombies, ExitsDiffer, IsExit
<1> QED
  BY <1>3, <1>5, <1>7, <1>8, <1>9 DEF IInv, ThreadsHaveProcess, InProcess

(* A thread finds no message and goes to sleep. *)
LEMMA SleepIInv ==
  ASSUME IInv, NEW t \in Tids, NEW call \in WaitCalls, Sleep(t, call)
  PROVE  IInv'
<1>1. /\ pc[t] \in {"run", "woken"} /\ inKernel \in {NoOne, t}
      /\ pc' = [pc EXCEPT ![t] = "wait"]
      /\ want' = [want EXCEPT ![t] = call]
      /\ waitType' = [waitType EXCEPT ![t] = MesgOf(call)]
      /\ inKernel' = NoOne
      /\ UNCHANGED <<proc, dwParentID, procOf, kmesgq, dwKillerTID, corrupt>>
  BY DEF Sleep, InCall, Runs
<1>2. TypeOK /\ OwnersAreProcesses /\ ThreadsHaveProcess
  BY DEF IInv, ThreadsHaveProcess, InProcess
<1>3. MesgOf(call) \in {"CHILD_PROCESS_EXIT", "CHILD_THREAD_EXIT"}
  BY DEF MesgOf
<1>4. TypeOK'
  BY <1>1, <1>2, <1>3 DEF TypeOK, Exists, InProcess, States
<1>5. \A u \in Tids : (Exists(u)' => Exists(u)) /\ (InProcess(u)' => InProcess(u))
  BY <1>1, <1>2 DEF TypeOK, Exists, InProcess
<1>6. OwnersAreProcesses' /\ \A u \in Tids : InProcess(u)' => proc'[procOf'[u]] = "live"
  BY <1>1, <1>2, <1>5 DEF OwnersAreProcesses, ThreadsHaveProcess, InProcess
<1>7. \A u \in Tids : pc'[u] \in {"dying", "undead"} => pc'[u] = pc[u]
  BY <1>1, <1>2 DEF TypeOK
<1>8. DyingHaveAsked'
  BY <1>1, <1>7 DEF IInv, DyingHaveAsked, RequestFor
<1>9. UndeadNeverRuns'
  BY <1>1, <1>7, NobodyUndead, Names DEF UndeadNeverRuns
<1>10. ExitsNameZombies' /\ ExitsDiffer'
  BY <1>1 DEF IInv, ExitsNameZombies, ExitsDiffer, IsExit
<1> QED
  BY <1>4, <1>6, <1>8, <1>9, <1>10 DEF IInv, ThreadsHaveProcess, InProcess

-----------------------------------------------------------------------------
(* Requests to the sniper.                                                 *)

(* A request leaves the exit messages alone and drops no request. *)
LEMMA AskOperation ==
  ASSUME TypeOK, MayAsk, NEW m \in Mesgs, kmesgq' = Sent(Sniper, m)
  PROVE  /\ kmesgq' \in [Tids \cup {Sniper} -> Seq(Mesgs)]
         /\ \A t \in Tids \cup {Sniper} : Len(kmesgq'[t]) <= MAX_KMESG
         /\ \A t \in Tids : kmesgq'[t] = kmesgq[t]
         /\ Len(kmesgq[Sniper]) \in Nat
         /\ Len(kmesgq'[Sniper]) = Len(kmesgq[Sniper]) + 1
         /\ \A i \in 1..Len(kmesgq[Sniper]) : kmesgq'[Sniper][i] = kmesgq[Sniper][i]
         /\ kmesgq'[Sniper][Len(kmesgq[Sniper]) + 1] = m
<1>1. kmesgq[Sniper] \in Seq(Mesgs)
  BY DEF TypeOK
<1>2. Len(kmesgq[Sniper]) \in Nat /\ Len(kmesgq[Sniper]) < MAX_KMESG
  BY <1>1, LenProperties, ProcLifeAssumption DEF MayAsk
<1>3. Sniper \in Tids \cup {Sniper}
  OBVIOUS
<1> DEFINE r == Sent(Sniper, m)
<1>4. /\ r \in [Tids \cup {Sniper} -> Seq(Mesgs)]
      /\ \A t \in Tids \cup {Sniper} : t # Sniper => r[t] = kmesgq[t]
      /\ Len(r[Sniper]) <= MAX_KMESG
      /\ Len(kmesgq[Sniper]) < MAX_KMESG =>
           /\ Len(r[Sniper]) = Len(kmesgq[Sniper]) + 1
           /\ \A i \in 1..Len(kmesgq[Sniper]) : r[Sniper][i] = kmesgq[Sniper][i]
           /\ r[Sniper][Len(kmesgq[Sniper]) + 1] = m
  BY <1>3, SentOperation
<1>r. kmesgq' = r
  OBVIOUS
<1> HIDE DEF r
<1>5. \A t \in Tids \cup {Sniper} : Len(kmesgq[t]) <= MAX_KMESG
  BY DEF TypeOK
<1>6. \A t \in Tids \cup {Sniper} : Len(kmesgq'[t]) <= MAX_KMESG
  BY <1>4, <1>5, <1>r
<1> QED
  BY <1>2, <1>4, <1>6, <1>r, Names

(* Nobody's request is lost by a new one. *)
LEMMA AskKeepsRequests ==
  ASSUME TypeOK, MayAsk, NEW m \in Mesgs, kmesgq' = Sent(Sniper, m),
         NEW t \in Tids, procOf'[t] = procOf[t], RequestFor(t, kmesgq[Sniper])
  PROVE  RequestFor(t, kmesgq[Sniper])'
<1>1. PICK i \in 1..Len(kmesgq[Sniper]) :
        kmesgq[Sniper][i] \in {Mesg("KILL_THREAD", t), Mesg("KILL_PROCESS", procOf[t])}
  BY DEF RequestFor
<1>2. i \in 1..Len(kmesgq'[Sniper]) /\ kmesgq'[Sniper][i] = kmesgq[Sniper][i]
  BY AskOperation
<1> QED
  BY <1>1, <1>2 DEF RequestFor

(* The request that was made is there. *)
LEMMA AskedFor ==
  ASSUME TypeOK, MayAsk, NEW m \in Mesgs, kmesgq' = Sent(Sniper, m), NEW t \in Tids,
         m \in {Mesg("KILL_THREAD", t), Mesg("KILL_PROCESS", procOf'[t])}
  PROVE  RequestFor(t, kmesgq[Sniper])'
<1>1. /\ Len(kmesgq[Sniper]) + 1 \in 1..Len(kmesgq'[Sniper])
      /\ kmesgq'[Sniper][Len(kmesgq[Sniper]) + 1] = m
  BY AskOperation
<1> QED
  BY <1>1 DEF RequestFor

(* ksc_exit, ksc_exit_user_thread and the shell's kill. *)
LEMMA AskIInv ==
  ASSUME IInv, MayAsk, inKernel = NoOne, NEW m \in Mesgs, kmesgq' = Sent(Sniper, m),
         dwKillerTID' \in [Tids -> Tids \cup {0}],
         UNCHANGED <<proc, dwParentID, procOf, want, waitType, inKernel, corrupt>>,
         \/ UNCHANGED pc
         \/ \E t \in Tids : /\ pc[t] = "run" /\ pc' = [pc EXCEPT ![t] = "dying"]
                            /\ m \in {Mesg("KILL_THREAD", t), Mesg("KILL_PROCESS", procOf[t])}
  PROVE  IInv'
<1>1. TypeOK /\ OwnersAreProcesses /\ ThreadsHaveProcess
  BY DEF IInv, ThreadsHaveProcess, InProcess
<1>2. \A u \in Tids : (Exists(u)' <=> Exists(u)) /\ (InProcess(u)' <=> InProcess(u))
  BY <1>1 DEF TypeOK, Exists, InProcess
<1>3. pc' \in [Tids -> States]
  BY <1>1 DEF TypeOK, States
<1>4. TypeOK'
  BY <1>1, <1>3, AskOperation, Names DEF TypeOK
<1>5. OwnersAreProcesses' /\ \A u \in Tids : InProcess(u)' => proc'[procOf'[u]] = "live"
  BY <1>1, <1>2 DEF OwnersAreProcesses, ThreadsHaveProcess, InProcess
<1>6. ASSUME NEW u \in Tids, pc'[u] \in {"dying", "undead"}
      PROVE  RequestFor(u, kmesgq[Sniper])'
  <2>1. CASE pc[u] \in {"dying", "undead"}
    <3>1. RequestFor(u, kmesgq[Sniper])
      BY <2>1 DEF IInv, DyingHaveAsked
    <3> QED
      BY <3>1, <1>1, AskKeepsRequests
  <2>2. CASE pc[u] \notin {"dying", "undead"}
    <3>1. m \in {Mesg("KILL_THREAD", u), Mesg("KILL_PROCESS", procOf'[u])}
      BY <2>2, <1>1, <1>6 DEF TypeOK
    <3> QED
      BY <3>1, <1>1, AskedFor
  <2> QED
    BY <2>1, <2>2
<1>7. DyingHaveAsked'
  BY <1>6 DEF DyingHaveAsked
<1>8. UndeadNeverRuns'
  BY <1>1, NobodyUndead, Names DEF UndeadNeverRuns, TypeOK
<1>9. \A t \in Tids : kmesgq'[t] = kmesgq[t]
  BY <1>1, AskOperation
<1>10. ExitsNameZombies' /\ ExitsDiffer'
  BY <1>9 DEF IInv, ExitsNameZombies, ExitsDiffer, IsExit
<1> QED
  BY <1>4, <1>5, <1>7, <1>8, <1>10 DEF IInv, ThreadsHaveProcess, InProcess

(* A thread that ends its process has asked the sniper before it sleeps. *)
LEMMA ExitProcessIInv ==
  ASSUME IInv, NEW t \in Tids, ExitProcess(t)
  PROVE  IInv'
<1>1. TypeOK /\ procOf[t] \in Pids
  BY DEF IInv, ThreadsHaveProcess, OwnersAreProcesses, ExitProcess, Runs,
         Exists, InProcess
<1>2. Mesg("KILL_PROCESS", procOf[t]) \in Mesgs
  BY <1>1, MesgTypes
<1>3. dwKillerTID' \in [Tids -> Tids \cup {0}]
  BY <1>1 DEF ExitProcess, TypeOK
<1> QED
  BY <1>2, <1>3, AskIInv DEF ExitProcess, Runs

(* So has a thread that ends itself; the end of another one may be asked for too. *)
LEMMA ExitThreadIInv ==
  ASSUME IInv, NEW t \in Tids, NEW u \in Tids, ExitThread(t, u)
  PROVE  IInv'
<1>1. TypeOK
  BY DEF IInv, ThreadsHaveProcess, InProcess
<1>2. Mesg("KILL_THREAD", u) \in Mesgs
  BY MesgTypes
<1>3. dwKillerTID' \in [Tids -> Tids \cup {0}]
  BY <1>1 DEF ExitThread, TypeOK
<1>4. \/ UNCHANGED pc
      \/ /\ pc[u] = "run" /\ pc' = [pc EXCEPT ![u] = "dying"]
  BY DEF ExitThread, Runs
<1> QED
  BY <1>2, <1>3, <1>4, AskIInv DEF ExitThread, Runs

(* The shell only asks. *)
LEMMA ShellKillIInv ==
  ASSUME IInv, NEW p \in Pids, ShellKill(p)
  PROVE  IInv'
<1>1. TypeOK
  BY DEF IInv, ThreadsHaveProcess, InProcess
<1>2. Mesg("KILL_PROCESS", p) \in Mesgs
  BY MesgTypes
<1>3. dwKillerTID' \in [Tids -> Tids \cup {0}]
  BY <1>1 DEF ShellKill, TypeOK
<1> QED
  BY <1>2, <1>3, AskIInv DEF ShellKill

(* kexecve: the old threads and the thread that asked are killed under the *)
(* new PID, so the request covers whoever was dying with the old one.      *)
LEMMA ExecIInv ==
  ASSUME IInv, NEW t \in Tids, Exec(t)
  PROVE  IInv'
<1> DEFINE p == procOf[t]
           q == Min(NewPids)
           n == Min(NewTids)
<1>1. /\ q \in Pids /\ proc[q] = "none" /\ n \in Tids /\ pc[n] = "none"
  BY NewOnes DEF Exec
<1>2. /\ proc' = [proc EXCEPT ![q] = "live"]
      /\ procOf' = Swapped(p, q, n)
      /\ pc' = [pc EXCEPT ![n] = "run", ![t] = "dying"]
      /\ kmesgq' = Sent(Sniper, Mesg("KILL_PROCESS", q))
      /\ UNCHANGED <<dwParentID, want, waitType, dwKillerTID, inKernel, corrupt>>
  BY DEF Exec
<1>3. pc[t] = "run" /\ inKernel = NoOne /\ MayAsk
  BY DEF Exec, Runs
<1>4. TypeOK /\ OwnersAreProcesses /\ ThreadsHaveProcess
  BY DEF IInv, ThreadsHaveProcess, InProcess
<1>5. p \in Pids /\ proc[p] = "live"
  BY <1>3, <1>4 DEF OwnersAreProcesses, ThreadsHaveProcess, Exists, InProcess
<1>6. Mesg("KILL_PROCESS", q) \in Mesgs
  BY <1>1, MesgTypes
<1> HIDE DEF p, q, n
<1>7. /\ procOf' \in [Tids -> Pids \cup {0}]
      /\ \A u \in Tids : procOf'[u] = IF u = n THEN p
                                      ELSE IF u \in ThreadsOf(p) THEN q ELSE procOf[u]
  <2>1. n \notin ThreadsOf(p)
    BY <1>1 DEF ThreadsOf, Exists, InProcess
  <2> QED
    BY <2>1, <1>1, <1>2, <1>4, <1>5 DEF TypeOK, Swapped
<1>8. /\ pc'[n] = "run" /\ pc'[t] = "dying" /\ n # t
      /\ \A u \in Tids \ {n, t} : pc'[u] = pc[u]
      /\ pc' \in [Tids -> States]
  BY <1>1, <1>2, <1>3, <1>4 DEF TypeOK, States
<1>9. TypeOK'
  BY <1>1, <1>2, <1>3, <1>4, <1>6, <1>7, <1>8, AskOperation, Names DEF TypeOK
<1>10. ASSUME NEW u \in Tids, InProcess(u)'
       PROVE  procOf'[u] \in Pids /\ proc'[procOf'[u]] = "live"
  <2>1. CASE u = n
    BY <2>1, <1>1, <1>2, <1>4, <1>5, <1>7 DEF TypeOK
  <2>2. CASE u # n /\ u \in ThreadsOf(p)
    BY <2>2, <1>1, <1>2, <1>4, <1>7 DEF TypeOK
  <2>3. CASE u # n /\ u \notin ThreadsOf(p)
    <3>1. InProcess(u)
      BY <2>3, <1>3, <1>8, <1>10 DEF Exists, InProcess
    <3>2. procOf[u] \in Pids /\ proc[procOf[u]] = "live"
      BY <3>1, <1>4 DEF OwnersAreProcesses, ThreadsHaveProcess, InProcess
    <3> QED
      BY <2>3, <3>2, <1>1, <1>2, <1>4, <1>7 DEF TypeOK
  <2> QED
    BY <2>1, <2>2, <2>3
<1>11. ASSUME NEW u \in Tids, pc'[u] \in {"dying", "undead"}
       PROVE  RequestFor(u, kmesgq[Sniper])'
  <2>1. u # n
    BY <1>8, <1>11
  <2>2. CASE u \in ThreadsOf(p)
    <3>1. Mesg("KILL_PROCESS", q) = Mesg("KILL_PROCESS", procOf'[u])
      BY <2>1, <2>2, <1>7
    <3> QED
      BY <3>1, <1>2, <1>3, <1>4, <1>6, AskedFor
  <2>3. CASE u \notin ThreadsOf(p)
    <3>1. u # t
      BY <2>3, <1>3 DEF ThreadsOf, Exists, InProcess, p
    <3>2. pc[u] \in {"dying", "undead"} /\ procOf'[u] = procOf[u]
      BY <2>1, <2>3, <3>1, <1>7, <1>8, <1>11
    <3>3. RequestFor(u, kmesgq[Sniper])
      BY <3>2 DEF IInv, DyingHaveAsked
    <3> QED
      BY <3>2, <3>3, <1>2, <1>3, <1>4, <1>6, AskKeepsRequests
  <2> QED
    BY <2>2, <2>3
<1>12. UndeadNeverRuns'
  <2>1. \A u \in Tids : pc[u] # "undead"
    BY <1>3, NobodyUndead, Names
  <2> QED
    BY <2>1, <1>8 DEF UndeadNeverRuns
<1>13. \A u \in Tids : kmesgq'[u] = kmesgq[u]
  BY <1>2, <1>3, <1>4, <1>6, AskOperation
<1>14. ExitsNameZombies'
  <2>1. \A r \in Pids : proc[r] = "zombie" => proc'[r] = "zombie"
    BY <1>1, <1>2, <1>4 DEF TypeOK
  <2>2. ASSUME ~ corrupt, NEW u \in Tids, NEW i \in 1..Len(kmesgq[u]), IsExit(u, i)
        PROVE  proc'[kmesgq[u][i].dwAParam] = "zombie"
    <3>1. proc[kmesgq[u][i].dwAParam] = "zombie"
      BY <2>2 DEF IInv, ExitsNameZombies
    <3>2. kmesgq[u][i] \in Mesgs
      BY <1>4, ElementOfSeq DEF TypeOK
    <3>3. kmesgq[u][i].dwAParam \in Pids
      BY <2>2, <3>2, ExitsNamePids DEF IsExit
    <3> QED
      BY <3>1, <3>3, <2>1
  <2> QED
    BY <2>2, <1>2, <1>13 DEF ExitsNameZombies, IsExit
<1>15. ExitsDiffer'
  BY <1>2, <1>13 DEF IInv, ExitsDiffer, IsExit
<1> QED
  BY <1>9, <1>10, <1>11, <1>12, <1>14, <1>15
     DEF IInv, ThreadsHaveProcess, InProcess, OwnersAreProcesses, DyingHaveAsked

-----------------------------------------------------------------------------
(* Taking a message.                                                       *)

(* kwait and its friends: the message goes, and with it the zombie.        *)
LEMMA ReceiveIInv ==
  ASSUME IInv, NEW t \in Tids, NEW call \in WaitCalls, Receive(t, call)
  PROVE  IInv'
<1> DEFINE i == Min(OfType(t, MesgOf(call)))
           id == kmesgq[t][i].dwAParam
           found == call.fun = "kwait" \/ id = call.id
           reaps == found /\ call.fun # "kwaittid"
<1>1. /\ ~ corrupt
      /\ pc[t] \in {"run", "woken"} /\ inKernel \in {NoOne, t}
      /\ OfType(t, MesgOf(call)) # {}
      /\ kmesgq' = [kmesgq EXCEPT ![t] = RemoveAt(@, i)]
      /\ proc' = IF reaps THEN [proc EXCEPT ![id] = "gone"] ELSE proc
      /\ pc' = [pc EXCEPT ![t] = IF found THEN "run" ELSE "woken"]
      /\ want' = [want EXCEPT ![t] = IF found THEN NoCall ELSE call]
      /\ inKernel' = IF found THEN NoOne ELSE t
      /\ UNCHANGED <<dwParentID, procOf, waitType, dwKillerTID, corrupt>>
  BY DEF Receive, InCall, Runs, Reaped
<1>2. TypeOK /\ OwnersAreProcesses /\ ThreadsHaveProcess
  BY DEF IInv, ThreadsHaveProcess, InProcess
<1>3. kmesgq[t] \in Seq(Mesgs) /\ Len(kmesgq[t]) \in Nat /\ DOMAIN kmesgq[t] = 1..Len(kmesgq[t])
  BY <1>2, LenProperties DEF TypeOK
<1>4. i \in 1..Len(kmesgq[t]) /\ kmesgq[t][i].wType = MesgOf(call)
  <2>1. OfType(t, MesgOf(call)) \subseteq Nat
    BY <1>3 DEF OfType
  <2>2. i \in OfType(t, MesgOf(call))
    BY <1>1, <2>1, MinIsMember
  <2> QED
    BY <2>2, <1>3 DEF OfType
<1>5. reaps => /\ IsExit(t, i) /\ id \in Pids /\ proc[id] = "zombie"
  <2>1. ASSUME reaps PROVE IsExit(t, i)
    BY <2>1, <1>4 DEF MesgOf, IsExit
  <2>2. ASSUME reaps PROVE id \in Pids
    <3>1. kmesgq[t][i] \in Mesgs
      BY <1>3, <1>4, ElementOfSeq
    <3> QED
      BY <3>1, <2>1, <2>2, ExitsNamePids DEF IsExit
  <2>3. ASSUME reaps PROVE proc[id] = "zombie"
    BY <2>1, <2>3, <1>1, <1>4 DEF IInv, ExitsNameZombies
  <2> QED
    BY <2>1, <2>2, <2>3
<1> HIDE DEF i, reaps
<1>6. /\ RemoveAt(kmesgq[t], i) \in Seq(Mesgs)
      /\ Len(RemoveAt(kmesgq[t], i)) = Len(kmesgq[t]) - 1
      /\ \A k \in 1..Len(kmesgq[t]) - 1 :
           RemoveAt(kmesgq[t], i)[k] = kmesgq[t][IF k < i THEN k ELSE k + 1]
  BY <1>3, <1>4, RemoveAtOperation
<1> HIDE DEF id, found
<1>7. /\ kmesgq' \in [Tids \cup {Sniper} -> Seq(Mesgs)]
      /\ \A u \in Tids \cup {Sniper} : u # t => kmesgq'[u] = kmesgq[u]
      /\ kmesgq'[t] = RemoveAt(kmesgq[t], i)
  BY <1>1, <1>2, <1>6 DEF TypeOK
<1>8. \A u \in Tids \cup {Sniper} : Len(kmesgq'[u]) <= MAX_KMESG
  <2>1. Len(kmesgq[t]) <= MAX_KMESG /\ MAX_KMESG \in Nat
    BY <1>2, ProcLifeAssumption DEF TypeOK
  <2>2. Len(kmesgq'[t]) <= MAX_KMESG
    BY <2>1, <1>3, <1>6, <1>7
  <2>3. \A u \in Tids \cup {Sniper} : u # t => Len(kmesgq'[u]) <= MAX_KMESG
    BY <1>2, <1>7 DEF TypeOK
  <2> QED
    BY <2>2, <2>3
<1>9. proc' \in [Pids -> {"none", "live", "zombie", "gone"}]
  BY <1>1, <1>2 DEF TypeOK
<1>10. /\ \A u \in Tids : u # t => pc'[u] = pc[u]
       /\ pc'[t] \in {"run", "woken"} /\ pc' \in [Tids -> States]
  BY <1>1, <1>2 DEF TypeOK, States
<1>11. \A u \in Tids : (Exists(u)' <=> Exists(u)) /\ (InProcess(u)' <=> InProcess(u))
  BY <1>1, <1>10 DEF Exists, InProcess
<1>12. TypeOK'
  <2>1. want' \in [Tids -> WaitCalls \cup {NoCall}]
    BY <1>1, <1>2 DEF TypeOK
  <2>2. inKernel' \in {NoOne, Sniper} \cup {u \in Tids : Exists(u)'}
    BY <1>1, <1>10 DEF Exists, InProcess
  <2> QED
    BY <1>1, <1>2, <1>7, <1>8, <1>9, <1>10, <2>1, <2>2 DEF TypeOK
<1>13. ASSUME NEW u \in Tids, InProcess(u)'
       PROVE  procOf'[u] \in Pids /\ proc'[procOf'[u]] = "live"
  <2>1. procOf[u] \in Pids /\ proc[procOf[u]] = "live"
    BY <1>2, <1>11, <1>13 DEF OwnersAreProcesses, ThreadsHaveProcess, InProcess
  <2> QED
    BY <2>1, <1>1, <1>2, <1>5 DEF TypeOK
<1>14. DyingHaveAsked'
  <2>1. kmesgq'[Sniper] = kmesgq[Sniper]
    BY <1>7, Names
  <2> QED
    BY <2>1, <1>1, <1>10 DEF IInv, DyingHaveAsked, RequestFor
<1>15. UndeadNeverRuns'
  <2>1. \A u \in Tids : pc[u] # "undead"
    BY <1>1, NobodyUndead, Names
  <2> QED
    BY <2>1, <1>10 DEF UndeadNeverRuns
<1> DEFINE old(u, k) == IF u = t THEN IF k < i THEN k ELSE k + 1 ELSE k
<1>16. ASSUME NEW u \in Tids, NEW k \in 1..Len(kmesgq'[u])
       PROVE  /\ old(u, k) \in 1..Len(kmesgq[u])
              /\ kmesgq'[u][k] = kmesgq[u][old(u, k)]
              /\ ~ (u = t /\ old(u, k) = i)
  <2>1. CASE u # t
    BY <2>1, <1>7
  <2>2. CASE u = t
    <3>1. k \in 1..Len(kmesgq[t]) - 1
      BY <2>2, <1>3, <1>6, <1>7
    <3> QED
      BY <3>1, <2>2, <1>3, <1>4, <1>6, <1>7
  <2> QED
    BY <2>1, <2>2
<1>17. ASSUME NEW u \in Tids, NEW k \in 1..Len(kmesgq'[u]), NEW l \in 1..Len(kmesgq'[u]),
              old(u, k) = old(u, l)
       PROVE  k = l
  <2>1. CASE u # t
    BY <2>1, <1>17
  <2>2. CASE u = t
    <3>1. k \in Int /\ l \in Int /\ i \in Int
      BY <2>2, <1>3, <1>4, <1>6, <1>7
    <3> QED
      BY <3>1, <2>2, <1>17
  <2> QED
    BY <2>1, <2>2
<1> HIDE DEF old
<1>18. ExitsNameZombies'
  <2> SUFFICES ASSUME NEW u \in Tids, NEW k \in 1..Len(kmesgq'[u]), IsExit(u, k)'
               PROVE  proc'[kmesgq'[u][k].dwAParam] = "zombie"
    BY DEF ExitsNameZombies
  <2>1. /\ old(u, k) \in 1..Len(kmesgq[u])
        /\ kmesgq'[u][k] = kmesgq[u][old(u, k)]
        /\ ~ (u = t /\ old(u, k) = i)
    BY <1>16
  <2>2. IsExit(u, old(u, k))
    BY <2>1 DEF IsExit
  <2>3. proc[kmesgq[u][old(u, k)].dwAParam] = "zombie"
    BY <2>1, <2>2, <1>1 DEF IInv, ExitsNameZombies
  <2>4. reaps => kmesgq[u][old(u, k)].dwAParam # id
    BY <2>1, <2>2, <1>1, <1>4, <1>5 DEF IInv, ExitsDiffer, id
  <2>5. kmesgq[u][old(u, k)] \in Mesgs
    BY <2>1, <1>2, ElementOfSeq DEF TypeOK
  <2>6. kmesgq[u][old(u, k)].dwAParam \in Pids
    BY <2>2, <2>5, ExitsNamePids DEF IsExit
  <2> QED
    BY <2>1, <2>3, <2>4, <2>6, <1>1, <1>2 DEF TypeOK
<1>19. ExitsDiffer'
  <2> SUFFICES ASSUME NEW u \in Tids, NEW v \in Tids,
                      NEW k \in 1..Len(kmesgq'[u]), NEW l \in 1..Len(kmesgq'[v]),
                      IsExit(u, k)', IsExit(v, l)',
                      kmesgq'[u][k].dwAParam = kmesgq'[v][l].dwAParam
               PROVE  u = v /\ k = l
    BY DEF ExitsDiffer
  <2>1. /\ old(u, k) \in 1..Len(kmesgq[u]) /\ kmesgq'[u][k] = kmesgq[u][old(u, k)]
        /\ old(v, l) \in 1..Len(kmesgq[v]) /\ kmesgq'[v][l] = kmesgq[v][old(v, l)]
    BY <1>16
  <2>2. IsExit(u, old(u, k)) /\ IsExit(v, old(v, l))
    BY <2>1 DEF IsExit
  <2>3. u = v /\ old(u, k) = old(v, l)
    BY <2>1, <2>2, <1>1 DEF IInv, ExitsDiffer
  <2> QED
    BY <2>3, <1>17
<1> QED
  BY <1>12, <1>13, <1>14, <1>15, <1>18, <1>19 DEF IInv, ThreadsHaveProcess, InProcess, OwnersAreProcesses


-----------------------------------------------------------------------------
(* The sniper.                                                             *)

(* A request that is not the first is still there when the first is taken. *)
LEMMA TailKeepsRequest ==
  ASSUME TypeOK, kmesgq[Sniper] # <<>>, NEW t \in Tids, RequestFor(t, kmesgq[Sniper]),
         Head(kmesgq[Sniper]) \notin {Mesg("KILL_THREAD", t), Mesg("KILL_PROCESS", procOf[t])}
  PROVE  RequestFor(t, Tail(kmesgq[Sniper])) /\ Tail(kmesgq[Sniper]) # <<>>
<1> DEFINE q == kmesgq[Sniper]
<1>1. q \in Seq(Mesgs) /\ q # <<>>
  BY DEF TypeOK
<1>2. PICK i \in 1..Len(q) : q[i] \in {Mesg("KILL_THREAD", t), Mesg("KILL_PROCESS", procOf[t])}
  BY DEF RequestFor
<1>3. /\ Head(q) = q[1]
      /\ Len(q) \in Nat
      /\ Tail(q) \in Seq(Mesgs) /\ Len(Tail(q)) = Len(q) - 1
      /\ \A k \in 1..Len(q) - 1 : Tail(q)[k] = q[k + 1]
  <2>1. Head(q) = q[1] /\ Len(q) \in Nat
    BY <1>1, HeadTailProperties, LenProperties
  <2>2. Tail(q) \in Seq(Mesgs) /\ Len(Tail(q)) = Len(q) - 1
    BY <1>1, HeadTailProperties
  <2>3. \A k \in 1..Len(q) - 1 : Tail(q)[k] = q[k + 1]
    BY <1>1, <2>1, <2>2, HeadTailProperties
  <2> QED
    BY <2>1, <2>2, <2>3
<1>4. i # 1
  BY <1>2, <1>3
<1>5. i - 1 \in 1..Len(Tail(q)) /\ Tail(q)[i - 1] = q[i]
  BY <1>2, <1>3, <1>4
<1>6. ASSUME Tail(q) = <<>> PROVE FALSE
  <2>1. Len(Tail(q)) = 0
    BY <1>6, EmptySeq
  <2> QED
    BY <2>1, <1>2, <1>5
<1> QED
  BY <1>2, <1>5, <1>6 DEF RequestFor

(* A user thread's message was there before, or is m, sent to one of R. *)
OldOrSent(R, m) ==
    \A t \in Tids : \A k \in 1..Len(kmesgq'[t]) :
        \/ k \in 1..Len(kmesgq[t]) /\ kmesgq'[t][k] = kmesgq[t][k]
        \/ t \in R /\ k = Len(kmesgq[t]) + 1 /\ kmesgq'[t][k] = m

(* The queues after the sniper took a request. *)
LEMMA QueuesAfterOperation ==
  ASSUME TypeOK, kmesgq[Sniper] # <<>>, NEW T, NEW R, T \subseteq Tids, R \subseteq Tids,
         NEW m \in Mesgs, kmesgq' = QueuesAfter(T, R, m)
  PROVE  /\ kmesgq' \in [Tids \cup {Sniper} -> Seq(Mesgs)]
         /\ \A t \in Tids \cup {Sniper} : Len(kmesgq'[t]) <= MAX_KMESG
         /\ kmesgq'[Sniper] = Tail(kmesgq[Sniper])
         /\ OldOrSent(R, m)
<1>1. /\ \A t \in Tids \cup {Sniper} : kmesgq[t] \in Seq(Mesgs) /\ Len(kmesgq[t]) \in Nat
                                      /\ Len(kmesgq[t]) <= MAX_KMESG
      /\ MAX_KMESG \in Nat
  BY LenProperties, ProcLifeAssumption DEF TypeOK
<1>2. Tail(kmesgq[Sniper]) \in Seq(Mesgs) /\ Len(Tail(kmesgq[Sniper])) = Len(kmesgq[Sniper]) - 1
  BY <1>1, HeadTailProperties
<1>3. \A t \in Tids : /\ Sent(t, m)[t] \in Seq(Mesgs)
                      /\ Len(Sent(t, m)[t]) <= MAX_KMESG
  <2> SUFFICES ASSUME NEW t \in Tids
               PROVE  Sent(t, m)[t] \in Seq(Mesgs) /\ Len(Sent(t, m)[t]) <= MAX_KMESG
    OBVIOUS
  <2> QED
    BY SentOperation
<1>4. /\ DOMAIN kmesgq' = Tids \cup {Sniper}
      /\ kmesgq'[Sniper] = Tail(kmesgq[Sniper])
      /\ \A t \in T : kmesgq'[t] = <<>>
      /\ \A t \in R \ T : kmesgq'[t] = Sent(t, m)[t]
      /\ \A t \in Tids \ (R \cup T) : kmesgq'[t] = kmesgq[t]
      /\ kmesgq' = [t \in Tids \cup {Sniper} |-> kmesgq'[t]]
  BY Names DEF QueuesAfter
<1>5. ASSUME NEW t \in Tids \cup {Sniper}
      PROVE  kmesgq'[t] \in Seq(Mesgs) /\ Len(kmesgq'[t]) <= MAX_KMESG
  <2>1. CASE t = Sniper
    BY <2>1, <1>1, <1>2, <1>4
  <2>2. CASE t \in T
    <3>1. kmesgq'[t] = <<>>
      BY <2>2, <1>4
    <3>2. kmesgq'[t] \in Seq(Mesgs) /\ Len(kmesgq'[t]) = 0
      BY <3>1, EmptySeq
    <3> QED
      BY <3>2, <1>1
  <2>3. CASE t \in R \ T
    BY <2>3, <1>3, <1>4
  <2>4. CASE t \in Tids \ (R \cup T)
    BY <2>4, <1>1, <1>4
  <2> QED
    BY <2>1, <2>2, <2>3, <2>4
<1>6. ASSUME NEW t \in Tids, NEW k \in 1..Len(kmesgq'[t])
      PROVE  \/ k \in 1..Len(kmesgq[t]) /\ kmesgq'[t][k] = kmesgq[t][k]
             \/ t \in R /\ k = Len(kmesgq[t]) + 1 /\ kmesgq'[t][k] = m
  <2>1. CASE t \in T
    BY <2>1, <1>4, EmptySeq
  <2>2. CASE t \in R \ T
    <3>1. /\ Len(kmesgq[t]) < MAX_KMESG =>
               /\ Len(Sent(t, m)[t]) = Len(kmesgq[t]) + 1
               /\ \A i \in 1..Len(kmesgq[t]) : Sent(t, m)[t][i] = kmesgq[t][i]
               /\ Sent(t, m)[t][Len(kmesgq[t]) + 1] = m
          /\ Len(kmesgq[t]) >= MAX_KMESG => Sent(t, m)[t] = kmesgq[t]
      BY SentOperation
    <3>2. kmesgq'[t] = Sent(t, m)[t]
      BY <2>2, <1>4
    <3> HIDE DEF Sent
    <3>3. CASE Len(kmesgq[t]) < MAX_KMESG
      <4>1. k \in 1..Len(kmesgq[t]) \/ k = Len(kmesgq[t]) + 1
        BY <3>1, <3>2, <3>3, <1>1
      <4> QED
        BY <4>1, <2>2, <3>1, <3>2, <3>3
    <3>4. CASE Len(kmesgq[t]) >= MAX_KMESG
      BY <3>1, <3>2, <3>4
    <3> QED
      BY <3>3, <3>4, <1>1
  <2>3. CASE t \notin R \cup T
    BY <2>3, <1>4
  <2> QED
    BY <2>1, <2>2, <2>3
<1> QED
  BY <1>4, <1>5, <1>6 DEF OldOrSent

(* The threads after the sniper took a request: those of T are gone, those *)
(* of V were revived, and a message may have woken those of R.             *)
LEMMA StatesAfterOperation ==
  ASSUME TypeOK, NEW T, NEW V, NEW R, T \subseteq Tids, V \subseteq Tids \ T,
         R \subseteq Tids, pc' = StatesAfter(T, V, R)
  PROVE  /\ pc' \in [Tids -> States]
         /\ \A t \in T : pc'[t] = "gone"
         /\ \A t \in V : pc'[t] = "stray"
         /\ \A t \in Tids \ (T \cup V) :
              \/ pc'[t] = pc[t]
              \/ pc[t] = "wait" /\ pc'[t] = "woken"
              \/ pc[t] = "dying" /\ pc'[t] = "undead"
<1>1. /\ DOMAIN pc' = Tids
      /\ \A t \in T : pc'[t] = "gone"
      /\ \A t \in V : pc'[t] = "stray"
      /\ \A t \in R \ (T \cup V) : pc'[t] = Woken(t)[t]
      /\ \A t \in Tids \ (R \cup T \cup V) : pc'[t] = pc[t]
      /\ pc' = [t \in Tids |-> pc'[t]]
  BY DEF StatesAfter
<1>2. ASSUME NEW t \in Tids \ (T \cup V)
      PROVE  \/ pc'[t] = pc[t]
             \/ pc[t] = "wait" /\ pc'[t] = "woken"
             \/ pc[t] = "dying" /\ pc'[t] = "undead"
  <2>1. CASE t \in R
    BY <2>1, <1>1, WokenOperation
  <2>2. CASE t \notin R
    BY <2>2, <1>1
  <2> QED
    BY <2>1, <2>2
<1>3. \A t \in Tids : pc'[t] \in States
  BY <1>1, <1>2 DEF TypeOK, States
<1> QED
  BY <1>1, <1>2, <1>3

(* A request is carried out: the threads T end, V are revived, and m is    *)
(* sent to R.  Who is left has a live process and is not the one the       *)
(* request was about, and an exit message is the first about its zombie    *)
(* and goes to one thread.                                                 *)
LEMMA KillIInv ==
  ASSUME IInv, NEW w, NEW id, TakesRequest(w, id),
         NEW T, NEW V, NEW R, T \subseteq Tids, V \subseteq Tids \ T, R \subseteq Tids,
         NEW m \in Mesgs,
         kmesgq' = QueuesAfter(T, R, m), pc' = StatesAfter(T, V, R), Freed(T),
         UNCHANGED <<dwParentID, corrupt>>,
         proc' \in [Pids -> {"none", "live", "zombie", "gone"}],
         \A t \in Tids \ (T \cup V) : InProcess(t) => proc'[procOf[t]] = "live",
         \A t \in Tids \ (T \cup V) : pc[t] \in {"dying", "undead"} =>
             Head(kmesgq[Sniper]) \notin {Mesg("KILL_THREAD", t), Mesg("KILL_PROCESS", procOf[t])},
         \A p \in Pids : proc[p] = "zombie" => proc'[p] = "zombie",
         R # {} /\ m.wType = "CHILD_PROCESS_EXIT" =>
             /\ proc[m.dwAParam] # "zombie" /\ proc'[m.dwAParam] = "zombie"
             /\ \A t, u \in R : t = u
  PROVE  IInv'
<1>1. TypeOK /\ OwnersAreProcesses /\ ThreadsHaveProcess
  BY DEF IInv, ThreadsHaveProcess, InProcess
<1>2. /\ kmesgq[Sniper] # <<>> /\ ~ corrupt
      /\ inKernel' = IF Tail(kmesgq[Sniper]) # <<>> THEN Sniper ELSE NoOne
  BY DEF TakesRequest, KeepsGoing
<1>3. /\ kmesgq' \in [Tids \cup {Sniper} -> Seq(Mesgs)]
      /\ \A t \in Tids \cup {Sniper} : Len(kmesgq'[t]) <= MAX_KMESG
      /\ kmesgq'[Sniper] = Tail(kmesgq[Sniper])
      /\ OldOrSent(R, m)
  <2>1. TypeOK /\ kmesgq[Sniper] # <<>>
    BY <1>1, <1>2
  <2> QED
    BY <2>1, QueuesAfterOperation
<1>4. /\ pc' \in [Tids -> States]
      /\ \A t \in T : pc'[t] = "gone"
      /\ \A t \in V : pc'[t] = "stray"
      /\ \A t \in Tids \ (T \cup V) :
           \/ pc'[t] = pc[t]
           \/ pc[t] = "wait" /\ pc'[t] = "woken"
           \/ pc[t] = "dying" /\ pc'[t] = "undead"
  BY <1>1, StatesAfterOperation
<1>5. /\ procOf' \in [Tids -> Pids \cup {0}]
      /\ \A t \in Tids \ T : procOf'[t] = procOf[t]
      /\ want' \in [Tids -> WaitCalls \cup {NoCall}]
      /\ waitType' \in [Tids -> {"none", "event", "CHILD_PROCESS_EXIT", "CHILD_THREAD_EXIT"}]
      /\ dwKillerTID' \in [Tids -> Tids \cup {0}]
  BY <1>1 DEF TypeOK, Freed
<1>6. TypeOK'
  BY <1>1, <1>2, <1>3, <1>4, <1>5 DEF TypeOK
<1>7. ASSUME NEW t \in Tids, InProcess(t)'
      PROVE  procOf'[t] \in Pids /\ proc'[procOf'[t]] = "live"
  <2>1. t \notin T \cup V /\ InProcess(t)
    BY <1>4, <1>7 DEF Exists, InProcess
  <2>2. procOf[t] \in Pids
    BY <2>1, <1>1 DEF OwnersAreProcesses
  <2> QED
    BY <2>1, <2>2, <1>5
<1>8. ASSUME NEW t \in Tids, pc'[t] \in {"dying", "undead"}
      PROVE  RequestFor(t, kmesgq[Sniper])' /\ inKernel' = Sniper
  <2>1. t \in Tids \ (T \cup V) /\ pc[t] \in {"dying", "undead"}
    BY <1>4, <1>8
  <2>2. RequestFor(t, kmesgq[Sniper])
    BY <2>1 DEF IInv, DyingHaveAsked
  <2>3. RequestFor(t, Tail(kmesgq[Sniper])) /\ Tail(kmesgq[Sniper]) # <<>>
    BY <2>1, <2>2, <1>1, <1>2, TailKeepsRequest
  <2>4. procOf'[t] = procOf[t]
    BY <2>1, <1>5
  <2> QED
    BY <2>3, <2>4, <1>2, <1>3 DEF RequestFor
<1>9. ASSUME NEW t \in Tids, NEW k \in 1..Len(kmesgq'[t]), IsExit(t, k)'
      PROVE  \/ /\ k \in 1..Len(kmesgq[t]) /\ kmesgq'[t][k] = kmesgq[t][k]
                /\ kmesgq[t][k].dwAParam \in Pids
                /\ proc[kmesgq[t][k].dwAParam] = "zombie"
             \/ /\ t \in R /\ k = Len(kmesgq[t]) + 1 /\ kmesgq'[t][k] = m
                /\ proc[m.dwAParam] # "zombie" /\ proc'[m.dwAParam] = "zombie"
                /\ \A v, u \in R : v = u
  <2>1. CASE k \in 1..Len(kmesgq[t]) /\ kmesgq'[t][k] = kmesgq[t][k]
    <3>1. IsExit(t, k)
      BY <2>1, <1>9 DEF IsExit
    <3>2. proc[kmesgq[t][k].dwAParam] = "zombie"
      BY <2>1, <3>1, <1>2 DEF IInv, ExitsNameZombies
    <3>3. kmesgq[t][k] \in Mesgs
      BY <2>1, <1>1, ElementOfSeq DEF TypeOK
    <3>4. kmesgq[t][k].dwAParam \in Pids
      BY <3>1, <3>3, ExitsNamePids DEF IsExit
    <3> QED
      BY <2>1, <3>2, <3>4
  <2>2. CASE t \in R /\ k = Len(kmesgq[t]) + 1 /\ kmesgq'[t][k] = m
    BY <2>2, <1>9 DEF IsExit
  <2> QED
    BY <2>1, <2>2, <1>3 DEF OldOrSent
<1>10. ExitsNameZombies'
  <2> SUFFICES ASSUME NEW t \in Tids, NEW k \in 1..Len(kmesgq'[t]), IsExit(t, k)'
               PROVE  proc'[kmesgq'[t][k].dwAParam] = "zombie"
    BY DEF ExitsNameZombies
  <2> QED
    BY <1>9
<1>11. ExitsDiffer'
  <2> SUFFICES ASSUME NEW t \in Tids, NEW u \in Tids,
                      NEW k \in 1..Len(kmesgq'[t]), NEW l \in 1..Len(kmesgq'[u]),
                      IsExit(t, k)', IsExit(u, l)',
                      kmesgq'[t][k].dwAParam = kmesgq'[u][l].dwAParam
               PROVE  t = u /\ k = l
    BY DEF ExitsDiffer
  <2> DEFINE Old(v, i) == i \in 1..Len(kmesgq[v]) /\ kmesgq'[v][i] = kmesgq[v][i]
  <2>1. CASE Old(t, k) /\ Old(u, l)
    <3>1. IsExit(t, k) /\ IsExit(u, l) /\ kmesgq[t][k].dwAParam = kmesgq[u][l].dwAParam
      BY <2>1 DEF IsExit
    <3> QED
      BY <2>1, <3>1, <1>2 DEF IInv, ExitsDiffer
  <2>2. CASE ~ Old(t, k) /\ ~ Old(u, l)
    BY <2>2, <1>9
  <2>3. CASE Old(t, k) /\ ~ Old(u, l)
    <3>1. proc[kmesgq'[u][l].dwAParam] # "zombie"
      BY <2>3, <1>9
    <3>2. \/ proc[kmesgq'[t][k].dwAParam] = "zombie"
          \/ proc[kmesgq'[t][k].dwAParam] # "zombie" /\ t \in R /\ k = Len(kmesgq[t]) + 1
      BY <1>9
    <3> QED
      BY <2>3, <3>1, <3>2, <1>1, LenProperties DEF TypeOK
  <2>4. CASE ~ Old(t, k) /\ Old(u, l)
    <3>1. proc[kmesgq'[t][k].dwAParam] # "zombie"
      BY <2>4, <1>9
    <3>2. \/ proc[kmesgq'[u][l].dwAParam] = "zombie"
          \/ proc[kmesgq'[u][l].dwAParam] # "zombie" /\ u \in R /\ l = Len(kmesgq[u]) + 1
      BY <1>9
    <3> QED
      BY <2>4, <3>1, <3>2, <1>1, LenProperties DEF TypeOK
  <2> QED
    BY <2>1, <2>2, <2>3, <2>4
<1> QED
  BY <1>6, <1>7, <1>8, <1>10, <1>11
     DEF IInv, ThreadsHaveProcess, InProcess, OwnersAreProcesses, DyingHaveAsked, UndeadNeverRuns

(* sniper_kill_process: all threads end with their process, and the first  *)
(* thread that waits in the parent is told of the zombie.                  *)
LEMMA KillsProcessIInv ==
  ASSUME IInv, NEW p \in Pids, SniperKillsProcess(p)
  PROVE  IInv'
<1> DEFINE W == WaitPidThreads(dwParentID[p])
           R == IF HasParent(p) THEN Told(W) ELSE {}
           m == Mesg("CHILD_PROCESS_EXIT", p)
<1>v. PICK V \in Revivable(ThreadsOf(p)) :
        /\ kmesgq' = QueuesAfter(ThreadsOf(p) \ V, R, m)
        /\ pc' = StatesAfter(ThreadsOf(p) \ V, V, R)
        /\ Freed(ThreadsOf(p) \ V)
  BY DEF SniperKillsProcess, Closed
<1> DEFINE T == ThreadsOf(p) \ V
<1>u. V \subseteq Tids \ T /\ T \cup V = ThreadsOf(p)
  BY DEF Revivable, ThreadsOf
<1>1. /\ TakesRequest("KILL_PROCESS", p) /\ proc[p] = "live"
      /\ proc' = [proc EXCEPT ![p] = IF HasParent(p) THEN "zombie" ELSE "gone"]
      /\ kmesgq' = QueuesAfter(T, R, m) /\ pc' = StatesAfter(T, V, R) /\ Freed(T)
      /\ UNCHANGED <<dwParentID, corrupt>>
  BY <1>v DEF SniperKillsProcess
<1>2. TypeOK /\ OwnersAreProcesses /\ ThreadsHaveProcess
  BY DEF IInv, ThreadsHaveProcess, InProcess
<1>3. T \subseteq Tids /\ m \in Mesgs /\ m.wType = "CHILD_PROCESS_EXIT" /\ m.dwAParam = p
  BY MesgTypes, MesgFields DEF ThreadsOf
<1>4. R \subseteq Tids /\ (R # {} => HasParent(p)) /\ \A t, u \in R : t = u
  <2>1. W \subseteq Tids /\ W \subseteq Nat
    BY DEF WaitPidThreads, ThreadsOf, Tids
  <2>2. W # {} => Min(W) \in W
    BY <2>1, MinIsMember
  <2> HIDE DEF W
  <2> QED
    BY <2>1, <2>2 DEF Told
<1>5. /\ proc' \in [Pids -> {"none", "live", "zombie", "gone"}]
      /\ \A r \in Pids : r # p => proc'[r] = proc[r]
      /\ HasParent(p) => proc'[p] = "zombie"
  BY <1>1, <1>2 DEF TypeOK
<1>6. ASSUME NEW t \in Tids \ (T \cup V), InProcess(t)
      PROVE  procOf[t] \in Pids \ {p} /\ proc[procOf[t]] = "live"
  BY <1>2, <1>6, <1>u DEF OwnersAreProcesses, ThreadsHaveProcess, ThreadsOf, InProcess
<1>7. ASSUME NEW t \in Tids \ (T \cup V), pc[t] \in {"dying", "undead"}
      PROVE  Head(kmesgq[Sniper]) \notin {Mesg("KILL_THREAD", t), Mesg("KILL_PROCESS", procOf[t])}
  <2>1. procOf[t] # p
    BY <1>6, <1>7 DEF Exists, InProcess
  <2>2. Head(kmesgq[Sniper]) = Mesg("KILL_PROCESS", p)
    BY <1>1 DEF TakesRequest
  <2> QED
    BY <2>1, <2>2, MesgFields DEF Mesg
<1> HIDE DEF T, R, m
<1> QED
  BY <1>1, <1>3, <1>4, <1>5, <1>6, <1>7, <1>u, KillIInv

(* A request whose process has ended changes nothing but the queue.        *)
LEMMA MissesProcessIInv ==
  ASSUME IInv, NEW p \in Pids, SniperMissesProcess(p)
  PROVE  IInv'
<1> DEFINE m == Head(kmesgq[Sniper])
<1>1. /\ TakesRequest("KILL_PROCESS", p) /\ proc[p] = "gone"
      /\ kmesgq' = QueuesAfter({}, {}, m)
      /\ UNCHANGED <<proc, dwParentID, procOf, pc, want, waitType, dwKillerTID, corrupt>>
  BY DEF SniperMissesProcess
<1>2. TypeOK /\ OwnersAreProcesses /\ ThreadsHaveProcess
  BY DEF IInv, ThreadsHaveProcess, InProcess
<1>3. m = Mesg("KILL_PROCESS", p) /\ m \in Mesgs
  BY <1>1, MesgTypes DEF TakesRequest
<1>4. pc' = StatesAfter({}, {}, {}) /\ Freed({})
  BY <1>1, <1>2 DEF TypeOK, StatesAfter, Freed
<1>5. \A t \in Tids : InProcess(t) => proc'[procOf[t]] = "live"
  BY <1>1, <1>2 DEF ThreadsHaveProcess, InProcess
<1>6. ASSUME NEW t \in Tids, pc[t] \in {"dying", "undead"}
      PROVE  m \notin {Mesg("KILL_THREAD", t), Mesg("KILL_PROCESS", procOf[t])}
  <2>1. procOf[t] # p
    BY <1>1, <1>5, <1>6 DEF Exists, InProcess
  <2> QED
    BY <2>1, <1>3, MesgFields DEF Mesg
<1>7. proc' \in [Pids -> {"none", "live", "zombie", "gone"}]
  BY <1>1, <1>2 DEF TypeOK
<1> HIDE DEF m
<1> QED
  BY <1>1, <1>3, <1>4, <1>5, <1>6, <1>7, KillIInv DEF m

(* After the list of processes broke nothing more is said of messages.     *)
LEMMA KillsZombieIInv ==
  ASSUME IInv, NEW p \in Pids, SniperKillsZombie(p)
  PROVE  IInv'
<1>1. /\ kmesgq[Sniper] # <<>> /\ Head(kmesgq[Sniper]) = Mesg("KILL_PROCESS", p)
      /\ inKernel' = IF Tail(kmesgq[Sniper]) # <<>> THEN Sniper ELSE NoOne
      /\ proc[p] = "zombie" /\ corrupt' = TRUE
      /\ UNCHANGED <<proc, dwParentID, procOf, pc, want, waitType, kmesgq, dwKillerTID>>
  BY DEF SniperKillsZombie, TakesRequest, KeepsGoing
<1>2. TypeOK /\ OwnersAreProcesses /\ ThreadsHaveProcess
  BY DEF IInv, ThreadsHaveProcess, InProcess
<1>3. TypeOK'
  BY <1>1, <1>2 DEF TypeOK
<1>4. /\ OwnersAreProcesses' /\ DyingHaveAsked'
      /\ \A t \in Tids : InProcess(t)' => proc'[procOf'[t]] = "live"
  BY <1>1, <1>2 DEF IInv, OwnersAreProcesses, ThreadsHaveProcess, DyingHaveAsked,
                    RequestFor, Exists, InProcess
<1>5. ASSUME NEW t \in Tids, pc'[t] = "undead"
      PROVE  inKernel' = Sniper
  <2>1. pc[t] = "undead"
    BY <1>1, <1>5
  <2>2. RequestFor(t, kmesgq[Sniper])
    BY <2>1 DEF IInv, DyingHaveAsked
  <2>3. procOf[t] # p
    BY <2>1, <1>1, <1>2 DEF ThreadsHaveProcess, Exists, InProcess
  <2>4. Head(kmesgq[Sniper]) \notin {Mesg("KILL_THREAD", t), Mesg("KILL_PROCESS", procOf[t])}
    BY <2>3, <1>1, MesgFields DEF Mesg
  <2>5. Tail(kmesgq[Sniper]) # <<>>
    BY <2>2, <2>4, <1>1, <1>2, TailKeepsRequest
  <2> QED
    BY <2>5, <1>1
<1> QED
  BY <1>1, <1>3, <1>4, <1>5
     DEF IInv, ThreadsHaveProcess, UndeadNeverRuns, ExitsNameZombies, ExitsDiffer, InProcess

(* sniper_kill_thread: one thread ends, and the one that asked is told.    *)
LEMMA KillsThreadIInv ==
  ASSUME IInv, NEW u \in Tids, SniperKillsThread(u)
  PROVE  IInv'
<1> DEFINE Ended(V) == IF Exists(u) THEN {u} \ V ELSE {}
           To(T) == {t \in Tids : u \in T /\ dwKillerTID[u] = t /\ Exists(t)}
           m == Mesg("CHILD_THREAD_EXIT", u)
<1>v. PICK V \in Revivable({u}) :
        /\ kmesgq' = QueuesAfter(Ended(V), To(Ended(V)), m)
        /\ pc' = StatesAfter(Ended(V), V, To(Ended(V)))
        /\ Freed(Ended(V))
  BY DEF SniperKillsThread
<1> DEFINE T == Ended(V)
           R == To(T)
<1>u. /\ V \subseteq Tids \ T
      /\ Exists(u) => u \in T \cup V
  BY DEF Revivable
<1>1. /\ TakesRequest("KILL_THREAD", u)
      /\ kmesgq' = QueuesAfter(T, R, m) /\ pc' = StatesAfter(T, V, R) /\ Freed(T)
      /\ UNCHANGED <<proc, dwParentID, corrupt>>
  BY <1>v DEF SniperKillsThread
<1>2. TypeOK /\ OwnersAreProcesses /\ ThreadsHaveProcess
  BY DEF IInv, ThreadsHaveProcess, InProcess
<1>3. m \in Mesgs /\ m.wType # "CHILD_PROCESS_EXIT"
  BY MesgTypes, MesgFields
<1>4. T \subseteq Tids /\ R \subseteq Tids
  OBVIOUS
<1>5. \A t \in Tids : InProcess(t) => proc'[procOf[t]] = "live"
  BY <1>1, <1>2 DEF ThreadsHaveProcess, InProcess
<1>6. ASSUME NEW t \in Tids \ (T \cup V), pc[t] \in {"dying", "undead"}
      PROVE  Head(kmesgq[Sniper]) \notin {Mesg("KILL_THREAD", t), Mesg("KILL_PROCESS", procOf[t])}
  <2>1. t # u
    BY <1>6, <1>u DEF Exists
  <2>2. Head(kmesgq[Sniper]) = Mesg("KILL_THREAD", u)
    BY <1>1 DEF TakesRequest
  <2> QED
    BY <2>1, <2>2, MesgFields DEF Mesg
<1>7. proc' \in [Pids -> {"none", "live", "zombie", "gone"}] /\ proc' = proc
  BY <1>1, <1>2 DEF TypeOK
<1> HIDE DEF T, R, m, Ended, To
<1> QED
  BY <1>1, <1>3, <1>4, <1>5, <1>6, <1>7, <1>u, KillIInv

(* A stray thread has the processor, or is closed again: nothing the       *)
(* invariant speaks of changes, but the request may have been a dying      *)
(* thread's.                                                               *)
LEMMA StrayIInv ==
  ASSUME IInv, NEW u \in Tids, StrayRuns(u) \/ SniperKillsStray(u)
  PROVE  IInv'
<1>1. /\ pc[u] = "stray" /\ corrupt' = TRUE
      /\ UNCHANGED <<proc, dwParentID, procOf, pc, want, waitType, kmesgq, dwKillerTID>>
  BY DEF StrayRuns, SniperKillsStray
<1>2. TypeOK /\ OwnersAreProcesses /\ ThreadsHaveProcess
  BY DEF IInv, ThreadsHaveProcess, InProcess
<1>3. inKernel' \in {inKernel, Sniper, NoOne}
  BY DEF StrayRuns, SniperKillsStray, TakesRequest
<1>4. TypeOK'
  BY <1>1, <1>2, <1>3 DEF TypeOK, Exists
<1>5. /\ OwnersAreProcesses' /\ DyingHaveAsked'
      /\ \A t \in Tids : InProcess(t)' => proc'[procOf'[t]] = "live"
  BY <1>1, <1>2 DEF IInv, OwnersAreProcesses, ThreadsHaveProcess, DyingHaveAsked,
                    RequestFor, Exists, InProcess
<1>6. ASSUME NEW t \in Tids, pc'[t] = "undead"
      PROVE  inKernel' = Sniper
  <2>1. pc[t] = "undead" /\ t # u /\ inKernel = Sniper
    BY <1>1, <1>6 DEF IInv, UndeadNeverRuns
  <2>2. CASE StrayRuns(u)
    BY <2>1, <2>2, Names DEF StrayRuns
  <2>3. CASE SniperKillsStray(u)
    <3>1. /\ kmesgq[Sniper] # <<>> /\ Head(kmesgq[Sniper]) = Mesg("KILL_THREAD", u)
          /\ inKernel' = IF Tail(kmesgq[Sniper]) # <<>> THEN Sniper ELSE NoOne
      BY <2>3 DEF SniperKillsStray, TakesRequest, KeepsGoing
    <3>2. RequestFor(t, kmesgq[Sniper])
      BY <2>1 DEF IInv, DyingHaveAsked
    <3>3. Head(kmesgq[Sniper]) \notin {Mesg("KILL_THREAD", t), Mesg("KILL_PROCESS", procOf[t])}
      BY <2>1, <3>1, MesgFields DEF Mesg
    <3>4. Tail(kmesgq[Sniper]) # <<>>
      BY <3>1, <3>2, <3>3, <1>2, TailKeepsRequest
    <3> QED
      BY <3>1, <3>4
  <2> QED
    BY <2>2, <2>3
<1> QED
  BY <1>1, <1>4, <1>5, <1>6
     DEF IInv, ThreadsHaveProcess, UndeadNeverRuns, ExitsNameZombies, ExitsDiffer, InProcess

-----------------------------------------------------------------------------
(* The theorems.                                                           *)

(* The first thread runs, and no message has been sent. *)
LEMMA InitIInv ==
  Init => IInv
<1> SUFFICES ASSUME Init PROVE IInv
  OBVIOUS
<1>1. 2 \in Pids /\ 1 \in Tids
  BY ProcLifeAssumption DEF Pids, Tids
<1>2. /\ kmesgq = [t \in Tids \cup {Sniper} |-> <<>>]
      /\ <<>> \in Seq(Mesgs) /\ Len(<<>>) = 0
  BY EmptySeq DEF Init
<1>3. \A t \in Tids \cup {Sniper} : kmesgq[t] \in Seq(Mesgs) /\ Len(kmesgq[t]) = 0
  BY <1>2
<1>4. /\ kmesgq \in [Tids \cup {Sniper} -> Seq(Mesgs)]
      /\ \A t \in Tids \cup {Sniper} : Len(kmesgq[t]) <= MAX_KMESG
  <2>1. kmesgq \in [Tids \cup {Sniper} -> Seq(Mesgs)]
    BY <1>2
  <2> QED
    BY <2>1, <1>3, ProcLifeAssumption
<1>5. TypeOK
  BY <1>1, <1>4 DEF Init, TypeOK, States, InitPid
<1>6. \A t \in Tids : pc[t] \in {"run", "none"} /\ (pc[t] = "run" => t = 1)
  BY DEF Init
<1>7. OwnersAreProcesses /\ DyingHaveAsked /\ UndeadNeverRuns
  BY <1>1, <1>6 DEF Init, OwnersAreProcesses, DyingHaveAsked, UndeadNeverRuns, Exists, InProcess
<1>8. \A t \in Tids : InProcess(t) => proc[procOf[t]] = "live"
  BY <1>1, <1>6 DEF Init, Exists, InProcess
<1>9. \A t \in Tids : 1..Len(kmesgq[t]) = {}
  BY <1>3
<1>10. ExitsNameZombies /\ ExitsDiffer
  BY <1>9 DEF ExitsNameZombies, ExitsDiffer
<1> QED
  BY <1>5, <1>7, <1>8, <1>10 DEF IInv, ThreadsHaveProcess, InProcess

(* Every call, and every step of the sniper, keeps the invariant. *)
LEMMA NextIInv ==
  IInv /\ [Next]_vars => IInv'
<1> SUFFICES ASSUME IInv, [Next]_vars PROVE IInv'
  OBVIOUS
<1>1. CASE UNCHANGED vars
  BY <1>1, StutterIInv
<1>2. ASSUME NEW t \in Tids,
             \/ Fork(t) \/ CreateThread(t) \/ Exec(t)
             \/ ExitProcess(t) \/ \E u \in Tids : ExitThread(t, u)
             \/ WaitEvent(t) \/ EventOccurs(t) \/ StrayRuns(t)
             \/ \E call \in WaitCalls : Sleep(t, call) \/ Receive(t, call)
      PROVE  IInv'
  BY <1>2, ForkIInv, CreateThreadIInv, ExecIInv, ExitProcessIInv, ExitThreadIInv,
     EventIInv, SleepIInv, ReceiveIInv, StrayIInv
<1>3. ASSUME NEW p \in Pids, ShellKill(p) PROVE IInv'
  BY <1>3, ShellKillIInv
<1>4. CASE SniperStep
  BY <1>4, KillsProcessIInv, MissesProcessIInv, KillsZombieIInv, KillsThreadIInv, StrayIInv
     DEF SniperStep
<1> QED
  BY <1>1, <1>2, <1>3, <1>4 DEF Next

(* The invariant says what ExitIsReportedOnce says.                        *)
LEMMA ExitsAreReportedOnce ==
  IInv => ExitIsReportedOnce
<1> DEFINE Exits == UNION {{<<t, i>> : i \in OfType(t, "CHILD_PROCESS_EXIT")} : t \in Tids}
           Pid(e) == kmesgq[e[1]][e[2]].dwAParam
<1> SUFFICES ASSUME IInv, ~ corrupt
             PROVE  \A e \in Exits : /\ proc[Pid(e)] = "zombie"
                                     /\ \A f \in Exits : Pid(f) = Pid(e) => f = e
  BY DEF ExitIsReportedOnce
<1>1. \A t \in Tids : kmesgq[t] \in Seq(Mesgs) /\ DOMAIN kmesgq[t] = 1..Len(kmesgq[t])
  BY LenProperties DEF IInv, ThreadsHaveProcess, TypeOK
<1>2. ASSUME NEW e \in Exits
      PROVE  \E t \in Tids : \E i \in 1..Len(kmesgq[t]) : e = <<t, i>> /\ IsExit(t, i)
  BY <1>1 DEF OfType, IsExit
<1> HIDE DEF Exits
<1>3. ASSUME NEW e \in Exits PROVE proc[Pid(e)] = "zombie"
  <2>1. PICK t \in Tids : \E i \in 1..Len(kmesgq[t]) : e = <<t, i>> /\ IsExit(t, i)
    BY <1>2
  <2>2. PICK i \in 1..Len(kmesgq[t]) : e = <<t, i>> /\ IsExit(t, i)
    BY <2>1
  <2> QED
    BY <2>2 DEF IInv, ExitsNameZombies
<1>4. ASSUME NEW e \in Exits, NEW f \in Exits, Pid(f) = Pid(e) PROVE f = e
  <2>1. PICK t \in Tids : \E i \in 1..Len(kmesgq[t]) : e = <<t, i>> /\ IsExit(t, i)
    BY <1>2
  <2>2. PICK i \in 1..Len(kmesgq[t]) : e = <<t, i>> /\ IsExit(t, i)
    BY <2>1
  <2>3. PICK u \in Tids : \E j \in 1..Len(kmesgq[u]) : f = <<u, j>> /\ IsExit(u, j)
    BY <1>2
  <2>4. PICK j \in 1..Len(kmesgq[u]) : f = <<u, j>> /\ IsExit(u, j)
    BY <2>3
  <2>5. kmesgq[t][i].dwAParam = kmesgq[u][j].dwAParam
    BY <2>2, <2>4, <1>4
  <2>6. t = u /\ i = j
    BY <2>2, <2>4, <2>5 DEF IInv, ExitsDiffer
  <2> QED
    BY <2>2, <2>4, <2>6
<1> QED
  BY <1>3, <1>4

(* IInv holds in every reachable state. *)
THEOREM InductiveInvariant ==
  Spec => []IInv
BY InitIInv, NextIInv, PTL DEF Spec

(* Whatever is forked, executed, ended and killed, in whatever order, a    *)
(* thread's process is alive as long as the thread is, or an occurrence    *)
(* made the thread ready in the middle of kclose_thread.                   *)
THEOREM SpecThreadsHaveProcess ==
  Spec => []ThreadsHaveProcess
<1>1. IInv => ThreadsHaveProcess
  BY DEF IInv
<1> QED
  BY <1>1, InductiveInvariant, PTL

(* get_zombie_exit_code finds the zombie that a message names, and no      *)
(* process is reported twice: none is freed twice.                         *)
THEOREM SpecExitIsReportedOnce ==
  Spec => []ExitIsReportedOnce
BY ExitsAreReportedOnce, InductiveInvariant, PTL

(* ksc_exit and kill_process do not return, although a message may wake    *)
(* the thread that sleeps in them.                                         *)
THEOREM SpecUndeadNeverRuns ==
  Spec => []UndeadNeverRuns
<1>1. IInv => UndeadNeverRuns
  BY DEF IInv
<1> QED
  BY <1>1, InductiveInvariant, PTL

=============================================================================
