------------------------------- MODULE MCQueues -------------------------------
(* TLC instances of KMesg, whose messages are their types, and of          *)
(* InputQueue.  They share nothing: one moves, the other is at rest.       *)
EXTENDS KMesg, InputQueue, TLC

CONSTANTS t1, t2

MCMesgs == [wType : Types]
Symmetry == Permutations(Types) \cup Permutations(Threads)

VARIABLE moves

QueuesInit == Init /\ InputInit /\ moves \in {"KMesg", "InputQueue"}

QueuesNext ==
    \/ moves = "KMesg" /\ Next /\ UNCHANGED <<inputVars, moves>>
    \/ moves = "InputQueue" /\ InputNext /\ UNCHANGED <<vars, moves>>

QueuesSpec == QueuesInit /\ [][QueuesNext]_<<vars, inputVars, moves>>

=============================================================================
