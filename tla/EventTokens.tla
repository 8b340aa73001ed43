----------------------------- MODULE EventTokens -----------------------------
(***************************************************************************)
(* What events promise the threads and interrupt handlers that use them    *)
(* (kernel/event.h): an occurrence is a token.  It is kept while no thread *)
(* waits, else it is given to the thread that has waited longest, and that *)
(* thread keeps it until it returns, whatever happens to it meanwhile.     *)
(***************************************************************************)
EXTENDS Naturals, SequencesExt

CONSTANTS Threads, Events, NoEvent

VARIABLES
    tokens,   \* occurrences kept, by event
    queue,    \* threads that wait, by event, in the order they came
    inside,   \* the event a thread has called for, until it returns, or NoEvent
    given     \* the event a thread was given a token of, or NoEvent

tokVars == <<tokens, queue, inside, given>>

TokInit ==
    /\ tokens = [e \in Events |-> 0]
    /\ queue = [e \in Events |-> <<>>]
    /\ inside = [t \in Threads |-> NoEvent]
    /\ given = [t \in Threads |-> NoEvent]

(* An event occurs while no thread waits for it. *)
Keep(e) ==
    /\ queue[e] = <<>>
    /\ tokens' = [tokens EXCEPT ![e] = @ + 1]
    /\ UNCHANGED <<queue, inside, given>>

(* An event occurs while threads wait for it. *)
Give(e) ==
    /\ queue[e] # <<>>
    /\ queue' = [queue EXCEPT ![e] = Tail(@)]
    /\ given' = [given EXCEPT ![Head(queue[e])] = e]
    /\ UNCHANGED <<tokens, inside>>

(* A thread takes a token without waiting. *)
TakeAtOnce(e) ==
    /\ tokens[e] > 0
    /\ tokens' = [tokens EXCEPT ![e] = @ - 1]
    /\ UNCHANGED <<queue, inside, given>>

(* A thread calls and finds no token. *)
QueueUp(t, e) ==
    /\ tokens[e] = 0
    /\ inside[t] = NoEvent
    /\ inside' = [inside EXCEPT ![t] = e]
    /\ queue' = [queue EXCEPT ![e] = Append(@, t)]
    /\ UNCHANGED <<tokens, given>>

(* A waiting thread stops waiting without a token: its timeout expires, or *)
(* a key or a signal arrives.                                              *)
GiveUp(t, e) ==
    /\ t \in ToSet(queue[e])
    /\ queue' = [queue EXCEPT ![e] = RemoveFirst(@, t)]
    /\ UNCHANGED <<tokens, inside, given>>

(* A thread that does not wait any more returns, or dies, with its token   *)
(* if it was given one.                                                    *)
Return(t) ==
    /\ inside[t] # NoEvent
    /\ t \notin ToSet(queue[inside[t]])
    /\ inside' = [inside EXCEPT ![t] = NoEvent]
    /\ given' = [given EXCEPT ![t] = NoEvent]
    /\ UNCHANGED <<tokens, queue>>

(* A thread dies while it waits. *)
Die(t, e) ==
    /\ t \in ToSet(queue[e])
    /\ queue' = [queue EXCEPT ![e] = RemoveFirst(@, t)]
    /\ inside' = [inside EXCEPT ![t] = NoEvent]
    /\ UNCHANGED <<tokens, given>>

(* A driver discards old occurrences before it starts a command. *)
Discard(e) ==
    /\ tokens' = [tokens EXCEPT ![e] = 0]
    /\ UNCHANGED <<queue, inside, given>>

TokNext ==
    \/ \E e \in Events : Keep(e) \/ Give(e) \/ TakeAtOnce(e) \/ Discard(e)
    \/ \E t \in Threads, e \in Events : QueueUp(t, e) \/ GiveUp(t, e) \/ Die(t, e)
    \/ \E t \in Threads : Return(t)

TokSpec == TokInit /\ [][TokNext]_tokVars

=============================================================================
