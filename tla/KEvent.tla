-------------------------------- MODULE KEvent --------------------------------
(***************************************************************************)
(* One event structure (EventStt, kernel/event.c) as a value, for the      *)
(* components that are built from events.  SchedEvents models the same     *)
(* calls with everything they do to threads, timeouts and the scheduler.   *)
(***************************************************************************)
EXTENDS Integers, SequencesExt

(* The values of EventStt. *)
EventStt(T) == [nCount : Nat, link : Seq(T)]

(* init_event. *)
NewEvent == [nCount |-> 0, link |-> <<>>]

(* wait_event returns at once and takes a stored occurrence. *)
Occurred(e)       == e.nCount > 0
TakeOccurrence(e) == [e EXCEPT !.nCount = @ - 1]

(* wait_event links the thread at the end. *)
LinkWaiter(e, t) == [e EXCEPT !.link = Append(@, t)]

(* inc_event_count wakes the first thread of the link, or counts when      *)
(* there is none.                                                          *)
IncEvent(e) == IF e.link = <<>> THEN [e EXCEPT !.nCount = @ + 1]
                                ELSE [e EXCEPT !.link = Tail(@)]

(* The threads inc_event_count wakes. *)
Woken(e) == IF e.link = <<>> THEN {} ELSE {Head(e.link)}

(* release_thread_wait_object: a thread that dies leaves the link. *)
DropWaiter(e, t) == [e EXCEPT !.link = RemoveFirst(@, t)]

=============================================================================
