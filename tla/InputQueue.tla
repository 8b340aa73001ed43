------------------------------ MODULE InputQueue ------------------------------
(***************************************************************************)
(* Keys on their way to the threads that read them: the keyboard interrupt *)
(* and the remote shell put them into the key queue of a foreground        *)
(* thread, getchar takes them out (kernel/kbd.c, rsh_serv.c, serial.c).    *)
(*                                                                         *)
(* Kernel code keeps the processor until it sleeps, but interrupts are on: *)
(* they come between any two steps of a thread here, and a step is what    *)
(* the code does with interrupts disabled or in one access to what they    *)
(* share.  Which thread is in the foreground is left open.                 *)
(***************************************************************************)
EXTENDS Integers, Sequences

CONSTANTS
    Readers,                  \* threads that call getchar
    RShell,                   \* rshell_thread, which reads the serial line
    Keys, NoKey,
    MAX_KEY,                  \* room in a key queue
    SERIAL_PORT_BUFF_SIZE     \* room for received bytes

ASSUME InputQueueAssumption ==
    /\ RShell \notin Readers
    /\ NoKey \notin Keys
    /\ MAX_KEY \in Nat \ {0}
    /\ SERIAL_PORT_BUFF_SIZE \in Nat \ {0}

VARIABLES
    pKbdQ,      \* the key queues
    i_buff,     \* bytes received on the serial line and not read
    reader,     \* what the readers do, see below
    adds        \* what the remote shell is putting into whose queue

inputVars == <<pKbdQ, i_buff, reader, adds>>

KeySlots == 0..(MAX_KEY - 1)

(* nTotalKey is not bounded by its type. *)
KbdQStt == [key : [KeySlots -> Keys \cup {NoKey}], nTotalKey : Nat,
            nNextIn : KeySlots, nNextOut : KeySlots]

NoAdd == [thread |-> RShell, key |-> NoKey]

(* A reader runs, has found its queue "empty" and is about to sleep, or is *)
(* in "wait"; the remote shell is about to "add" a key it has room for, or *)
(* has "added" it and is about to wake the reader.                         *)
InputInit ==
    /\ pKbdQ = [t \in Readers |->
                  [key |-> [i \in KeySlots |-> NoKey],
                   nTotalKey |-> 0, nNextIn |-> 0, nNextOut |-> 0]]
    /\ i_buff = <<>>
    /\ reader = [t \in Readers \cup {RShell} |-> "run"]
    /\ adds = NoAdd

(* Mutant of HasKeyRoom: off by one. *)
HasKeyRoomForOneMore(q) == q.nTotalKey <= MAX_KEY

(* add_key_to_thread refuses a key when the queue is full. *)
HasKeyRoom(q) == q.nTotalKey < MAX_KEY

(* add_key_to_thread, from where it disables interrupts. *)
PutKey(q, k) ==
    [q EXCEPT !.key = [@ EXCEPT ![q.nNextIn] = k],
              !.nNextIn = (@ + 1) % MAX_KEY,
              !.nTotalKey = @ + 1]

(* Mutant of TakeKey: the index stays where it is at the end of the ring. *)
TakeKeyStuck(q) ==
    [q EXCEPT !.nNextOut = IF @ = MAX_KEY - 1 THEN @ ELSE @ + 1,
              !.nTotalKey = @ - 1]

(* sub_key_from_thread. *)
TakeKey(q) ==
    [q EXCEPT !.nNextOut = (@ + 1) % MAX_KEY,
              !.nTotalKey = @ - 1]

(* awake_the_first_waiting_thread; a thread that does not wait is left. *)
Awake(t, p) == IF p[t] = "wait" THEN [p EXCEPT ![t] = "run"] ELSE p

-----------------------------------------------------------------------------
(* Interrupts.                                                             *)

(* deliver_key: the keyboard's interrupt. *)
KeyArrives(t, k) ==
    /\ HasKeyRoom(pKbdQ[t])
    /\ pKbdQ' = [pKbdQ EXCEPT ![t] = PutKey(@, k)]
    /\ reader' = Awake(t, reader)
    /\ UNCHANGED <<i_buff, adds>>

(* ser_irq_handling: a byte for which there is no room is lost, but the    *)
(* reader is woken all the same.                                           *)
ByteArrives(k) ==
    /\ i_buff' = IF Len(i_buff) < SERIAL_PORT_BUFF_SIZE THEN Append(i_buff, k)
                                                        ELSE i_buff
    /\ reader' = Awake(RShell, reader)
    /\ UNCHANGED <<pKbdQ, adds>>

-----------------------------------------------------------------------------
(* Threads.                                                                *)

(* No other thread is in the middle of kernel code. *)
MayRun(t) == \A u \in (Readers \cup {RShell}) \ {t} : reader[u] \in {"run", "wait"}

(* getchar returns a key ... *)
GetKey(t) ==
    /\ reader[t] = "run" /\ MayRun(t)
    /\ pKbdQ[t].nTotalKey > 0
    /\ pKbdQ' = [pKbdQ EXCEPT ![t] = TakeKey(@)]
    /\ UNCHANGED <<i_buff, reader, adds>>

(* ... or, like serial_port_read, finds none ... *)
FindsEmpty(t) ==
    /\ reader[t] = "run" /\ MayRun(t)
    /\ IF t = RShell THEN i_buff = <<>> ELSE pKbdQ[t].nTotalKey = 0
    /\ reader' = [reader EXCEPT ![t] = "empty"]
    /\ UNCHANGED <<pKbdQ, i_buff, adds>>

(* ... and sleeps.  Neither kbd_event nor the port's event ever stores an  *)
(* occurrence, so wait_event always sleeps.                                *)
Sleeps(t) ==
    /\ reader[t] = "empty"
    /\ reader' = [reader EXCEPT ![t] = "wait"]
    /\ UNCHANGED <<pKbdQ, i_buff, adds>>

(* A signal wakes the reader (send_signal_to_thread). *)
SignalWakes(t) ==
    /\ reader[t] = "wait"
    /\ reader' = [reader EXCEPT ![t] = "run"]
    /\ UNCHANGED <<pKbdQ, i_buff, adds>>

(* rshell_thread takes a byte and finds room for it, or drops it. *)
RemoteByte(t) ==
    /\ reader[RShell] = "run" /\ MayRun(RShell)
    /\ i_buff # <<>>
    /\ i_buff' = Tail(i_buff)
    /\ IF HasKeyRoom(pKbdQ[t])
       THEN /\ reader' = [reader EXCEPT ![RShell] = "add"]
            /\ adds' = [thread |-> t, key |-> Head(i_buff)]
       ELSE UNCHANGED <<reader, adds>>
    /\ UNCHANGED pKbdQ

(* It adds the byte as a key, whatever came since ... *)
RemoteAdd ==
    /\ reader[RShell] = "add"
    /\ pKbdQ' = [pKbdQ EXCEPT ![adds.thread] = PutKey(@, adds.key)]
    /\ reader' = [reader EXCEPT ![RShell] = "added"]
    /\ UNCHANGED <<i_buff, adds>>

(* ... and wakes the thread, with interrupts on again.  What an interrupt  *)
(* inside of that does to the event's link is in SchedEvents.              *)
RemoteAwakes ==
    /\ reader[RShell] = "added"
    /\ reader' = Awake(adds.thread, [reader EXCEPT ![RShell] = "run"])
    /\ adds' = NoAdd
    /\ UNCHANGED <<pKbdQ, i_buff>>

InputNext ==
    \/ \E k \in Keys : ByteArrives(k) \/ \E t \in Readers : KeyArrives(t, k)
    \/ \E t \in Readers : GetKey(t) \/ SignalWakes(t) \/ RemoteByte(t)
    \/ \E t \in Readers \cup {RShell} : FindsEmpty(t) \/ Sleeps(t)
    \/ RemoteAdd \/ RemoteAwakes

InputSpec == InputInit /\ [][InputNext]_inputVars

-----------------------------------------------------------------------------
(* Properties.                                                             *)

(* Every variable has its type, and a queue is at most one key over its    *)
(* room, however the two writers interleave.                               *)
InputTypeOK ==
    /\ pKbdQ \in [Readers -> KbdQStt]
    /\ \A t \in Readers : pKbdQ[t].nTotalKey <= MAX_KEY + 1
    /\ i_buff \in Seq(Keys) /\ Len(i_buff) <= SERIAL_PORT_BUFF_SIZE
    /\ reader \in [Readers \cup {RShell} -> {"run", "empty", "wait", "add", "added"}]
    /\ adds \in [thread : Readers, key : Keys] \cup {NoAdd}

(* The keys in a queue, oldest first. *)
KeysOf(q) == [i \in 1..q.nTotalKey |-> q.key[(q.nNextOut + i - 1) % MAX_KEY]]

(* The two writers and the reader pass keys on in the order they came      *)
(* (kbd.h:54), as long as the queue is not over its room.                  *)
KeysInOrder ==
    [][\A t \in Readers :
         LET old == KeysOf(pKbdQ[t])
             new == KeysOf(pKbdQ'[t])
         IN  Len(old) <= MAX_KEY /\ Len(new) <= MAX_KEY =>
                \/ new = old
                \/ \E k \in Keys : new = Append(old, k)
                \/ old # <<>> /\ new = Tail(old)]_inputVars

(* What the code means to do and does not (README, section 6): getchar     *)
(* blocks if no character is entered (kbd.c:587), so a thread does not     *)
(* sleep beside a key.                                                     *)
SleeperHasNoKey ==
    \A t \in Readers : reader[t] = "wait" => pKbdQ[t].nTotalKey = 0

=============================================================================
