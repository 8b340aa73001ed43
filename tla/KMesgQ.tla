-------------------------------- MODULE KMesgQ --------------------------------
(***************************************************************************)
(* The message queue of a thread (KMesgQStt, kernel/kmesg.c) as a value: a *)
(* ring of MAX_KMESG slots.  A message can be taken from the middle, which *)
(* leaves a free slot there that the next message goes into.               *)
(***************************************************************************)
EXTENDS Integers, FiniteSets, FiniteSetsExt

CONSTANTS
    MAX_KMESG,     \* slots of a queue
    Mesgs,         \* messages: records with a field wType
    NoMesg,        \* KMESG_PROCESSED: a free slot
    KMESG_ANY      \* the type that stands for all types

ASSUME KMesgAssumption ==
    /\ MAX_KMESG \in Nat \ {0}
    /\ NoMesg \notin Mesgs

Slots == 0..(MAX_KMESG - 1)

KMesgQStt == [ent : [Slots -> Mesgs \cup {NoMesg}],
              wStart : Slots, wEnd : Slots, wTotalMesg : 0..MAX_KMESG]

NewKMesgQ == [ent |-> [i \in Slots |-> NoMesg],
              wStart |-> 0, wEnd |-> 0, wTotalMesg |-> 0]

(* The slots in the order both scans visit them. *)
At(kq, k) == (kq.wStart + k) % MAX_KMESG

(* The slots of messages that nobody has taken. *)
Unread(kq) == {i \in Slots : kq.ent[i] # NoMesg}

(* Mutant of Wanted: every message is taken for the one that is waited for. *)
WantedAny(m, wType) == m # NoMesg

(* find_kmesg: the message is of the type that is asked for. *)
Wanted(m, wType) == m # NoMesg /\ (wType = KMESG_ANY \/ m.wType = wType)

(* find_kmesg: the scan starts at wStart. *)
HasKMesg(kq, wType) == \E i \in Slots : Wanted(kq.ent[i], wType)
FindKMesg(kq, wType) ==
    At(kq, Min({k \in Slots : Wanted(kq.ent[At(kq, k)], wType)}))

(* ksend_kmesg's scan reaches wEnd.  The index that wraps around is        *)
(* compared with wEnd before it is set to 0, so slot 0 is missed.          *)
ReachesEnd(kq, k) == At(kq, k) = kq.wEnd /\ (k = 0 \/ At(kq, k) # 0)

(* ksend_kmesg's scan ends at wEnd or at the first free slot. *)
ScanEnd(kq) ==
    Min({k \in Slots : ReachesEnd(kq, k) \/ kq.ent[At(kq, k)] = NoMesg})

(* Mutant of PutKMesg: a free slot before wEnd is not counted. *)
PutKMesgUncounted(kq, m) ==
    LET k == ScanEnd(kq)
        i == At(kq, k)
    IN  [kq EXCEPT !.ent = [@ EXCEPT ![i] = m],
                   !.wEnd = IF ReachesEnd(kq, k) THEN (i + 1) % MAX_KMESG ELSE @,
                   !.wTotalMesg = IF ReachesEnd(kq, k) THEN @ + 1 ELSE @]

(* ksend_kmesg writes the message into the slot the scan ended at, whether *)
(* the slot is free or not.                                                *)
PutKMesg(kq, m) ==
    LET k == ScanEnd(kq)
        i == At(kq, k)
    IN  [kq EXCEPT !.ent = [@ EXCEPT ![i] = m],
                   !.wEnd = IF ReachesEnd(kq, k) THEN (i + 1) % MAX_KMESG ELSE @,
                   !.wTotalMesg = @ + 1]

(* kwait_kmesg frees the slot; wStart moves on by one slot. *)
TakeKMesg(kq, i) ==
    [kq EXCEPT !.ent = [@ EXCEPT ![i] = NoMesg],
               !.wStart = IF i = @ THEN (@ + 1) % MAX_KMESG ELSE @,
               !.wTotalMesg = @ - 1]

=============================================================================
