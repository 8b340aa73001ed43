-------------------------------- MODULE MCSync --------------------------------
(* TLC instances of KSem, with two processes of which one has two threads, *)
(* and of CritSect.  They share nothing: one moves, the other is at rest.  *)
EXTENDS KSem, CritSect

CONSTANTS a1, a2, b1, pa, pb

MCProcOf == (a1 :> pa) @@ (a2 :> pa) @@ (b1 :> pb)
MCInitValues == {-1, 0, 1}
MCMinValue == -2

VARIABLE moves

SyncInit == Init /\ SectInit /\ moves \in {"KSem", "CritSect"}

SyncNext ==
    \/ moves = "KSem" /\ Next /\ UNCHANGED <<sectVars, moves>>
    \/ moves = "CritSect" /\ SectNext /\ UNCHANGED <<vars, moves>>

SyncSpec == SyncInit /\ [][SyncNext]_<<vars, sectVars, moves>> /\ SectFairness

=============================================================================
