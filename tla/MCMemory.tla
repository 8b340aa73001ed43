------------------------------- MODULE MCMemory -------------------------------
(* TLC instances of AddrSpace, whose processes differ by their name only,  *)
(* and of MemPool, with three size classes.  The pool is any, not that of  *)
(* one of the processes: one component moves, the other is at rest.        *)
EXTENDS AddrSpace, MemPool, TLC

Symmetry == Permutations(Procs)

MCBounds == <<4, 8>>

VARIABLE moves

MemoryInit == Init /\ PoolInit /\ moves \in {"AddrSpace", "MemPool"}

MemoryNext ==
    \/ moves = "AddrSpace" /\ Next /\ UNCHANGED <<poolVars, moves>>
    \/ moves = "MemPool" /\ PoolNext /\ UNCHANGED <<vars, moves>>

MemorySpec == MemoryInit /\ [][MemoryNext]_<<vars, poolVars, moves>>

=============================================================================
