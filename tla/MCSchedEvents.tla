---------------------------- MODULE MCSchedEvents ----------------------------
(* TLC instances of SchedEvents.  Boot is t1; the others differ by their   *)
(* name only.                                                              *)
EXTENDS SchedEvents, TLC

CONSTANTS t1, t2, t3

Symmetry == Permutations({t2, t3})

=============================================================================
