------------------------------ MODULE MCProcLife ------------------------------
(* ProcLife small enough for liveness: two threads of one or two           *)
(* processes, or three of one.                                             *)
EXTENDS ProcLife

(* Bound: there is no second process beside a third thread. *)
MCNext == Next /\ (proc'[3] = "none" \/ pc'[3] = "none")

MCFairSpec == Init /\ [][MCNext]_vars /\ SF_vars(SniperStep) /\ WF_vars(GoesOn)

=============================================================================
