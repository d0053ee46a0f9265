---------------------------- MODULE MCMuxService ----------------------------
(***************************************************************************)
(* MuxService with a bound on what users, the terminal daemon and the      *)
(* session service do: every such step spends one unit of a budget.  The   *)
(* steps of the service itself are not bounded.                            *)
(***************************************************************************)
EXTENDS MuxService

CONSTANT Budget

VARIABLE budget

MCInit == MuxInit /\ budget = Budget

MCNext ==
  \/ Environment /\ budget > 0 /\ budget' = budget - 1
  \/ System /\ UNCHANGED budget

MCSpec == MCInit /\ [][MCNext]_<<muxVars, budget>> /\ MuxFairness
=============================================================================
