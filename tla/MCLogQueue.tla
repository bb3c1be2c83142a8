----------------------------- MODULE MCLogQueue -----------------------------
(* LogQueue on a small instance: two callback threads and the agent.       *)
EXTENDS LogQueue, TLC

Symmetry == Permutations(Threads)
=============================================================================
