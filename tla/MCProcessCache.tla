--------------------------- MODULE MCProcessCache ---------------------------
(* ProcessCache on small instances.                                        *)
EXTENDS ProcessCache, TLC

Symmetry == Permutations(Callbacks)

\* For instances where no process runs yet when the driver starts.
SymmetryAll == Symmetry \cup Permutations(Pids)
=============================================================================
