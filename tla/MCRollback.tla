----------------------------- MODULE MCRollback -----------------------------
(* One update target, one created target and one other path.               *)
EXTENDS Rollback, TLC

\* Processes are interchangeable, and so are permits.
RollbackSymmetry == Permutations(Processes) \cup Permutations(Permits)
=============================================================================
