----------------------------- MODULE MCFileLock -----------------------------
EXTENDS FileLock, TLC

ProcSymmetry == Permutations(Procs)
=============================================================================
