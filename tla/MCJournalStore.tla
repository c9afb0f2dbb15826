--------------------------- MODULE MCJournalStore ---------------------------
(* Two processes, and two entries whose renames share one directory fsync.  *)
EXTENDS JournalStore, TLC

\* Processes are interchangeable, and so are entries.
JournalSymmetry == Permutations(Processes) \cup Permutations(Entries)
=============================================================================
