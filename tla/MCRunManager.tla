---------------------------- MODULE MCRunManager ----------------------------
EXTENDS RunManager, TLC

CONSTANTS r1, s1, s2

\* s2 needs s1, in the same run.
OneRun == [s \in StepIds |-> r1]
Chain  == [s \in StepIds |-> IF s = s2 THEN {s1} ELSE {}]
=============================================================================
