-------------------------- MODULE MCOperatorAction --------------------------
(* Two hosts share a store; two actions of a task, one in lockdown.         *)
EXTENDS OperatorAction

CONSTANTS a1, a2, t1

OneTask == [a \in Actions |-> t1]

Symmetry == Permutations(Calls) \cup Permutations(Processes)

\* Bound: one thing out of the ordinary, which is an access or sink that
\* fails, a crash, a receipt with the decision to defer, or a client that has
\* no receipt store.
OneOddity ==
  LET deferred == {c \in Calls : call[c].decision = "deferred"}
  IN faults + crashes + Cardinality(deferred) + Cardinality(storeless) <= 1
=============================================================================
