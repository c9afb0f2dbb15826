-------------------------- MODULE MCAgentOsRuntime --------------------------
\* Two runtimes, one run that both work on and its permits.
EXTENDS AgentOsRuntime, TLC

CONSTANTS p1, p2, k1, k2, s1, r1

Symmetry == Permutations(Runtimes) \cup Permutations(Permits)

=============================================================================
