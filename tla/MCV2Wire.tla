------------------------------ MODULE MCV2Wire ------------------------------
EXTENDS V2Wire, TLC

CONSTANTS h1, h2, t1, t2, i1, i2, n1, s1, n2

\* Two turns of one thread, an item in each; the other thread has no turn.
TurnThread == t1 :> h1 @@ t2 :> h1
ItemTurn == [i \in Items |-> IF i = i1 THEN t1 ELSE t2]

\* A number and the string of the same digits, and another number.
Canonical == [w \in WireIds |-> IF w = n2 THEN 2 ELSE 1]

\* A request may advertise the session-wide accept and no plain one.
SomeOffers == {{"acceptForSession", "decline", "cancel"}}

\* A profile with a read-only place, and one with a denied place.
SomeProfiles == {{"write", "read_below"}, {"write", "deny_below"}}

\* Contents, their wire forms and their hashes are only compared, as are the
\* two spellings of one id.
WireSymmetry ==
  Permutations(Contents) \cup Permutations(RawForms) \cup Permutations(Hashes) \cup Permutations(Heads)
    \cup Permutations({n1, s1})
=============================================================================
