----------------------- MODULE PendingApprovalJournal -----------------------
(***************************************************************************)
(* The pending-approval journal of packages/retain-control: the states of  *)
(* an entry and the steps assertJournalTransition lets an update take.     *)
(***************************************************************************)

JournalStates ==
  {"pending_accept", "accepted", "retained", "post_checked", "blocked",
   "reconciliation_required"}

JournalSuccessors ==
  [pending_accept          |-> {"accepted", "blocked", "reconciliation_required"},
   accepted                |-> {"retained", "blocked", "reconciliation_required"},
   retained                |-> {"post_checked", "reconciliation_required"},
   post_checked            |-> {"reconciliation_required"},
   blocked                 |-> {"reconciliation_required"},
   reconciliation_required |-> {}]

\* update may keep the state (new reasons, new timestamp) or move it on.
LegalUpdate(from, to) == to = from \/ to \in JournalSuccessors[from]

\* The states in which nobody has established what became of the change: a
\* new adapter session that finds one of them must not go on.
UnresolvedStates ==
  {"pending_accept", "accepted", "retained", "reconciliation_required"}
=============================================================================
