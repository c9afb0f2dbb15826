-------------------------- MODULE AppServerAdapter --------------------------
(***************************************************************************)
(* CodexAppServerAdapter (packages/codex-adapter): the governor between    *)
(* Codex App Server and the operator.  It follows the events of a session, *)
(* answers each approval request with accept or decline, and keeps a       *)
(* journal entry on disk for every file change it accepts.                 *)
(*                                                                         *)
(* serialize() runs one ingest or resolveHumanApproval at a time, so the   *)
(* hard cases are inside one call: every await is a point where the        *)
(* process may crash, and every journal write and every send may fail      *)
(* before or after it took effect.  op is the program counter of the call  *)
(* in progress; one action is the code between two awaits.  A crash loses  *)
(* everything but the journal and what the App Server has received, and a  *)
(* new session starts.                                                     *)
(*                                                                         *)
(* What an approval request proposes is one of a set of proposals, on      *)
(* which the authorization kernel decides; what the canonical form and the *)
(* checks of the workspace say is an input of the handler that asks.       *)
(***************************************************************************)
EXTENDS Naturals, Sequences, PendingApprovalJournal, Authorization

CONSTANTS
  Items,         \* file-change items, each with its thread and turn (itemKey)
  Requests,      \* approval request ids
  Turns,         \* (thread, turn) pairs
  TurnOf,        \* the turn of each item
  NoItem,        \* no item
  NoRequest,     \* no request
  Proposals,     \* what a file-change request may propose
  CapabilityCeiling, \* the session's ceiling
  MaxEvents,     \* bound on the events of a turn taken in sequence
  MaxVersion,    \* bound on item_updated
  MaxSessions    \* bound on adapter sessions

ASSUME AdapterAssumption ==
  /\ TurnOf \in [Items -> Turns]
  /\ NoItem \notin Items /\ NoRequest \notin Requests
  /\ \A p \in Proposals : p.text \subseteq TextMarkers /\ p.changes \subseteq Changes
  /\ CapabilityCeiling \subseteq Scopes
  /\ MaxEvents \in Nat /\ MaxVersion \in Nat /\ MaxSessions \in Nat \ {0}

VARIABLES
  session,       \* number of the adapter session
  enforced,      \* the session's mode: authorization_enforced, or observe_only
  quarantined,   \* sessionCompromisedReason # undefined
  turn,          \* turns: sequence, blocked, items completed
  item,          \* items; state "absent" until item_started
  approval,      \* approvals; kind "absent" until approval_requested
  owned,         \* ownedJournalIds (by request)
  failures,      \* journalReconciliationFailures (by item)
  op,            \* the call in progress
  journal,       \* on disk: state of the entry journal_<request>, or "none"
  journalled,    \* on disk: version of the change set in the entry
  answers,       \* the responses the App Server received in this session
  accepted,      \* history: file changes that enforced sessions had accepted
  unapplied,     \* history: requests whose item was reported not_applied
  asked,         \* history: version of the change set when the request came
  disturbed      \* history: turns of this session in which something went wrong

setup  == <<session, enforced>>
memory == <<quarantined, turn, item, approval, owned, failures>>
disk   == <<journal, journalled>>
ghosts == <<answers, accepted, unapplied, asked, disturbed>>
vars   == <<setup, memory, op, disk, ghosts>>

ItemStates ==
  {"absent", "proposed", "awaiting_approval", "auto_approved", "accepted_by_app_server",
   "retained", "post_checked", "blocked", "reconciliation_required"}

\* transitionItem; the states policy_checked, previewing and preview_passed,
\* which one call enters and leaves, are passed through.
ItemSuccessors ==
  [proposed                |-> {"awaiting_approval", "auto_approved", "blocked",
                                "reconciliation_required"},
   awaiting_approval       |-> {"accepted_by_app_server", "blocked", "reconciliation_required"},
   auto_approved           |-> {"accepted_by_app_server", "blocked", "reconciliation_required"},
   accepted_by_app_server  |-> {"retained", "blocked", "reconciliation_required"},
   retained                |-> {"post_checked", "reconciliation_required"},
   post_checked            |-> {"reconciliation_required"},
   blocked                 |-> {"reconciliation_required"},
   reconciliation_required |-> {}]

LegalItemStep(from, to) == to = from \/ to \in ItemSuccessors[from]

Phases ==
  {"idle", "retry", "list", "ready", "mark", "decline", "put", "preflight", "block",
   "accept", "record", "verify", "retain", "post", "unapply"}

NewTurn     == [lastSequence |-> 0, blocked |-> FALSE, completed |-> {}]
NoSuchItem  == [state |-> "absent", request |-> NoRequest, journaled |-> FALSE, version |-> 0]
NoApproval  == [kind |-> "absent", item |-> NoItem, resolved |-> FALSE,
                delivery |-> "pending", sent |-> "none"]
Idle        == [phase |-> "idle", i |-> NoItem, q |-> NoRequest, marks |-> {}, next |-> "idle"]

TypeOK ==
  /\ session \in 1..MaxSessions
  /\ enforced \in BOOLEAN /\ quarantined \in BOOLEAN
  /\ turn \in [Turns -> [lastSequence : 0..MaxEvents, blocked : BOOLEAN,
                         completed : SUBSET Items]]
  /\ item \in [Items -> [state : ItemStates, request : Requests \cup {NoRequest},
                         journaled : BOOLEAN, version : 0..MaxVersion]]
  /\ approval \in [Requests -> [kind : {"absent", "file_change", "other"},
                                item : Items \cup {NoItem}, resolved : BOOLEAN,
                                delivery : {"pending", "sent", "uncertain"},
                                sent : {"none", "accept", "decline"}]]
  /\ owned \in SUBSET Requests
  /\ failures \in SUBSET Items
  /\ op \in [phase : Phases, i : Items \cup {NoItem}, q : Requests \cup {NoRequest},
             marks : SUBSET Items, next : {"idle", "decline"}]
  /\ journal \in [Requests -> JournalStates \cup {"none"}]
  /\ journalled \in [Requests -> 0..MaxVersion]
  /\ answers \in [Requests -> Seq({"accept", "decline"})]
  /\ accepted \in SUBSET Requests
  /\ unapplied \in SUBSET Requests
  /\ asked \in [Requests -> 0..MaxVersion]
  /\ disturbed \in SUBSET Turns

Init ==
  /\ session = 1
  /\ enforced \in BOOLEAN
  /\ quarantined = FALSE
  /\ turn = [t \in Turns |-> NewTurn]
  /\ item = [i \in Items |-> NoSuchItem]
  /\ approval = [q \in Requests |-> NoApproval]
  /\ owned = {}
  /\ failures = {}
  /\ op = Idle
  /\ journal = [q \in Requests |-> "none"]
  /\ journalled = [q \in Requests |-> 0]
  /\ answers = [q \in Requests |-> <<>>]
  /\ accepted = {}
  /\ unapplied = {}
  /\ asked = [q \in Requests |-> 0]
  /\ disturbed = {}

-----------------------------------------------------------------------------
(* Steps of the call in progress                                           *)

At(phase) == op.phase = phase
Continue(phase) == op' = [op EXCEPT !.phase = phase]
Return == op' = Idle

\* A call goes on with markItemReconciliation for every item of is, one
\* await each, and then at next.
MarkThen(is, next, i, q) ==
  op' = [phase |-> "mark", i |-> i, q |-> q, marks |-> is, next |-> next]

\* The items of a turn that markTurnForReconciliation goes through.
ItemsOf(t) == {i \in Items : TurnOf[i] = t /\ item[i].state # "absent"}

\* The items that markAllOpenForReconciliation goes through.
OpenItems ==
  {i \in Items : item[i].state \notin
     {"absent", "post_checked", "blocked", "reconciliation_required"}}

\* quarantineSession, up to its first await.
Quarantine ==
  /\ quarantined' = TRUE
  /\ turn' = [t \in Turns |-> [turn[t] EXCEPT !.blocked = TRUE]]
  /\ MarkThen(OpenItems, "idle", NoItem, NoRequest)
  /\ disturbed' = Turns

\* updateJournalState of item i: nothing to do without an entry; otherwise
\* the write takes effect or not, and the caller is told it did or is told it
\* failed.  A write that took effect and reported an error counts as done
\* when the entry can be read back, so "done" is told only of a write that
\* took effect.  An illegal transition throws before anything is written.
UpdateJournalState(i, to, done) ==
  LET q == item[i].request
  IN  IF ~item[i].journaled
      THEN done /\ UNCHANGED journal
      ELSE \/ /\ LegalUpdate(journal[q], to)
              /\ journal' = [journal EXCEPT ![q] = to]
           \/ ~done /\ UNCHANGED journal

\* The App Server gets the response to q.
Receives(q, decision) ==
  /\ answers' = [answers EXCEPT ![q] = Append(@, decision)]
  /\ accepted' = IF decision = "accept" /\ approval[q].kind = "file_change" /\ enforced
                 THEN accepted \cup {q} ELSE accepted

\* sendDecision refuses an answered or resolved request, and an accept in a
\* blocked turn or a quarantined session.  It never has to (SendIsAvailable),
\* so what the callers do with a refusal is not modelled.
Sendable(q, decision) ==
  /\ approval[q].delivery = "pending"
  /\ ~approval[q].resolved
  /\ decision = "accept" =>
       /\ ~quarantined
       /\ ~turn[TurnOf[approval[q].item]].blocked

-----------------------------------------------------------------------------
(* ensureJournalContinuity, the first thing every call does                *)

Begin ==
  /\ At("idle")
  /\ op' = [Idle EXCEPT !.phase = "retry", !.marks = failures]
  /\ UNCHANGED <<setup, memory, disk, ghosts>>

\* Mutant: a failed reconciliation is retried once and then forgotten.
RetryReconciliationMutant(i, done) ==
  /\ At("retry") /\ i \in op.marks
  /\ UpdateJournalState(i, "reconciliation_required", done)
  /\ failures' = failures \ {i}
  /\ op' = [op EXCEPT !.marks = @ \ {i}]
  /\ UNCHANGED <<setup, quarantined, turn, item, approval, owned, journalled, ghosts>>

\* retryJournalReconciliationFailures
RetryReconciliation(i, done) ==
  /\ At("retry") /\ i \in op.marks
  /\ UpdateJournalState(i, "reconciliation_required", done)
  /\ failures' = IF done THEN failures \ {i} ELSE failures
  /\ op' = [op EXCEPT !.marks = @ \ {i}]
  /\ UNCHANGED <<setup, quarantined, turn, item, approval, owned, journalled, ghosts>>

RetryDone ==
  /\ At("retry") /\ op.marks = {}
  /\ Continue("list")
  /\ UNCHANGED <<setup, memory, disk, ghosts>>

\* Mutant: an entry whose accept was recorded does not stop a new session.
UnownedMutant == {q \in Requests \ owned : journal[q] \in {"pending_accept", "retained"}}

\* Entries of another session, or of a put that reported an error.
Unowned == {q \in Requests \ owned : journal[q] \in UnresolvedStates}

\* A quarantined session refuses the call; the entries of the journal cannot
\* be listed, or one of them is unresolved and not ours: quarantine.
ListJournal(readable) ==
  /\ At("list")
  /\ \/ quarantined /\ Return /\ UNCHANGED <<quarantined, turn, disturbed>>
     \/ ~quarantined /\ (~readable \/ Unowned # {}) /\ Quarantine
     \/ /\ ~quarantined /\ readable /\ Unowned = {}
        /\ Continue("ready") /\ UNCHANGED <<quarantined, turn, disturbed>>
  /\ UNCHANGED <<setup, item, approval, owned, failures, disk, answers, accepted, unapplied, asked>>

-----------------------------------------------------------------------------
(* ingest: one event                                                       *)

\* Schema drift, profile mismatch, a replayed event id, or the transport
\* reports a disconnect.
QuarantineEvent ==
  /\ At("ready")
  /\ Quarantine
  /\ UNCHANGED <<setup, item, approval, owned, failures, disk, answers, accepted, unapplied, asked>>

\* acceptSequence refuses the event: its turn is blocked, or it is not the
\* next one.
OutOfSequence(t) ==
  /\ At("ready")
  /\ turn' = [turn EXCEPT ![t].blocked = TRUE]
  /\ disturbed' = disturbed \cup {t}
  /\ MarkThen(ItemsOf(t), "idle", NoItem, NoRequest)
  /\ UNCHANGED <<setup, quarantined, item, approval, owned, failures, disk,
                 answers, accepted, unapplied, asked>>

\* The event of item i is next in its turn, which goes on.
InSequence(i) ==
  /\ At("ready")
  /\ ~turn[TurnOf[i]].blocked
  /\ turn[TurnOf[i]].lastSequence < MaxEvents

TakeEvent(i) ==
  /\ turn' = [turn EXCEPT ![TurnOf[i]].lastSequence = @ + 1]
  /\ UNCHANGED disturbed

\* markTurnForReconciliation in the handler of an event of item i; completed
\* are the items of the turn whose completion has been seen.
RefuseEventWith(i, completed, next, q) ==
  /\ turn' = [turn EXCEPT ![TurnOf[i]] = [lastSequence |-> @.lastSequence + 1,
                                          blocked |-> TRUE, completed |-> completed]]
  /\ disturbed' = disturbed \cup {TurnOf[i]}
  /\ MarkThen(ItemsOf(TurnOf[i]), next, NoItem, q)

RefuseEvent(i) == RefuseEventWith(i, turn[TurnOf[i]].completed, "idle", NoRequest)

\* canonical: the change set has a canonical form.
ItemStarted(i, canonical) ==
  /\ InSequence(i)
  /\ \/ /\ item[i].state = "absent" /\ canonical
        /\ item' = [item EXCEPT ![i].state = "proposed"]
        /\ TakeEvent(i) /\ Return
     \/ /\ item[i].state # "absent" \/ ~canonical
        /\ RefuseEvent(i) /\ UNCHANGED item
  /\ UNCHANGED <<setup, quarantined, approval, owned, failures, disk,
                 answers, accepted, unapplied, asked>>

\* Mutant: an item may be updated as long as it is not accepted.
UpdatableMutant(i) == item[i].state \in {"proposed", "awaiting_approval"}

Updatable(i) == item[i].state = "proposed" /\ item[i].request = NoRequest

\* canonical: moreover base head and proposal time are those of the item.
ItemUpdated(i, canonical) ==
  /\ InSequence(i)
  /\ \/ /\ Updatable(i) /\ canonical
        /\ item[i].version < MaxVersion
        /\ item' = [item EXCEPT ![i].version = @ + 1]
        /\ TakeEvent(i) /\ Return
     \/ /\ ~Updatable(i) \/ ~canonical
        /\ RefuseEvent(i) /\ UNCHANGED item
  /\ UNCHANGED <<setup, quarantined, approval, owned, failures, disk,
                 answers, accepted, unapplied, asked>>

\* A file-change request must name an open item that has no request yet.
Correlates(i) ==
  /\ item[i].state # "absent"
  /\ item[i].request = NoRequest
  /\ i \notin turn[TurnOf[i]].completed

\* The scopes requested for a change set: to write each path it names.
RequestedFor(changes) ==
  {[kind |-> "file", access |-> "write", family |-> "none", resource |-> Exactly(c.path),
    canonical |-> NoScope] : c \in changes}

Destructive(changes) == \E c \in changes : c.kind \in {"delete", "rename"}

\* The verdict on a proposal in an enforced session: declined, left to the
\* operator, or approved by policy after a passed preview.
FileChangeVerdict(p) ==
  LET decision == Disposition(deriveCapabilityFacts(p.changes, p.context),
                              classifySemanticRiskSignal(p.text),
                              RequestedFor(p.changes), CapabilityCeiling)
  IN  CASE Destructive(p.changes) \/ ~p.hashed \/ decision = "blocked" -> "decline"
        [] OTHER -> IF p.grantRoot \/ decision # "policy_auto" THEN "manual"
                    ELSE CASE p.preview = "crashed" -> "decline"
                           [] p.preview = "failed"  -> "manual"
                           [] p.preview = "passed"  -> "auto"

EnforcedVerdicts == {FileChangeVerdict(p) : p \in Proposals}

\* A proposal is also declined if the workspace cannot be looked at.  An
\* observe-only session asks nobody and approves nothing by policy.
Verdicts == {"decline"} \cup (IF enforced THEN EnforcedVerdicts ELSE {"manual"})

NewApproval(q, i, kind) == [NoApproval EXCEPT !.kind = kind, !.item = i]

\* An item that is not "proposed" any more (the operator declined another
\* request that named it) cannot take the steps of a file-change approval:
\* transitionItem throws and the call rejects, with the request noted.
ApprovalRequested(q, i, kind, verdict) ==
  /\ InSequence(i)
  /\ approval[q].kind = "absent"
  /\ approval' = [approval EXCEPT ![q] = NewApproval(q, i, kind)]
  /\ \/ kind = "other" /\ TakeEvent(i) /\ Return /\ UNCHANGED item
     \/ /\ kind = "file_change" /\ ~Correlates(i)
        /\ RefuseEventWith(i, turn[TurnOf[i]].completed, "decline", q)
        /\ UNCHANGED item
     \/ /\ kind = "file_change" /\ Correlates(i) /\ TakeEvent(i)
        /\ \/ /\ verdict = "decline"
              /\ item' = [item EXCEPT ![i].request = q]
              /\ op' = [Idle EXCEPT !.phase = "decline", !.i = i, !.q = q]
           \/ /\ verdict # "decline" /\ item[i].state # "proposed"
              /\ item' = [item EXCEPT ![i].request = q]
              /\ Return
           \/ /\ verdict = "manual" /\ item[i].state = "proposed"
              /\ item' = [item EXCEPT ![i].request = q, ![i].state = "awaiting_approval"]
              /\ Return
           \/ /\ verdict = "auto" /\ item[i].state = "proposed"
              /\ item' = [item EXCEPT ![i].request = q, ![i].state = "auto_approved"]
              /\ op' = [Idle EXCEPT !.phase = "put", !.i = i, !.q = q]
  /\ asked' = [asked EXCEPT ![q] = item[i].version]
  /\ UNCHANGED <<setup, quarantined, owned, failures, disk, answers, accepted, unapplied>>

\* A request id the session has seen before.  The sequence number is taken
\* first, which no later call of a quarantined session looks at.
DuplicateRequest(q, i) ==
  /\ InSequence(i)
  /\ approval[q].kind # "absent"
  /\ Quarantine
  /\ UNCHANGED <<setup, item, approval, owned, failures, disk, answers, accepted, unapplied, asked>>

\* The App Server confirms the answer it was sent; anything else, a
\* cancellation included, closes the request and blocks the turn.
RequestResolved(q, i, resolution) ==
  LET correlates == approval[q].kind # "absent" /\ approval[q].item = i
      confirms   == /\ correlates /\ ~approval[q].resolved
                    /\ approval[q].delivery = "sent" /\ resolution = approval[q].sent
  IN  /\ InSequence(i)
      /\ approval' = [approval EXCEPT ![q].resolved = @ \/ correlates]
      /\ \/ confirms /\ TakeEvent(i) /\ Return
         \/ ~confirms /\ RefuseEvent(i)
      /\ UNCHANGED <<setup, quarantined, item, owned, failures, disk,
                     answers, accepted, unapplied, asked>>

FirstCompletion(i) == i \notin turn[TurnOf[i]].completed

Governed(i) == item[i].state = "accepted_by_app_server" /\ item[i].journaled

\* The App Server reports what became of the change of item i.
ItemCompleted(i, outcome) ==
  LET t         == TurnOf[i]
      completed == turn[t].completed \cup {i}
      go(phase) == op' = [Idle EXCEPT !.phase = phase, !.i = i, !.q = item[i].request]
      take      == /\ turn' = [turn EXCEPT ![t].lastSequence = @ + 1, ![t].completed = completed]
                   /\ UNCHANGED disturbed
  IN  /\ InSequence(i)
      /\ \/ /\ ~FirstCompletion(i) \/ item[i].state = "absent"
            /\ RefuseEventWith(i, completed, "idle", NoRequest)
         \/ /\ FirstCompletion(i) /\ item[i].state # "absent" /\ take
            /\ \/ outcome = "not_applied" /\ go("unapply")
               \/ outcome = "unknown" /\ MarkThen({i}, "idle", NoItem, NoRequest)
               \/ outcome = "applied" /\ ~enforced /\ Return
               \/ /\ outcome = "applied" /\ enforced /\ Governed(i)
                  /\ go("verify")
               \/ /\ outcome = "applied" /\ enforced /\ ~Governed(i)
                  /\ MarkThen({i}, "idle", NoItem, NoRequest)
      /\ unapplied' = IF outcome = "not_applied" /\ item[i].request # NoRequest
                      THEN unapplied \cup {item[i].request} ELSE unapplied
      /\ UNCHANGED <<setup, quarantined, item, approval, owned, failures, disk,
                     answers, accepted, asked>>

-----------------------------------------------------------------------------
(* resolveHumanApproval                                                    *)

\* Mutant: a blocked turn is not looked at.
HumanAvailableInBlockedTurnMutant(q) ==
  /\ approval[q].kind # "absent"
  /\ approval[q].delivery = "pending" /\ ~approval[q].resolved
  /\ approval[q].kind = "file_change" =>
       item[approval[q].item].state \in {"absent", "awaiting_approval"}

HumanAvailable(q) ==
  /\ approval[q].kind # "absent"
  /\ approval[q].delivery = "pending" /\ ~approval[q].resolved
  /\ ~turn[TurnOf[approval[q].item]].blocked
  /\ approval[q].kind = "file_change" =>
       item[approval[q].item].state \in {"absent", "awaiting_approval"}

\* The request is not available, or the operator's command decision or
\* permission grant does not fit it.
HumanRefused ==
  /\ At("ready")
  /\ Return
  /\ UNCHANGED <<setup, memory, disk, ghosts>>

\* An item that waits for the operator in an enforced session passed
\* authorization, so the branches for a missing or blocked authorization are
\* never taken; an observe-only session accepts without a journal entry.
HumanDecision(q, decision) ==
  LET i     == approval[q].item
      known == item[i].state # "absent"
      file  == approval[q].kind = "file_change"
  IN  /\ At("ready")
      /\ HumanAvailable(q)
      /\ op' = [Idle EXCEPT
                  !.phase = IF decision = "decline" \/ (file /\ ~known) THEN "decline"
                            ELSE IF file /\ enforced THEN "put" ELSE "accept",
                  !.i     = IF known /\ (decision = "decline" \/ file) THEN i ELSE NoItem,
                  !.q     = q]
      /\ UNCHANGED <<setup, memory, disk, ghosts>>

-----------------------------------------------------------------------------
(* persistAndAccept and what the handlers end in                           *)

\* Mutant: the accept is sent before the entry is written.
PutAfterSendMutant(done) ==
  /\ At("put")
  /\ Continue("accept")
  /\ UNCHANGED <<setup, memory, disk, ghosts>>

\* journalStore.put: a duplicate is refused; the write may fail, and may
\* report an error although the entry is there.  Only a put that returned
\* makes the entry ours.
Put(done) ==
  /\ At("put")
  /\ \/ /\ journal[op.q] = "none"
        /\ journal' = [journal EXCEPT ![op.q] = "pending_accept"]
        /\ journalled' = [journalled EXCEPT ![op.q] = item[op.i].version]
     \/ ~done /\ UNCHANGED disk
  /\ IF done THEN /\ owned' = owned \cup {op.q}
                  /\ item' = [item EXCEPT ![op.i].journaled = TRUE]
                  /\ Continue("preflight")
             ELSE Continue("decline") /\ UNCHANGED <<owned, item>>
  /\ UNCHANGED <<setup, quarantined, turn, approval, failures, ghosts>>

\* revalidateBaseCheckout... and revalidateSourceTargetsBeforeAcceptance
Preflight(passed) ==
  /\ At("preflight")
  /\ Continue(IF passed THEN "accept" ELSE "block")
  /\ UNCHANGED <<setup, memory, disk, ghosts>>

BlockJournal(done) ==
  /\ At("block")
  /\ UpdateJournalState(op.i, "blocked", done)
  /\ IF done THEN Continue("decline") ELSE MarkThen({op.i}, "idle", NoItem, NoRequest)
  /\ UNCHANGED <<setup, memory, journalled, ghosts>>

Delivered(delivery, sent) ==
  approval' = [approval EXCEPT ![op.q].delivery = delivery, ![op.q].sent = sent]

\* The response is sent: an accepted change is recorded, a declined one is
\* blocked unless its item's state does not allow that (the call rejects).
SendReturns(decision) ==
  /\ At(decision) /\ Sendable(op.q, decision)
  /\ Receives(op.q, decision)
  /\ Delivered("sent", decision)
  /\ IF decision = "accept" /\ op.i # NoItem /\ enforced THEN Continue("record") ELSE Return
  /\ item' = IF decision = "decline" /\ op.i # NoItem /\ LegalItemStep(item[op.i].state, "blocked")
             THEN [item EXCEPT ![op.i].state = "blocked"] ELSE item
  /\ UNCHANGED <<setup, quarantined, turn, owned, failures, disk, unapplied, asked, disturbed>>

\* transport.send rejects, whether or not the response arrived: nobody will
\* send another one.  The callers mark the item once more, which adds nothing
\* to what the marking of its turn can lead to.
SendThrows(decision, arrived) ==
  LET t == TurnOf[approval[op.q].item]
  IN  /\ At(decision) /\ Sendable(op.q, decision)
      /\ IF arrived THEN Receives(op.q, decision) ELSE UNCHANGED <<answers, accepted>>
      /\ Delivered("uncertain", "none")
      /\ turn' = [turn EXCEPT ![t].blocked = TRUE]
      /\ disturbed' = disturbed \cup {t}
      /\ MarkThen(ItemsOf(t), "idle", NoItem, NoRequest)
      /\ UNCHANGED <<setup, quarantined, item, owned, failures, disk, unapplied, asked>>

\* Mutant: the item moves on although the journal update failed.
AdvanceMutant(phase, to, state, next, done) ==
  /\ At(phase)
  /\ UpdateJournalState(op.i, to, done)
  /\ item' = [item EXCEPT ![op.i].state = state]
  /\ IF next = "idle" THEN Return ELSE Continue(next)
  /\ UNCHANGED <<setup, quarantined, turn, approval, owned, failures, journalled, ghosts>>

\* A journal update that moves the item on when it is done, and marks it for
\* reconciliation when it failed or the item may not take the step.
Advance(phase, to, state, next, done) ==
  /\ At(phase)
  /\ UpdateJournalState(op.i, to, done)
  /\ IF done /\ LegalItemStep(item[op.i].state, state)
     THEN /\ item' = [item EXCEPT ![op.i].state = state]
          /\ IF next = "idle" THEN Return ELSE Continue(next)
     ELSE MarkThen({op.i}, "idle", NoItem, NoRequest) /\ UNCHANGED item
  /\ UNCHANGED <<setup, quarantined, turn, approval, owned, failures, journalled, ghosts>>

RecordAccepted(done) == Advance("record", "accepted", "accepted_by_app_server", "idle", done)
RecordRetained(done) == Advance("retain", "retained", "retained", "post", done)
RecordChecked(done)  == Advance("post", "post_checked", "post_checked", "idle", done)
RecordUnapplied(done) == Advance("unapply", "blocked", "blocked", "idle", done)

\* verifyRetainedChange
VerifyRetained(passed) ==
  /\ At("verify")
  /\ IF passed THEN Continue("retain") ELSE MarkThen({op.i}, "idle", NoItem, NoRequest)
  /\ UNCHANGED <<setup, memory, disk, ghosts>>

\* markItemReconciliation
MarkReconciliation(i, done) ==
  /\ At("mark") /\ i \in op.marks
  /\ UpdateJournalState(i, "reconciliation_required", done)
  /\ item' = [item EXCEPT ![i].state = "reconciliation_required"]
  /\ failures' = IF done THEN failures \ {i} ELSE failures \cup {i}
  /\ op' = [op EXCEPT !.marks = @ \ {i}]
  /\ UNCHANGED <<setup, quarantined, turn, approval, owned, journalled, ghosts>>

MarkDone ==
  /\ At("mark") /\ op.marks = {}
  /\ IF op.next = "idle" THEN Return ELSE Continue(op.next)
  /\ UNCHANGED <<setup, memory, disk, ghosts>>

-----------------------------------------------------------------------------

\* The process dies at an await and a new adapter starts on the same journal.
Crash ==
  /\ session < MaxSessions
  /\ session' = session + 1
  /\ enforced' \in BOOLEAN
  /\ quarantined' = FALSE
  /\ turn' = [t \in Turns |-> NewTurn]
  /\ item' = [i \in Items |-> NoSuchItem]
  /\ approval' = [q \in Requests |-> NoApproval]
  /\ owned' = {}
  /\ failures' = {}
  /\ op' = Idle
  /\ answers' = [q \in Requests |-> <<>>]
  /\ disturbed' = {}
  /\ UNCHANGED <<disk, accepted, unapplied, asked>>

Continuity ==
  \/ Begin
  \/ \E i \in Items, done \in BOOLEAN : RetryReconciliation(i, done)
  \/ RetryDone
  \/ \E readable \in BOOLEAN : ListJournal(readable)

Ingest ==
  \/ QuarantineEvent
  \/ \E t \in Turns : OutOfSequence(t)
  \/ \E i \in Items, canonical \in BOOLEAN : ItemStarted(i, canonical) \/ ItemUpdated(i, canonical)
  \/ \E q \in Requests, i \in Items, verdict \in Verdicts, kind \in {"file_change", "other"} :
       ApprovalRequested(q, i, kind, verdict)
  \/ \E q \in Requests, i \in Items : DuplicateRequest(q, i)
  \/ \E q \in Requests, i \in Items, resolution \in {"accept", "decline", "cancelled"} :
       RequestResolved(q, i, resolution)
  \/ \E i \in Items, outcome \in {"applied", "not_applied", "unknown"} :
       ItemCompleted(i, outcome)

Human ==
  \/ HumanRefused
  \/ \E q \in Requests, decision \in {"accept", "decline"} : HumanDecision(q, decision)

Finish ==
  \/ \E done \in BOOLEAN : \/ Put(done) \/ BlockJournal(done)
                           \/ RecordAccepted(done) \/ RecordRetained(done)
                           \/ RecordChecked(done) \/ RecordUnapplied(done)
  \/ \E passed \in BOOLEAN : Preflight(passed) \/ VerifyRetained(passed)
  \/ \E decision \in {"accept", "decline"} :
       SendReturns(decision) \/ \E arrived \in BOOLEAN : SendThrows(decision, arrived)
  \/ \E i \in Items, done \in BOOLEAN : MarkReconciliation(i, done)
  \/ MarkDone

Next == Continuity \/ Ingest \/ Human \/ Finish \/ Crash

Spec == Init /\ [][Next]_vars

\* Calls keep coming and every await settles; the journal does not refuse a
\* retry for ever.
FairSpec ==
  /\ Spec
  /\ WF_vars(Begin) /\ WF_vars(RetryDone)
  /\ WF_vars(\E readable \in BOOLEAN : ListJournal(readable))
  /\ WF_vars(Ingest \/ Human) /\ WF_vars(Finish)
  /\ \A i \in Items : WF_vars(\E done \in BOOLEAN : RetryReconciliation(i, done))
  /\ \A i \in Items : SF_vars(RetryReconciliation(i, TRUE))

-----------------------------------------------------------------------------
(* Correctness                                                             *)

\* The App Server receives an accept for q in this step.
AcceptReceived(q) == Len(answers'[q]) > Len(answers[q]) /\ answers'[q][Len(answers'[q])] = "accept"

\* Whenever an enforced session told the App Server to apply a file change,
\* the journal on disk says so, through every crash, failed write and later
\* session of either mode: the entry exists and is unresolved or checked, or
\* it is blocked because the App Server reported that it did not apply the
\* change.
AcceptIsJournaled ==
  \A q \in accepted :
    \/ journal[q] \in UnresolvedStates \cup {"post_checked"}
    \/ journal[q] = "blocked" /\ q \in unapplied

\* The journal never claims an acceptance that the App Server has not got.
JournalClaimsAreTrue ==
  \A q \in Requests : journal[q] \in {"accepted", "retained", "post_checked"} => q \in accepted

\* Between the decision to answer a request and the send there are awaits (the
\* journal entry, the source check, the marking of a turn), and sendDecision
\* looks at request, turn and session again.  As serialize keeps every other
\* call out, it never finds them changed: no answer is dropped there, with an
\* entry that says pending_accept for a request nobody will answer.
SendIsAvailable ==
  \A decision \in {"accept", "decline"} : At(decision) => Sendable(op.q, decision)

\* No request is answered twice, not even after a send that failed.
AnsweredOnce == \A q \in Requests : Len(answers[q]) <= 1

\* While no call is running, memory and journal agree: an item that counts as
\* accepted or checked is so on disk, and an item that needs reconciliation
\* is so on disk or will be retried.
JournalTracksItem ==
  At("idle") =>
    \A i \in Items : item[i].journaled =>
      LET onDisk == journal[item[i].request]
      IN  /\ item[i].state = "accepted_by_app_server" => onDisk = "accepted"
          /\ item[i].state = "post_checked" => onDisk = "post_checked"
          /\ item[i].state = "reconciliation_required" =>
               onDisk = "reconciliation_required" \/ i \in failures

PolicyAcceptsContainedOnly ==
  \A p \in Proposals : FileChangeVerdict(p) = "auto" =>
    \A target \in Touched(p.changes) :
      /\ isSafeGovernedPath(target) /\ ~isSensitiveGovernedPath(target)
      /\ Covers(CapabilityCeiling, WriteTo(target))

\* handleApprovalRequested: a change that policy accepts without a person
\* writes only paths that are safe as the App Server spelled them, not
\* sensitive and within the session's ceiling, although the facts are about
\* normalised paths and the request is compared with the ceiling as spelled.
AutoAcceptIsContained == enforced => PolicyAcceptsContainedOnly

\* authorizeCapabilityFacts, which an enforced session relies on: whatever is
\* added to the facts, the risk a text signals or taken from the ceiling, the
\* decision does not become more lenient: no fact hides another.
DecisionIsMonotone == enforced => WorseFactsNeverRelax

\* authorizeCapabilityFacts and the capability matcher, which an enforced
\* session relies on: however a ceiling, a request or a grant is spelled or
\* bound, it never lets through more than it says.
CeilingIsRespected == enforced => CeilingHolds

\* The entry holds the version of the change set that the approval request
\* was about, and verification will compare the workspace with that version:
\* an update that arrives while the operator decides, or after that, cannot
\* slip another change under the approval.
JournalHoldsApprovedVersion ==
  \A i \in Items : item[i].journaled =>
    LET q == item[i].request IN journalled[q] = asked[q] /\ item[i].version = asked[q]

\* A reconciliation that could not be written is written in the end, unless
\* the process dies first: it is retried with every call, in a quarantined
\* session too.
ReconciliationIsWritten ==
  \A i \in Items, q \in Requests, s \in 1..MaxSessions :
    (i \in failures /\ item[i].request = q /\ session = s)
      ~> (journal[q] = "reconciliation_required" \/ session # s)

\* The journal on disk and the App Server tell the same story of every accept.
JournalIsTruthful == AcceptIsJournaled /\ JournalClaimsAreTrue

\* Every request that gets an answer gets it once, and no answer that was
\* decided on is dropped on the way.
AnswerIsSentOnce == TypeOK /\ AnsweredOnce /\ SendIsAvailable

\* Nothing is accepted any more in a turn that saw a gap, a duplicate, an
\* event that does not correlate or an answer that may be lost, nor in a
\* quarantined session.
NoAcceptInDisturbedTurn ==
  \A q \in Requests : AcceptReceived(q) => TurnOf[approval[q].item] \notin disturbed

\* Nothing is accepted while the journal holds an unresolved entry that this
\* session did not write: a restart never resumes acceptance.
NoAcceptOverUnresolvedJournal ==
  \A q \in Requests : AcceptReceived(q) =>
    \A p \in Requests \ owned : journal[p] \notin UnresolvedStates

\* A file change is not accepted after its item was reported completed.
NoAcceptAfterCompletion ==
  \A q \in Requests : enforced /\ AcceptReceived(q) /\ approval[q].kind = "file_change" =>
    approval[q].item \notin turn[TurnOf[approval[q].item]].completed

\* Whatever happened between the proposal and the answer, an accept is only
\* sent while turn, journal and item still allow it.
AcceptIsStillDue ==
  [][NoAcceptInDisturbedTurn /\ NoAcceptOverUnresolvedJournal /\ NoAcceptAfterCompletion]_vars
=============================================================================
