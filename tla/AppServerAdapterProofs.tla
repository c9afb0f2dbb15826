----------------------- MODULE AppServerAdapterProofs -----------------------
(***************************************************************************)
(* Proofs about AppServerAdapter, for all sets of items, requests, turns   *)
(* and proposals and every bound.                                          *)
(*                                                                         *)
(* The argument: the call in progress carries what it has established      *)
(* about its request and item from one await to the next (OpIsSound), as   *)
(* nothing else runs; an item is out of step with its journal entry only   *)
(* while the call that has to reconcile it is still at it (AtHand); and a  *)
(* request answers for its journal entry over all sessions (EntryIsTrue).  *)
(* The authorization kernel is pure: what it promises holds in every state *)
(* because it holds for all its inputs.                                    *)
(***************************************************************************)
EXTENDS AppServerAdapter, TLAPS

\* An item has the request that was made for it, with the version it was
\* made for, and an item with an entry has it on disk.
ItemIsSound(i) ==
  /\ item[i].request # NoRequest =>
       /\ approval[item[i].request].kind = "file_change"
       /\ approval[item[i].request].item = i
       /\ item[i].version = asked[item[i].request]
  /\ item[i].journaled = TRUE =>
       /\ item[i].request # NoRequest /\ journal[item[i].request] # "none"
       /\ journalled[item[i].request] = asked[item[i].request]
  /\ i \in failures => item[i].state = "reconciliation_required"

\* The call in progress will still write the state of i.
AtHand(i) ==
  \/ op.phase = "mark" /\ i \in op.marks
  \/ op.phase = "unapply" /\ op.i = i

\* The memory agrees with the disk.
Tracked(i) ==
  item[i].journaled = TRUE =>
    /\ item[i].state = "accepted_by_app_server" => journal[item[i].request] = "accepted"
    /\ item[i].state = "post_checked" => journal[item[i].request] = "post_checked"
    /\ item[i].state = "reconciliation_required" =>
         journal[item[i].request] = "reconciliation_required" \/ i \in failures

\* Nobody is asked about a change that is completed.
CompletionIsHandled(i) ==
  enforced = TRUE /\ item[i].state = "awaiting_approval" => i \notin turn[TurnOf[i]].completed

ItemIsSettled(i) == AtHand(i) \/ (Tracked(i) /\ CompletionIsHandled(i))

\* Accept and entry tell the same, in this session and after it.
EntryIsTrue(q) ==
  /\ q \in accepted => \/ journal[q] \in UnresolvedStates \cup {"post_checked"}
                       \/ journal[q] = "blocked" /\ q \in unapplied
  /\ journal[q] \in {"accepted", "retained", "post_checked"} => q \in accepted

RequestIsSound(q) ==
  /\ Len(answers[q]) <= 1 /\ (approval[q].delivery = "pending" => answers[q] = <<>>)
  /\ approval[q].kind = "absent" => approval[q].delivery = "pending"
  /\ approval[q].kind # "absent" => approval[q].item \in Items
  /\ approval[q].kind = "file_change" /\ turn[TurnOf[approval[q].item]].blocked = FALSE =>
       item[approval[q].item].request = q

TurnIsSound(t) == t \in disturbed \/ quarantined = TRUE => turn[t].blocked = TRUE

Answering == op.phase \in {"put", "preflight", "block", "accept", "decline"}
               \/ (op.phase = "mark" /\ op.next = "decline")

\* The call is on the way to an accept that must be in the journal.
Governing == op.phase \in {"put", "preflight", "block"}
               \/ (op.phase = "accept" /\ enforced = TRUE /\ op.i # NoItem)

OpIsSound ==
  /\ op.phase \in {"ready", "put", "preflight", "accept"} =>
       /\ quarantined = FALSE
       /\ \A q \in Requests : q \notin owned => journal[q] \notin UnresolvedStates
  /\ Answering => /\ op.q \in Requests /\ approval[op.q].kind # "absent"
                  /\ approval[op.q].delivery = "pending" /\ approval[op.q].resolved = FALSE
  /\ op.phase \in {"put", "preflight", "accept"} =>
       turn[TurnOf[approval[op.q].item]].blocked = FALSE
  /\ op.phase = "accept" /\ enforced = TRUE /\ approval[op.q].kind = "file_change" => op.i # NoItem
  /\ Governing => /\ enforced = TRUE /\ op.i \in Items /\ item[op.i].request = op.q
                  /\ item[op.i].state \in {"awaiting_approval", "auto_approved"}
                  /\ op.phase # "block" => op.i \notin turn[TurnOf[op.i]].completed
                  /\ op.phase # "put" => /\ item[op.i].journaled = TRUE /\ op.q \notin accepted
                                         /\ journal[op.q] = "pending_accept"
  /\ op.phase = "record" => /\ op.i \in Items /\ item[op.i].request = op.q /\ op.q \in accepted
  /\ op.phase \in {"verify", "retain", "post", "unapply"} => op.i \in Items
  /\ op.phase = "unapply" /\ item[op.i].request # NoRequest => item[op.i].request \in unapplied
  /\ op.phase = "retry" => \A i \in op.marks : item[i].state = "reconciliation_required"

AdapterInv ==
  /\ TypeOK /\ OpIsSound
  /\ \A i \in Items : ItemIsSound(i) /\ ItemIsSettled(i)
  /\ \A q \in Requests : EntryIsTrue(q) /\ RequestIsSound(q)
  /\ \A t \in Turns : TurnIsSound(t)

-----------------------------------------------------------------------------
(* Types                                                                   *)

TurnRecords == [lastSequence : 0..MaxEvents, blocked : BOOLEAN, completed : SUBSET Items]
ItemRecords == [state : ItemStates, request : Requests \cup {NoRequest}, journaled : BOOLEAN,
                version : 0..MaxVersion]
ApprovalRecords == [kind : {"absent", "file_change", "other"}, item : Items \cup {NoItem},
                    resolved : BOOLEAN, delivery : {"pending", "sent", "uncertain"},
                    sent : {"none", "accept", "decline"}]
Ops == [phase : Phases, i : Items \cup {NoItem}, q : Requests \cup {NoRequest},
        marks : SUBSET Items, next : {"idle", "decline"}]

Settings == session \in 1..MaxSessions /\ enforced \in BOOLEAN /\ quarantined \in BOOLEAN
MemoryTypes ==
  /\ turn \in [Turns -> TurnRecords] /\ item \in [Items -> ItemRecords]
  /\ approval \in [Requests -> ApprovalRecords] /\ owned \subseteq Requests /\ failures \subseteq Items
DiskTypes == /\ journal \in [Requests -> JournalStates \cup {"none"}]
             /\ journalled \in [Requests -> 0..MaxVersion]
GhostTypes ==
  /\ answers \in [Requests -> Seq({"accept", "decline"})] /\ accepted \subseteq Requests
  /\ unapplied \subseteq Requests /\ asked \in [Requests -> 0..MaxVersion] /\ disturbed \subseteq Turns

LEMMA TypeOKParts ==
  TypeOK <=> Settings /\ MemoryTypes /\ op \in Ops /\ DiskTypes /\ GhostTypes
BY DEF TypeOK, Settings, MemoryTypes, DiskTypes, GhostTypes, TurnRecords, ItemRecords,
       ApprovalRecords, Ops

\* The same of the next state.
LEMMA TypeOKPartsNext ==
  ASSUME Settings', MemoryTypes', op' \in Ops, DiskTypes', GhostTypes'
  PROVE  TypeOK'
BY DEF TypeOK, Settings, MemoryTypes, DiskTypes, GhostTypes, TurnRecords, ItemRecords,
       ApprovalRecords, Ops

\* What is known of one item, request or turn by its type.
LEMMA Types ==
  ASSUME TypeOK
  PROVE  /\ \A i \in Items : /\ item[i] \in ItemRecords /\ item[i].state \in ItemStates
                             /\ item[i].request \in Requests \cup {NoRequest}
                             /\ item[i].journaled \in BOOLEAN /\ item[i].version \in 0..MaxVersion
                             /\ TurnOf[i] \in Turns
         /\ \A q \in Requests : /\ approval[q] \in ApprovalRecords
                                /\ approval[q].kind \in {"absent", "file_change", "other"}
                                /\ approval[q].item \in Items \cup {NoItem}
                                /\ approval[q].resolved \in BOOLEAN
                                /\ approval[q].delivery \in {"pending", "sent", "uncertain"}
                                /\ journal[q] \in JournalStates \cup {"none"}
         /\ \A t \in Turns : /\ turn[t] \in TurnRecords /\ turn[t].blocked \in BOOLEAN
                             /\ turn[t].lastSequence \in 0..MaxEvents
                             /\ turn[t].completed \subseteq Items
         /\ op \in Ops /\ op.phase \in Phases /\ op.i \in Items \cup {NoItem}
         /\ op.q \in Requests \cup {NoRequest} /\ op.marks \subseteq Items
         /\ op.next \in {"idle", "decline"}
         /\ enforced \in BOOLEAN /\ quarantined \in BOOLEAN
         /\ NoRequest \notin Requests /\ NoItem \notin Items
<1>1. Settings /\ MemoryTypes /\ op \in Ops /\ DiskTypes /\ GhostTypes
  BY TypeOKParts
<1>2. \A i \in Items : item[i] \in ItemRecords
  BY <1>1 DEF MemoryTypes
<1>3. \A q \in Requests : approval[q] \in ApprovalRecords /\ journal[q] \in JournalStates \cup {"none"}
  BY <1>1 DEF MemoryTypes, DiskTypes
<1>4. \A t \in Turns : turn[t] \in TurnRecords
  BY <1>1 DEF MemoryTypes
<1>5. \A i \in Items : TurnOf[i] \in Turns
  BY AdapterAssumption
<1>6. /\ \A i \in Items : /\ item[i].state \in ItemStates
                          /\ item[i].request \in Requests \cup {NoRequest}
                          /\ item[i].journaled \in BOOLEAN /\ item[i].version \in 0..MaxVersion
  BY <1>2 DEF ItemRecords
<1>7. \A q \in Requests : /\ approval[q].kind \in {"absent", "file_change", "other"}
                          /\ approval[q].item \in Items \cup {NoItem}
                          /\ approval[q].resolved \in BOOLEAN
                          /\ approval[q].delivery \in {"pending", "sent", "uncertain"}
  BY <1>3 DEF ApprovalRecords
<1>8. \A t \in Turns : /\ turn[t].blocked \in BOOLEAN /\ turn[t].lastSequence \in 0..MaxEvents
                       /\ turn[t].completed \subseteq Items
  BY <1>4 DEF TurnRecords
<1>9. /\ op.phase \in Phases /\ op.i \in Items \cup {NoItem}
      /\ op.q \in Requests \cup {NoRequest} /\ op.marks \subseteq Items
      /\ op.next \in {"idle", "decline"}
  BY <1>1 DEF Ops
<1> QED
  BY <1>1, <1>2, <1>3, <1>4, <1>5, <1>6, <1>7, <1>8, <1>9, AdapterAssumption DEF Settings

\* The parts of the invariant, each to be used alone.
LEMMA InvParts ==
  ASSUME AdapterInv
  PROVE  /\ TypeOK /\ OpIsSound
         /\ Settings /\ MemoryTypes /\ op \in Ops /\ DiskTypes /\ GhostTypes
         /\ \A i \in Items : ItemIsSound(i) /\ ItemIsSettled(i)
         /\ \A q \in Requests : EntryIsTrue(q) /\ RequestIsSound(q)
         /\ \A t \in Turns : TurnIsSound(t)
BY TypeOKParts DEF AdapterInv

-----------------------------------------------------------------------------
(* Steps that move only the call                                           *)

LEMMA OpStep ==
  ASSUME AdapterInv, \A i \in Items : ~AtHand(i), op' \in Ops,
         UNCHANGED <<setup, memory, disk, ghosts>>, OpIsSound'
  PROVE  AdapterInv'
<1>1. UNCHANGED <<session, enforced, quarantined, turn, item, approval, owned, failures, journal,
                  journalled, answers, accepted, unapplied, asked, disturbed>>
  BY DEF setup, memory, disk, ghosts
<1>2. TypeOK'
  BY <1>1, InvParts, TypeOKPartsNext DEF Settings, MemoryTypes, DiskTypes, GhostTypes
<1>3. ASSUME NEW i \in Items PROVE ItemIsSound(i)' /\ ItemIsSettled(i)'
  <2>1. ItemIsSound(i) /\ Tracked(i) /\ CompletionIsHandled(i)
    BY InvParts DEF ItemIsSettled
  <2> QED
    BY <1>1, <2>1 DEF ItemIsSound, ItemIsSettled, Tracked, CompletionIsHandled
<1>4. ASSUME NEW q \in Requests PROVE EntryIsTrue(q)' /\ RequestIsSound(q)'
  BY <1>1, InvParts DEF EntryIsTrue, RequestIsSound
<1>5. ASSUME NEW t \in Turns PROVE TurnIsSound(t)'
  BY <1>1, InvParts DEF TurnIsSound
<1> QED
  BY <1>2, <1>3, <1>4, <1>5, Zenon DEF AdapterInv

\* A call that returns has nothing to keep.
LEMMA IdleIsSound ==
  ASSUME op' = Idle
  PROVE  OpIsSound' /\ op' \in Ops /\ \A i \in Items : ~AtHand(i)'
<1>1. Idle \in Ops /\ Idle.phase = "idle"
  BY DEF Idle, Ops, Phases
<1> QED
  BY <1>1 DEF OpIsSound, Answering, Governing, AtHand

LEMMA BeginKeepsInv ==
  ASSUME AdapterInv, Begin
  PROVE  AdapterInv'
<1> DEFINE o == [Idle EXCEPT !.phase = "retry", !.marks = failures]
<1>1. op' = o /\ op.phase = "idle" /\ UNCHANGED <<setup, memory, disk, ghosts>>
  BY DEF Begin, At
<1>2. o \in Ops /\ o.phase = "retry" /\ o.marks = failures
  BY InvParts DEF Idle, Ops, Phases, MemoryTypes
<1> HIDE DEF o
<1>3. \A i \in Items : ~AtHand(i)
  BY <1>1 DEF AtHand
<1>4. \A i \in failures : item[i].state = "reconciliation_required"
  BY InvParts DEF ItemIsSound, MemoryTypes
<1>5. OpIsSound'
  BY <1>1, <1>2, <1>4 DEF OpIsSound, Answering, Governing, memory
<1> QED
  BY <1>1, <1>2, <1>3, <1>5, OpStep

LEMMA RetryDoneKeepsInv ==
  ASSUME AdapterInv, RetryDone
  PROVE  AdapterInv'
<1> DEFINE o == [op EXCEPT !.phase = "list"]
<1>1. op' = o /\ op.phase = "retry" /\ UNCHANGED <<setup, memory, disk, ghosts>>
  BY DEF RetryDone, At, Continue
<1>2. o \in Ops /\ o.phase = "list"
  BY InvParts DEF Ops, Phases
<1> HIDE DEF o
<1>3. \A i \in Items : ~AtHand(i)
  BY <1>1 DEF AtHand
<1>5. OpIsSound'
  BY <1>1, <1>2 DEF OpIsSound, Answering, Governing
<1> QED
  BY <1>1, <1>2, <1>3, <1>5, OpStep

LEMMA HumanRefusedKeepsInv ==
  ASSUME AdapterInv, HumanRefused
  PROVE  AdapterInv'
<1>1. op' = Idle /\ op.phase = "ready" /\ UNCHANGED <<setup, memory, disk, ghosts>>
  BY DEF HumanRefused, At, Return
<1>2. \A i \in Items : ~AtHand(i)
  BY <1>1 DEF AtHand
<1> QED
  BY <1>1, <1>2, IdleIsSound, OpStep

LEMMA PreflightKeepsInv ==
  ASSUME AdapterInv, NEW passed \in BOOLEAN, Preflight(passed)
  PROVE  AdapterInv'
<1>0. PICK next \in {"accept", "block"} : op' = [op EXCEPT !.phase = next]
  BY DEF Preflight, Continue
<1> DEFINE o == [op EXCEPT !.phase = next]
<1>1. op' = o /\ op.phase = "preflight" /\ UNCHANGED <<setup, memory, disk, ghosts>>
  BY <1>0 DEF Preflight, At
<1>2. o \in Ops /\ o.phase = next /\ o.q = op.q /\ o.i = op.i /\ o.next = op.next
  BY InvParts DEF Ops, Phases
<1> HIDE DEF o
<1>3. \A i \in Items : ~AtHand(i)
  BY <1>1 DEF AtHand
<1>4. /\ quarantined = FALSE /\ enforced = TRUE /\ op.i \in Items /\ op.i # NoItem
      /\ \A q \in Requests : q \notin owned => journal[q] \notin UnresolvedStates
      /\ op.q \in Requests /\ approval[op.q].kind # "absent"
      /\ approval[op.q].delivery = "pending" /\ approval[op.q].resolved = FALSE
      /\ turn[TurnOf[approval[op.q].item]].blocked = FALSE /\ item[op.i].request = op.q
      /\ item[op.i].state \in {"awaiting_approval", "auto_approved"}
      /\ op.i \notin turn[TurnOf[op.i]].completed
      /\ item[op.i].journaled = TRUE /\ op.q \notin accepted /\ journal[op.q] = "pending_accept"
  BY <1>1, InvParts, Types DEF OpIsSound, Answering, Governing
<1>5. OpIsSound'
  BY <1>1, <1>2, <1>4 DEF OpIsSound, Answering, Governing, setup, memory, disk, ghosts
<1> QED
  BY <1>1, <1>2, <1>3, <1>5, OpStep

LEMMA MarkThenIsSound ==
  ASSUME NEW is, is \subseteq Items, MarkThen(is, "idle", NoItem, NoRequest)
  PROVE  OpIsSound' /\ op' \in Ops /\ \A i \in is : AtHand(i)'
<1> DEFINE o == [phase |-> "mark", i |-> NoItem, q |-> NoRequest, marks |-> is, next |-> "idle"]
<1>1. op' = o
  BY DEF MarkThen
<1>2. o \in Ops /\ o.phase = "mark" /\ o.next = "idle" /\ o.marks = is
  BY DEF Ops, Phases
<1> HIDE DEF o
<1> QED
  BY <1>1, <1>2 DEF OpIsSound, Answering, Governing, AtHand

LEMMA VerifyRetainedKeepsInv ==
  ASSUME AdapterInv, NEW passed \in BOOLEAN, VerifyRetained(passed)
  PROVE  AdapterInv'
<1>1. op.phase = "verify" /\ UNCHANGED <<setup, memory, disk, ghosts>>
  BY DEF VerifyRetained, At
<1>2. \A i \in Items : ~AtHand(i)
  BY <1>1 DEF AtHand
<1>3. op.i \in Items
  BY <1>1, InvParts DEF OpIsSound
<1>4. CASE Continue("retain")
  <2> DEFINE o == [op EXCEPT !.phase = "retain"]
  <2>1. op' = o
    BY <1>4 DEF Continue
  <2>2. o \in Ops /\ o.phase = "retain" /\ o.i = op.i
    BY InvParts DEF Ops, Phases
  <2> HIDE DEF o
  <2>3. OpIsSound'
    BY <1>3, <2>1, <2>2 DEF OpIsSound, Answering, Governing
  <2> QED
    BY <1>1, <1>2, <2>1, <2>2, <2>3, OpStep
<1>5. CASE MarkThen({op.i}, "idle", NoItem, NoRequest)
  <2>1. {op.i} \subseteq Items
    BY <1>3
  <2> QED
    BY <1>1, <1>2, <1>5, <2>1, MarkThenIsSound, OpStep
<1> QED
  BY <1>4, <1>5 DEF VerifyRetained

LEMMA MarkDoneKeepsInv ==
  ASSUME AdapterInv, MarkDone
  PROVE  AdapterInv'
<1>1. op.phase = "mark" /\ op.marks = {} /\ UNCHANGED <<setup, memory, disk, ghosts>>
  BY DEF MarkDone, At
<1>2. \A i \in Items : ~AtHand(i)
  BY <1>1 DEF AtHand
<1>3. CASE Return
  BY <1>1, <1>2, <1>3, IdleIsSound, OpStep DEF Return
<1>4. CASE op.next # "idle" /\ Continue(op.next)
  <2> DEFINE o == [op EXCEPT !.phase = "decline"]
  <2>1. op' = o /\ op.next = "decline"
    BY <1>4, InvParts, Types DEF Continue
  <2>2. o \in Ops /\ o.phase = "decline" /\ o.q = op.q
    BY InvParts DEF Ops, Phases
  <2> HIDE DEF o
  <2>3. /\ op.q \in Requests /\ approval[op.q].kind # "absent"
        /\ approval[op.q].delivery = "pending" /\ approval[op.q].resolved = FALSE
    BY <1>1, <2>1, InvParts DEF OpIsSound, Answering
  <2>4. OpIsSound'
    BY <1>1, <2>1, <2>2, <2>3 DEF OpIsSound, Answering, Governing, memory
  <2> QED
    BY <1>1, <1>2, <2>1, <2>2, <2>4, OpStep
<1> QED
  BY <1>3, <1>4 DEF MarkDone

\* The operator is asked about a request that is still open, of the item
\* that has it.
LEMMA HumanDecisionKeepsInv ==
  ASSUME AdapterInv, NEW q \in Requests, NEW decision \in {"accept", "decline"},
         HumanDecision(q, decision)
  PROVE  AdapterInv'
<1> DEFINE i == approval[q].item
           known == item[i].state # "absent"
           file == approval[q].kind = "file_change"
<1>0. op.phase = "ready" /\ UNCHANGED <<setup, memory, disk, ghosts>> /\ HumanAvailable(q)
  BY DEF HumanDecision, At
<1>1. PICK phase \in {"decline", "put", "accept"}, j \in Items \cup {NoItem} :
        /\ op' = [Idle EXCEPT !.phase = phase, !.i = j, !.q = q]
        /\ phase = "put" => file /\ enforced = TRUE /\ known
        /\ phase = "put" => j = i
        /\ phase = "accept" => ~(file /\ enforced = TRUE)
        /\ phase = "accept" /\ j # NoItem => file
  BY InvParts, Types DEF HumanDecision
<1> DEFINE o == [Idle EXCEPT !.phase = phase, !.i = j, !.q = q]
<1>2. o \in Ops /\ o.phase = phase /\ o.i = j /\ o.q = q
  BY DEF Idle, Ops, Phases
<1> HIDE DEF o
<1>3. op' = o
  BY <1>1 DEF o
<1>4. \A k \in Items : ~AtHand(k)
  BY <1>0 DEF AtHand
<1>5. /\ approval[q].kind # "absent" /\ approval[q].delivery = "pending"
      /\ approval[q].resolved = FALSE /\ i \in Items
  BY <1>0, InvParts, Types DEF HumanAvailable, RequestIsSound
<1>6. turn[TurnOf[i]].blocked = FALSE
  BY <1>0, <1>5, InvParts, Types DEF HumanAvailable
<1>7. /\ quarantined = FALSE
      /\ \A r \in Requests : r \notin owned => journal[r] \notin UnresolvedStates
  BY <1>0, InvParts DEF OpIsSound
<1>8. ASSUME phase = "put"
      PROVE  /\ item[i].request = q /\ item[i].state = "awaiting_approval"
             /\ i \notin turn[TurnOf[i]].completed
  <2>1. RequestIsSound(q) /\ ItemIsSettled(i)
    BY <1>5, InvParts
  <2>2. item[i].request = q /\ item[i].state = "awaiting_approval"
    BY <1>0, <1>1, <1>6, <1>8, <2>1 DEF RequestIsSound, HumanAvailable
  <2> QED
    BY <1>1, <1>4, <1>5, <1>8, <2>1, <2>2 DEF ItemIsSettled, CompletionIsHandled
<1>9. OpIsSound'
  BY <1>0, <1>1, <1>2, <1>3, <1>5, <1>6, <1>7, <1>8
     DEF OpIsSound, Answering, Governing, setup, memory, disk, ghosts
<1> QED
  BY <1>0, <1>2, <1>3, <1>4, <1>9, OpStep

-----------------------------------------------------------------------------
(* Steps that take or refuse an event                                      *)

\* Turns are blocked, never released; completions are seen.
LEMMA TurnStep ==
  ASSUME AdapterInv, \A i \in Items : ~AtHand(i), op' \in Ops, OpIsSound',
         UNCHANGED <<setup, item, owned, failures, disk, answers, accepted, asked>>,
         quarantined' \in BOOLEAN, disturbed' \subseteq Turns,
         turn' \in [Turns -> TurnRecords],
         \A t \in Turns : turn[t].blocked = TRUE => turn'[t].blocked = TRUE,
         \A t \in Turns : TurnIsSound(t)',
         \A i \in Items : \/ AtHand(i)' \/ item[i].state # "awaiting_approval" \/ enforced = FALSE
                          \/ i \in turn'[TurnOf[i]].completed => i \in turn[TurnOf[i]].completed,
         approval' \in [Requests -> ApprovalRecords],
         \A q \in Requests : /\ approval'[q].kind = approval[q].kind
                             /\ approval'[q].item = approval[q].item
                             /\ approval'[q].delivery = approval[q].delivery,
         unapplied \subseteq unapplied', unapplied' \subseteq Requests
  PROVE  AdapterInv'
<1>1. UNCHANGED <<session, enforced, item, owned, failures, journal, journalled, answers, accepted,
                  asked>>
  BY DEF setup, disk
<1>2. TypeOK'
  BY <1>1, InvParts, TypeOKPartsNext DEF Settings, MemoryTypes, DiskTypes, GhostTypes
<1>3. ASSUME NEW i \in Items PROVE ItemIsSound(i)' /\ ItemIsSettled(i)'
  <2>1. ItemIsSound(i) /\ Tracked(i) /\ CompletionIsHandled(i) /\ item[i].request \in Requests \cup {NoRequest}
    BY InvParts, Types DEF ItemIsSettled
  <2>2. ItemIsSound(i)'
    BY <1>1, <2>1 DEF ItemIsSound
  <2>3. Tracked(i)'
    BY <1>1, <2>1 DEF Tracked
  <2>4. AtHand(i)' \/ CompletionIsHandled(i)'
    BY <1>1, <2>1 DEF CompletionIsHandled
  <2> QED
    BY <2>2, <2>3, <2>4 DEF ItemIsSettled
<1>4. ASSUME NEW q \in Requests PROVE EntryIsTrue(q)' /\ RequestIsSound(q)'
  <2>1. EntryIsTrue(q)'
    BY <1>1, InvParts DEF EntryIsTrue
  <2>2. RequestIsSound(q) /\ approval[q].item \in Items \cup {NoItem}
    BY InvParts, Types
  <2>3. approval[q].item \in Items => /\ TurnOf[approval[q].item] \in Turns
                                      /\ turn[TurnOf[approval[q].item]].blocked \in BOOLEAN
    BY InvParts, Types
  <2> QED
    BY <1>1, <2>1, <2>2, <2>3 DEF RequestIsSound
<1> QED
  BY <1>2, <1>3, <1>4, Zenon DEF AdapterInv

LEMMA QuarantineKeepsInv ==
  ASSUME AdapterInv, op.phase \in {"list", "ready"}, Quarantine,
         UNCHANGED <<setup, item, approval, owned, failures, disk, answers, accepted, unapplied, asked>>
  PROVE  AdapterInv'
<1>1. \A i \in Items : ~AtHand(i)
  BY DEF AtHand
<1>2. OpIsSound' /\ op' \in Ops
  <2>1. OpenItems \subseteq Items
    BY DEF OpenItems
  <2> QED
    BY <2>1, MarkThenIsSound DEF Quarantine
<1>3. /\ quarantined' = TRUE /\ disturbed' = Turns
      /\ turn' = [t \in Turns |-> [turn[t] EXCEPT !.blocked = TRUE]]
  BY DEF Quarantine
<1>4. \A t \in Turns : /\ turn'[t] \in TurnRecords /\ turn'[t].blocked = TRUE
                       /\ turn'[t].completed = turn[t].completed
  BY <1>3, InvParts, Types DEF TurnRecords
<1>5. turn' \in [Turns -> TurnRecords]
  BY <1>3, <1>4
<1>6. \A t \in Turns : TurnIsSound(t)'
  BY <1>4 DEF TurnIsSound
<1>7. approval' \in [Requests -> ApprovalRecords] /\ unapplied' \subseteq Requests
  BY InvParts DEF MemoryTypes, GhostTypes
<1>8. \A i \in Items : TurnOf[i] \in Turns
  BY InvParts, Types
<1> QED
  BY <1>1, <1>2, <1>3, <1>4, <1>5, <1>6, <1>7, <1>8, TurnStep

LEMMA ListJournalKeepsInv ==
  ASSUME AdapterInv, NEW readable \in BOOLEAN, ListJournal(readable)
  PROVE  AdapterInv'
<1>1. /\ op.phase = "list"
      /\ UNCHANGED <<setup, item, approval, owned, failures, disk, answers, accepted, unapplied, asked>>
  BY DEF ListJournal, At
<1>2. \A i \in Items : ~AtHand(i)
  BY <1>1 DEF AtHand
<1>3. CASE Return /\ UNCHANGED <<quarantined, turn, disturbed>>
  <2>1. UNCHANGED <<setup, memory, disk, ghosts>>
    BY <1>1, <1>3 DEF memory, ghosts
  <2> QED
    BY <1>2, <1>3, <2>1, IdleIsSound, OpStep DEF Return
<1>4. CASE Quarantine
  BY <1>1, <1>4, QuarantineKeepsInv
<1>5. CASE ~quarantined /\ Unowned = {} /\ Continue("ready") /\ UNCHANGED <<quarantined, turn, disturbed>>
  <2> DEFINE o == [op EXCEPT !.phase = "ready"]
  <2>1. op' = o /\ UNCHANGED <<setup, memory, disk, ghosts>>
    BY <1>1, <1>5 DEF Continue, memory, ghosts
  <2>2. o \in Ops /\ o.phase = "ready"
    BY InvParts DEF Ops, Phases
  <2> HIDE DEF o
  <2>3. \A q \in Requests : q \notin owned => journal[q] \notin UnresolvedStates
    BY <1>5 DEF Unowned
  <2>4. quarantined = FALSE
    BY <1>5, InvParts, Types
  <2>5. OpIsSound'
    BY <2>1, <2>2, <2>3, <2>4 DEF OpIsSound, Answering, Governing, memory, disk
  <2> QED
    BY <1>2, <2>1, <2>2, <2>5, OpStep
<1> QED
  BY <1>3, <1>4, <1>5 DEF ListJournal

LEMMA QuarantineEventKeepsInv ==
  ASSUME AdapterInv, QuarantineEvent
  PROVE  AdapterInv'
BY QuarantineKeepsInv DEF QuarantineEvent, At

LEMMA DuplicateRequestKeepsInv ==
  ASSUME AdapterInv, NEW q \in Requests, NEW i \in Items, DuplicateRequest(q, i)
  PROVE  AdapterInv'
BY QuarantineKeepsInv DEF DuplicateRequest, InSequence, At

\* A step that replaces the record of one turn.
LEMMA OneTurnChanges ==
  ASSUME AdapterInv, NEW t \in Turns, NEW new \in TurnRecords, turn' = [turn EXCEPT ![t] = new],
         turn[t].blocked = TRUE => new.blocked = TRUE,
         disturbed' = disturbed \/ (disturbed' = disturbed \cup {t} /\ new.blocked = TRUE),
         quarantined' = quarantined
  PROVE  /\ turn' \in [Turns -> TurnRecords] /\ turn'[t] = new
         /\ \A u \in Turns : u # t => turn'[u] = turn[u]
         /\ \A u \in Turns : turn[u].blocked = TRUE => turn'[u].blocked = TRUE
         /\ \A u \in Turns : TurnIsSound(u)'
         /\ disturbed' \subseteq Turns
<1>1. turn \in [Turns -> TurnRecords] /\ disturbed \subseteq Turns
  BY InvParts DEF MemoryTypes, GhostTypes
<1>2. \A u \in Turns : TurnIsSound(u)
  BY InvParts
<1>3. /\ turn' \in [Turns -> TurnRecords] /\ turn'[t] = new
      /\ \A u \in Turns : u # t => turn'[u] = turn[u]
  BY <1>1
<1> QED
  BY <1>1, <1>2, <1>3 DEF TurnIsSound

LEMMA OutOfSequenceKeepsInv ==
  ASSUME AdapterInv, NEW t \in Turns, OutOfSequence(t)
  PROVE  AdapterInv'
<1> DEFINE new == [turn[t] EXCEPT !.blocked = TRUE]
<1>1. /\ op.phase = "ready" /\ turn' = [turn EXCEPT ![t] = new] /\ disturbed' = disturbed \cup {t}
      /\ MarkThen(ItemsOf(t), "idle", NoItem, NoRequest)
      /\ UNCHANGED <<setup, quarantined, item, approval, owned, failures, disk, answers, accepted,
                     unapplied, asked>>
  BY DEF OutOfSequence, At
<1>2. new \in TurnRecords /\ new.blocked = TRUE /\ new.completed = turn[t].completed
  BY InvParts, Types DEF TurnRecords
<1> HIDE DEF new
<1>3. \A i \in Items : ~AtHand(i)
  BY <1>1 DEF AtHand
<1>4. OpIsSound' /\ op' \in Ops
  <2>1. ItemsOf(t) \subseteq Items
    BY DEF ItemsOf
  <2> QED
    BY <1>1, <2>1, MarkThenIsSound
<1>5. /\ turn' \in [Turns -> TurnRecords] /\ turn'[t] = new
      /\ \A u \in Turns : u # t => turn'[u] = turn[u]
      /\ \A u \in Turns : turn[u].blocked = TRUE => turn'[u].blocked = TRUE
      /\ \A u \in Turns : TurnIsSound(u)'
      /\ disturbed' \subseteq Turns
  BY <1>1, <1>2, OneTurnChanges
<1>6. approval' \in [Requests -> ApprovalRecords] /\ unapplied' \subseteq Requests
      /\ quarantined' \in BOOLEAN
  BY <1>1, InvParts DEF MemoryTypes, GhostTypes, Settings
<1>7. \A i \in Items : i \in turn'[TurnOf[i]].completed => i \in turn[TurnOf[i]].completed
  BY <1>2, <1>5, InvParts, Types
<1> QED
  BY <1>1, <1>3, <1>4, <1>5, <1>6, <1>7, TurnStep

\* An event that is refused blocks its turn; its request may still have to
\* be declined.
LEMMA RefusedTurn ==
  ASSUME AdapterInv, NEW i \in Items, NEW completed \in SUBSET Items, InSequence(i), NEW next, NEW q,
         RefuseEventWith(i, completed, next, q), quarantined' = quarantined
  PROVE  /\ turn' \in [Turns -> TurnRecords] /\ turn'[TurnOf[i]].blocked = TRUE
         /\ turn'[TurnOf[i]].completed = completed
         /\ \A u \in Turns : u # TurnOf[i] => turn'[u] = turn[u]
         /\ \A u \in Turns : turn[u].blocked = TRUE => turn'[u].blocked = TRUE
         /\ \A u \in Turns : TurnIsSound(u)'
         /\ disturbed' \subseteq Turns /\ op.phase = "ready" /\ \A j \in Items : ~AtHand(j)
<1> DEFINE t == TurnOf[i]
           new == [lastSequence |-> turn[t].lastSequence + 1, blocked |-> TRUE,
                   completed |-> completed]
<1>1. t \in Turns /\ turn[t].lastSequence \in 0..MaxEvents /\ turn[t].lastSequence < MaxEvents
  BY InvParts, Types DEF InSequence
<1>2. new \in TurnRecords /\ new.blocked = TRUE /\ new.completed = completed
  BY <1>1, AdapterAssumption DEF TurnRecords
<1>3. turn' = [turn EXCEPT ![t] = new] /\ disturbed' = disturbed \cup {t} /\ op.phase = "ready"
  BY DEF RefuseEventWith, InSequence, At
<1> HIDE DEF new
<1> QED
  BY <1>1, <1>2, <1>3, OneTurnChanges DEF AtHand

LEMMA RefuseKeepsInv ==
  ASSUME AdapterInv, NEW i \in Items, NEW completed \in SUBSET Items, InSequence(i),
         RefuseEventWith(i, completed, "idle", NoRequest),
         completed \subseteq turn[TurnOf[i]].completed \cup {i},
         i \in completed => i \in turn[TurnOf[i]].completed \/ item[i].state # "awaiting_approval",
         UNCHANGED <<setup, quarantined, item, owned, failures, disk, answers, accepted, asked>>,
         approval' \in [Requests -> ApprovalRecords],
         \A q \in Requests : /\ approval'[q].kind = approval[q].kind
                             /\ approval'[q].item = approval[q].item
                             /\ approval'[q].delivery = approval[q].delivery,
         unapplied \subseteq unapplied', unapplied' \subseteq Requests
  PROVE  AdapterInv'
<1>1. /\ turn' \in [Turns -> TurnRecords] /\ turn'[TurnOf[i]].blocked = TRUE
      /\ turn'[TurnOf[i]].completed = completed
      /\ \A u \in Turns : u # TurnOf[i] => turn'[u] = turn[u]
      /\ \A u \in Turns : turn[u].blocked = TRUE => turn'[u].blocked = TRUE
      /\ \A u \in Turns : TurnIsSound(u)'
      /\ disturbed' \subseteq Turns /\ op.phase = "ready" /\ \A j \in Items : ~AtHand(j)
  BY RefusedTurn
<1>2. OpIsSound' /\ op' \in Ops
  <2>1. ItemsOf(TurnOf[i]) \subseteq Items
    BY DEF ItemsOf
  <2> QED
    BY <2>1, MarkThenIsSound DEF RefuseEventWith
<1>3. \A j \in Items : \/ AtHand(j)' \/ item[j].state # "awaiting_approval" \/ enforced = FALSE
                       \/ j \in turn'[TurnOf[j]].completed => j \in turn[TurnOf[j]].completed
  BY <1>1, InvParts, Types
<1>4. quarantined' \in BOOLEAN
  BY InvParts DEF Settings
<1> QED
  BY <1>1, <1>2, <1>3, <1>4, TurnStep

\* An event that is taken advances its turn.
LEMMA TakenTurn ==
  ASSUME AdapterInv, NEW i \in Items, NEW completed \in SUBSET Items, InSequence(i),
         turn' = [turn EXCEPT ![TurnOf[i]].lastSequence = @ + 1, ![TurnOf[i]].completed = completed],
         disturbed' = disturbed, quarantined' = quarantined
  PROVE  /\ turn' \in [Turns -> TurnRecords] /\ turn'[TurnOf[i]].blocked = FALSE
         /\ turn'[TurnOf[i]].completed = completed
         /\ \A u \in Turns : u # TurnOf[i] => turn'[u] = turn[u]
         /\ \A u \in Turns : turn[u].blocked = TRUE => turn'[u].blocked = TRUE
         /\ \A u \in Turns : TurnIsSound(u)'
         /\ disturbed' \subseteq Turns /\ op.phase = "ready" /\ \A j \in Items : ~AtHand(j)
<1> DEFINE t == TurnOf[i]
           new == [turn[t] EXCEPT !.lastSequence = @ + 1, !.completed = completed]
<1>1. /\ t \in Turns /\ turn[t] \in TurnRecords /\ turn[t].lastSequence \in 0..MaxEvents
      /\ turn[t].lastSequence < MaxEvents /\ turn[t].blocked = FALSE
  BY InvParts, Types DEF InSequence
<1>2. new \in TurnRecords /\ new.blocked = FALSE /\ new.completed = completed
  <2>1. PICK n \in 0..MaxEvents : n = turn[t].lastSequence + 1
    BY <1>1, AdapterAssumption
  <2>2. new = [turn[t] EXCEPT !.lastSequence = n, !.completed = completed]
    BY <2>1
  <2> QED
    BY <1>1, <2>2 DEF TurnRecords
<1>3. turn' = [turn EXCEPT ![t] = new] /\ op.phase = "ready"
  BY DEF InSequence, At
<1> HIDE DEF new
<1> QED
  BY <1>1, <1>2, <1>3, OneTurnChanges DEF AtHand

LEMMA TakeEventTurn ==
  ASSUME AdapterInv, NEW i \in Items, InSequence(i), TakeEvent(i), quarantined' = quarantined
  PROVE  /\ turn' \in [Turns -> TurnRecords] /\ turn'[TurnOf[i]].blocked = FALSE
         /\ turn'[TurnOf[i]].completed = turn[TurnOf[i]].completed
         /\ \A u \in Turns : u # TurnOf[i] => turn'[u] = turn[u]
         /\ \A u \in Turns : turn[u].blocked = TRUE => turn'[u].blocked = TRUE
         /\ \A u \in Turns : TurnIsSound(u)'
         /\ disturbed' \subseteq Turns /\ op.phase = "ready" /\ \A j \in Items : ~AtHand(j)
<1> DEFINE t == TurnOf[i]
           new == [turn[t] EXCEPT !.lastSequence = @ + 1]
<1>1. /\ t \in Turns /\ turn[t] \in TurnRecords /\ turn[t].lastSequence \in 0..MaxEvents
      /\ turn[t].lastSequence < MaxEvents /\ turn[t].blocked = FALSE
  BY InvParts, Types DEF InSequence
<1>2. new \in TurnRecords /\ new.blocked = FALSE /\ new.completed = turn[t].completed
  BY <1>1, AdapterAssumption DEF TurnRecords
<1>3. turn' = [turn EXCEPT ![t] = new] /\ op.phase = "ready" /\ disturbed' = disturbed
  BY DEF InSequence, At, TakeEvent
<1> HIDE DEF new
<1> QED
  BY <1>1, <1>2, <1>3, OneTurnChanges DEF AtHand

-----------------------------------------------------------------------------
(* Events that change their item                                           *)

LEMMA ItemStep ==
  ASSUME AdapterInv, NEW i \in Items, NEW new \in ItemRecords, item' = [item EXCEPT ![i] = new],
         \A j \in Items : ~AtHand(j), op' \in Ops, OpIsSound',
         UNCHANGED <<setup, quarantined, owned, failures, disk, answers, accepted, unapplied>>,
         turn' \in [Turns -> TurnRecords], disturbed' \subseteq Turns,
         \A t \in Turns : TurnIsSound(t)' /\ turn'[t].completed = turn[t].completed,
         approval' \in [Requests -> ApprovalRecords], asked' \in [Requests -> 0..MaxVersion],
         \A j \in Items : j # i /\ item[j].request # NoRequest =>
           /\ approval'[item[j].request] = approval[item[j].request]
           /\ asked'[item[j].request] = asked[item[j].request],
         ItemIsSound(i)', Tracked(i)', CompletionIsHandled(i)',
         \A q \in Requests : RequestIsSound(q)'
  PROVE  AdapterInv'
<1>1. UNCHANGED <<session, enforced, quarantined, owned, failures, journal, journalled, answers,
                  accepted, unapplied>>
  BY DEF setup, disk
<1>2. item' \in [Items -> ItemRecords] /\ \A j \in Items : j # i => item'[j] = item[j]
  BY InvParts DEF MemoryTypes
<1>3. TypeOK'
  BY <1>1, <1>2, InvParts, TypeOKPartsNext DEF Settings, MemoryTypes, DiskTypes, GhostTypes
<1>4. ASSUME NEW j \in Items, j # i PROVE ItemIsSound(j)' /\ ItemIsSettled(j)'
  <2>1. /\ ItemIsSound(j) /\ Tracked(j) /\ CompletionIsHandled(j)
        /\ item[j].request \in Requests \cup {NoRequest} /\ TurnOf[j] \in Turns
    BY InvParts, Types DEF ItemIsSettled
  <2>2. item'[j] = item[j]
    BY <1>2, <1>4
  <2>3. ItemIsSound(j)'
    BY <1>1, <1>4, <2>1, <2>2 DEF ItemIsSound
  <2>4. Tracked(j)' /\ CompletionIsHandled(j)'
    BY <1>1, <2>1, <2>2 DEF Tracked, CompletionIsHandled
  <2> QED
    BY <2>3, <2>4 DEF ItemIsSettled
<1>5. \A j \in Items : ItemIsSound(j)' /\ ItemIsSettled(j)'
  BY <1>4 DEF ItemIsSettled
<1>6. ASSUME NEW q \in Requests PROVE EntryIsTrue(q)'
  BY <1>1, InvParts DEF EntryIsTrue
<1> QED
  BY <1>3, <1>5, <1>6, Zenon DEF AdapterInv

\* A refused event leaves items and requests alone.
LEMMA RefuseEventKeepsInv ==
  ASSUME AdapterInv, NEW i \in Items, InSequence(i), RefuseEvent(i),
         UNCHANGED <<setup, quarantined, item, approval, owned, failures, disk, answers, accepted,
                     unapplied, asked>>
  PROVE  AdapterInv'
<1>1. turn[TurnOf[i]].completed \in SUBSET Items
  BY InvParts, Types
<1>2. approval' \in [Requests -> ApprovalRecords] /\ unapplied' \subseteq Requests
  BY InvParts DEF MemoryTypes, GhostTypes
<1> QED
  BY <1>1, <1>2, RefuseKeepsInv DEF RefuseEvent

\* Requests are as sound as they were when no item changed its request.
LEMMA RequestsStaySound ==
  ASSUME AdapterInv, UNCHANGED <<approval, answers>>,
         \A i \in Items : item'[i].request = item[i].request,
         \A t \in Turns : turn[t].blocked = TRUE => turn'[t].blocked = TRUE
  PROVE  \A q \in Requests : RequestIsSound(q)'
<1> TAKE q \in Requests
<1>1. RequestIsSound(q)
  BY InvParts
<1>2. approval[q].kind # "absent" =>
        /\ approval[q].item \in Items /\ TurnOf[approval[q].item] \in Turns
        /\ turn[TurnOf[approval[q].item]].blocked \in BOOLEAN
  BY <1>1, InvParts, Types DEF RequestIsSound
<1> QED
  BY <1>1, <1>2 DEF RequestIsSound

LEMMA ItemStartedKeepsInv ==
  ASSUME AdapterInv, NEW i \in Items, NEW canonical \in BOOLEAN, ItemStarted(i, canonical)
  PROVE  AdapterInv'
<1>1. /\ InSequence(i)
      /\ UNCHANGED <<setup, quarantined, approval, owned, failures, disk, answers, accepted,
                     unapplied, asked>>
  BY DEF ItemStarted
<1>2. CASE RefuseEvent(i) /\ UNCHANGED item
  BY <1>1, <1>2, RefuseEventKeepsInv
<1>3. CASE /\ item[i].state = "absent" /\ item' = [item EXCEPT ![i].state = "proposed"]
           /\ TakeEvent(i) /\ Return
  <2> DEFINE new == [item[i] EXCEPT !.state = "proposed"]
  <2>1. item' = [item EXCEPT ![i] = new]
    BY <1>3
  <2>2. /\ new \in ItemRecords /\ new.state = "proposed" /\ new.request = item[i].request
        /\ new.journaled = item[i].journaled /\ new.version = item[i].version
    BY InvParts, Types DEF ItemRecords, ItemStates
  <2> HIDE DEF new
  <2>3. item'[i] = new /\ \A j \in Items : j # i => item'[j] = item[j]
    BY <2>1, InvParts DEF MemoryTypes
  <2>4. /\ turn' \in [Turns -> TurnRecords] /\ turn'[TurnOf[i]].blocked = FALSE
        /\ turn'[TurnOf[i]].completed = turn[TurnOf[i]].completed
        /\ \A u \in Turns : u # TurnOf[i] => turn'[u] = turn[u]
        /\ \A u \in Turns : turn[u].blocked = TRUE => turn'[u].blocked = TRUE
        /\ \A u \in Turns : TurnIsSound(u)'
        /\ disturbed' \subseteq Turns /\ op.phase = "ready" /\ \A j \in Items : ~AtHand(j)
    BY <1>1, <1>3, TakeEventTurn
  <2>5. \A q \in Requests : RequestIsSound(q)'
    BY <1>1, <2>2, <2>3, <2>4, RequestsStaySound
  <2>6. ItemIsSound(i) /\ Tracked(i)' /\ CompletionIsHandled(i)'
    BY <2>2, <2>3, InvParts DEF Tracked, CompletionIsHandled
  <2>7. ItemIsSound(i)'
    BY <1>1, <1>3, <2>2, <2>3, <2>6 DEF ItemIsSound, disk
  <2>8. approval' \in [Requests -> ApprovalRecords] /\ asked' \in [Requests -> 0..MaxVersion]
    BY <1>1, InvParts DEF MemoryTypes, GhostTypes
  <2>9. op' \in Ops /\ OpIsSound'
    BY <1>3, IdleIsSound DEF Return
  <2> QED
    BY <1>1, <2>1, <2>2, <2>4, <2>5, <2>6, <2>7, <2>8, <2>9, ItemStep
<1> QED
  BY <1>2, <1>3 DEF ItemStarted

LEMMA ItemUpdatedKeepsInv ==
  ASSUME AdapterInv, NEW i \in Items, NEW canonical \in BOOLEAN, ItemUpdated(i, canonical)
  PROVE  AdapterInv'
<1>1. /\ InSequence(i)
      /\ UNCHANGED <<setup, quarantined, approval, owned, failures, disk, answers, accepted,
                     unapplied, asked>>
  BY DEF ItemUpdated
<1>2. CASE RefuseEvent(i) /\ UNCHANGED item
  BY <1>1, <1>2, RefuseEventKeepsInv
<1>3. CASE /\ Updatable(i) /\ item[i].version < MaxVersion
           /\ item' = [item EXCEPT ![i].version = @ + 1] /\ TakeEvent(i) /\ Return
  <2>0. PICK n \in 0..MaxVersion : n = item[i].version + 1
    <3>1. item[i].version \in 0..MaxVersion
      BY InvParts, Types
    <3> QED
      BY <1>3, <3>1, AdapterAssumption
  <2> DEFINE new == [item[i] EXCEPT !.version = n]
  <2>1. item' = [item EXCEPT ![i] = new]
    BY <1>3, <2>0
  <2>2. /\ new \in ItemRecords /\ new.state = "proposed" /\ new.request = NoRequest
        /\ item[i].request = NoRequest /\ item[i].state = "proposed"
        /\ new.journaled = item[i].journaled
    BY <1>3, InvParts, Types DEF ItemRecords, ItemStates, Updatable
  <2> HIDE DEF new
  <2>3. item'[i] = new /\ \A j \in Items : j # i => item'[j] = item[j]
    BY <2>1, InvParts DEF MemoryTypes
  <2>4. /\ turn' \in [Turns -> TurnRecords] /\ turn'[TurnOf[i]].blocked = FALSE
        /\ turn'[TurnOf[i]].completed = turn[TurnOf[i]].completed
        /\ \A u \in Turns : u # TurnOf[i] => turn'[u] = turn[u]
        /\ \A u \in Turns : turn[u].blocked = TRUE => turn'[u].blocked = TRUE
        /\ \A u \in Turns : TurnIsSound(u)'
        /\ disturbed' \subseteq Turns /\ op.phase = "ready" /\ \A j \in Items : ~AtHand(j)
    BY <1>1, <1>3, TakeEventTurn
  <2>5. \A q \in Requests : RequestIsSound(q)'
    BY <1>1, <2>2, <2>3, <2>4, RequestsStaySound
  <2>6. ItemIsSound(i) /\ Tracked(i)' /\ CompletionIsHandled(i)'
    BY <2>2, <2>3, InvParts DEF Tracked, CompletionIsHandled
  <2>7. ItemIsSound(i)'
    BY <1>1, <1>3, <2>2, <2>3, <2>6 DEF ItemIsSound, disk
  <2>8. approval' \in [Requests -> ApprovalRecords] /\ asked' \in [Requests -> 0..MaxVersion]
    BY <1>1, InvParts DEF MemoryTypes, GhostTypes
  <2>9. op' \in Ops /\ OpIsSound'
    BY <1>3, IdleIsSound DEF Return
  <2> QED
    BY <1>1, <2>1, <2>2, <2>4, <2>5, <2>6, <2>7, <2>8, <2>9, ItemStep
<1> QED
  BY <1>2, <1>3 DEF ItemUpdated

-----------------------------------------------------------------------------
(* approval_requested                                                      *)

\* A new request is noted: no item has it yet, and nothing was answered to it.
Requested(q, i, kind) ==
  /\ approval' \in [Requests -> ApprovalRecords] /\ asked' \in [Requests -> 0..MaxVersion]
  /\ approval'[q].kind = kind /\ approval'[q].item = i /\ approval'[q].resolved = FALSE
  /\ approval'[q].delivery = "pending" /\ asked'[q] = item[i].version
  /\ \A r \in Requests : r # q => approval'[r] = approval[r] /\ asked'[r] = asked[r]
  /\ answers[q] = <<>>
  /\ \A j \in Items : item[j].request # q

LEMMA NewRequest ==
  ASSUME AdapterInv, NEW q \in Requests, NEW i \in Items, NEW kind \in {"file_change", "other"},
         approval[q].kind = "absent",
         approval' = [approval EXCEPT ![q] = NewApproval(q, i, kind)],
         asked' = [asked EXCEPT ![q] = item[i].version]
  PROVE  Requested(q, i, kind)
<1> DEFINE new == NewApproval(q, i, kind)
<1>1. /\ new \in ApprovalRecords /\ new.kind = kind /\ new.item = i /\ new.resolved = FALSE
      /\ new.delivery = "pending"
  BY DEF NewApproval, NoApproval, ApprovalRecords
<1> HIDE DEF new
<1>2. approval' = [approval EXCEPT ![q] = new]
  BY DEF new
<1>3. item[i].version \in 0..MaxVersion
  BY InvParts, Types
<1>4. approval \in [Requests -> ApprovalRecords] /\ asked \in [Requests -> 0..MaxVersion]
  BY InvParts DEF MemoryTypes, GhostTypes
<1>5. answers[q] = <<>>
  BY InvParts DEF RequestIsSound
<1>6. ASSUME NEW j \in Items, item[j].request = q PROVE FALSE
  <2>1. ItemIsSound(j) /\ q # NoRequest
    BY InvParts, Types
  <2> QED
    BY <1>6, <2>1 DEF ItemIsSound
<1> QED
  BY <1>1, <1>2, <1>3, <1>4, <1>5, <1>6 DEF Requested

\* The item is given the request, or stays as it was.
HasRequest(q, i, kind, new) ==
  \/ new = item[i] /\ (kind = "file_change" => turn'[TurnOf[i]].blocked = TRUE)
  \/ /\ kind = "file_change" /\ item[i].request = NoRequest /\ new.request = q
     /\ new.state = item[i].state \/ item[i].state = "proposed"
     /\ i \notin turn[TurnOf[i]].completed

\* The frame of approval_requested.
LEMMA RequestStep ==
  ASSUME AdapterInv, NEW q \in Requests, NEW i \in Items, NEW kind \in {"file_change", "other"},
         Requested(q, i, kind), turn[TurnOf[i]].blocked = FALSE,
         UNCHANGED <<setup, quarantined, owned, failures, disk, answers, accepted, unapplied>>,
         \A j \in Items : ~AtHand(j), op' \in Ops, OpIsSound',
         turn' \in [Turns -> TurnRecords], disturbed' \subseteq Turns,
         \A t \in Turns : TurnIsSound(t)' /\ turn'[t].completed = turn[t].completed,
         \A t \in Turns : turn[t].blocked = TRUE => turn'[t].blocked = TRUE,
         NEW new \in ItemRecords, item' = [item EXCEPT ![i] = new],
         new.journaled = item[i].journaled, new.version = item[i].version,
         HasRequest(q, i, kind, new)
  PROVE  AdapterInv'
<1>0. \/ new = item[i] /\ (kind = "file_change" => turn'[TurnOf[i]].blocked = TRUE)
      \/ /\ kind = "file_change" /\ item[i].request = NoRequest /\ new.request = q
         /\ new.state = item[i].state \/ item[i].state = "proposed"
         /\ i \notin turn[TurnOf[i]].completed
  BY DEF HasRequest
<1>1. /\ approval' \in [Requests -> ApprovalRecords] /\ asked' \in [Requests -> 0..MaxVersion]
      /\ approval'[q].kind = kind /\ approval'[q].item = i /\ approval'[q].resolved = FALSE
      /\ approval'[q].delivery = "pending" /\ asked'[q] = item[i].version
      /\ \A r \in Requests : r # q => approval'[r] = approval[r] /\ asked'[r] = asked[r]
      /\ answers[q] = <<>>
      /\ \A j \in Items : item[j].request # q
  BY DEF Requested
<1>2. item'[i] = new /\ \A j \in Items : j # i => item'[j] = item[j]
  BY InvParts DEF MemoryTypes
<1>3. \A j \in Items : item[j].request \in Requests \cup {NoRequest} /\ TurnOf[j] \in Turns
  BY InvParts, Types
<1>4. UNCHANGED <<enforced, failures, journal, journalled, answers>>
  BY DEF setup, disk
<1>5. ItemIsSound(i) /\ Tracked(i) /\ CompletionIsHandled(i)
  BY InvParts DEF ItemIsSettled
<1>6. ItemIsSound(i)'
  BY <1>0, <1>1, <1>2, <1>3, <1>4, <1>5 DEF ItemIsSound
<1>7. Tracked(i)'
  BY <1>0, <1>2, <1>4, <1>5 DEF ItemIsSound, Tracked
<1>8. CompletionIsHandled(i)'
  BY <1>0, <1>2, <1>3, <1>4, <1>5 DEF CompletionIsHandled
<1>9. ASSUME NEW r \in Requests PROVE RequestIsSound(r)'
  <2>1. CASE r = q
    <3>1. Len(<<>>) = 0
      OBVIOUS
    <3>2. kind = "file_change" /\ turn'[TurnOf[i]].blocked = FALSE => item'[i].request = q
      BY <1>0, <1>2
    <3> QED
      BY <1>1, <1>4, <2>1, <3>1, <3>2 DEF RequestIsSound
  <2>2. CASE r # q
    <3>1. RequestIsSound(r) /\ approval'[r] = approval[r]
      BY <1>1, <2>2, InvParts
    <3>2. approval[r].kind # "absent" =>
            /\ approval[r].item \in Items /\ TurnOf[approval[r].item] \in Turns
            /\ turn[TurnOf[approval[r].item]].blocked \in BOOLEAN
      BY <3>1, InvParts, Types DEF RequestIsSound
    <3>3. approval[r].kind = "file_change" /\ approval[r].item = i => item[i].request = r
      BY <3>1 DEF RequestIsSound
    <3> QED
      BY <1>0, <1>2, <1>3, <1>4, <3>1, <3>2, <3>3, AdapterAssumption DEF RequestIsSound
  <2> QED
    BY <2>1, <2>2
<1>10. \A j \in Items : j # i /\ item[j].request # NoRequest =>
           /\ approval'[item[j].request] = approval[item[j].request]
           /\ asked'[item[j].request] = asked[item[j].request]
  BY <1>1, <1>3
<1> QED
  BY <1>1, <1>6, <1>7, <1>8, <1>9, <1>10, ItemStep

\* What every verdict starts from.
LEMMA RequestedInTurn ==
  ASSUME AdapterInv, NEW i \in Items, InSequence(i)
  PROVE  /\ op.phase = "ready" /\ quarantined = FALSE /\ turn[TurnOf[i]].blocked = FALSE
         /\ \A r \in Requests : r \notin owned => journal[r] \notin UnresolvedStates
         /\ item[i] \in ItemRecords /\ \A j \in Items : ~AtHand(j)
<1>1. op.phase = "ready" /\ ~turn[TurnOf[i]].blocked
  BY DEF InSequence, At
<1>2. turn[TurnOf[i]].blocked \in BOOLEAN /\ item[i] \in ItemRecords
  BY InvParts, Types
<1> QED
  BY <1>1, <1>2, InvParts DEF OpIsSound, AtHand

\* Nobody looks at the item.
LEMMA UntouchedRequestKeepsInv ==
  ASSUME AdapterInv, NEW q \in Requests, NEW i \in Items, NEW kind \in {"file_change", "other"},
         InSequence(i), approval[q].kind = "absent",
         approval' = [approval EXCEPT ![q] = NewApproval(q, i, kind)],
         asked' = [asked EXCEPT ![q] = item[i].version],
         UNCHANGED <<setup, quarantined, owned, failures, disk, answers, accepted, unapplied, item>>,
         \/ kind = "other" /\ TakeEvent(i) /\ Return
         \/ RefuseEventWith(i, turn[TurnOf[i]].completed, "decline", q)
  PROVE  AdapterInv'
<1>1. /\ op.phase = "ready" /\ turn[TurnOf[i]].blocked = FALSE /\ item[i] \in ItemRecords
      /\ \A j \in Items : ~AtHand(j)
  BY RequestedInTurn
<1>2. item' = [item EXCEPT ![i] = item[i]] /\ Requested(q, i, kind)
  BY InvParts, NewRequest DEF MemoryTypes
<1>3. CASE kind = "other" /\ TakeEvent(i) /\ Return
  <2>1. /\ turn' \in [Turns -> TurnRecords]
        /\ turn'[TurnOf[i]].completed = turn[TurnOf[i]].completed
        /\ \A u \in Turns : u # TurnOf[i] => turn'[u] = turn[u]
        /\ \A u \in Turns : turn[u].blocked = TRUE => turn'[u].blocked = TRUE
        /\ \A u \in Turns : TurnIsSound(u)'
        /\ disturbed' \subseteq Turns
    BY <1>3, TakeEventTurn
  <2>2. op' \in Ops /\ OpIsSound'
    BY <1>3, IdleIsSound DEF Return
  <2>3. \A t \in Turns : TurnIsSound(t)' /\ turn'[t].completed = turn[t].completed
    BY <2>1
  <2>4. HasRequest(q, i, kind, item[i])
    BY <1>3 DEF HasRequest
  <2> QED
    BY <1>1, <1>2, <2>1, <2>2, <2>3, <2>4, RequestStep
<1>4. CASE RefuseEventWith(i, turn[TurnOf[i]].completed, "decline", q)
  <2>0. turn[TurnOf[i]].completed \in SUBSET Items
    BY InvParts, Types
  <2>1. /\ turn' \in [Turns -> TurnRecords] /\ turn'[TurnOf[i]].blocked = TRUE
        /\ turn'[TurnOf[i]].completed = turn[TurnOf[i]].completed
        /\ \A u \in Turns : u # TurnOf[i] => turn'[u] = turn[u]
        /\ \A u \in Turns : turn[u].blocked = TRUE => turn'[u].blocked = TRUE
        /\ \A u \in Turns : TurnIsSound(u)'
        /\ disturbed' \subseteq Turns
    BY <1>4, <2>0, RefusedTurn
  <2> DEFINE is == ItemsOf(TurnOf[i])
             o == [phase |-> "mark", i |-> NoItem, q |-> q, marks |-> is, next |-> "decline"]
  <2>2. op' = o /\ is \subseteq Items
    BY <1>4 DEF RefuseEventWith, MarkThen, ItemsOf
  <2> HIDE DEF is
  <2>3. o \in Ops /\ o.phase = "mark" /\ o.q = q
    BY <2>2 DEF Ops, Phases
  <2> HIDE DEF o
  <2>4. /\ approval'[q].kind = kind /\ approval'[q].resolved = FALSE
        /\ approval'[q].delivery = "pending"
    BY <1>2 DEF Requested
  <2>5. OpIsSound'
    BY <2>2, <2>3, <2>4 DEF OpIsSound, Answering, Governing
  <2>6. \A t \in Turns : TurnIsSound(t)' /\ turn'[t].completed = turn[t].completed
    BY <2>1
  <2>7. HasRequest(q, i, kind, item[i])
    BY <2>1 DEF HasRequest
  <2>8. op' \in Ops
    BY <2>2, <2>3
  <2> QED
    BY <1>1, <1>2, <2>1, <2>5, <2>6, <2>7, <2>8, RequestStep
<1> QED
  BY <1>3, <1>4

\* The item gets the request, and the call returns, declines or goes on to
\* accept what policy approved.
LEMMA GivenRequestKeepsInv ==
  ASSUME AdapterInv, NEW q \in Requests, NEW i \in Items,
         InSequence(i), approval[q].kind = "absent", Correlates(i), TakeEvent(i),
         approval' = [approval EXCEPT ![q] = NewApproval(q, i, "file_change")],
         asked' = [asked EXCEPT ![q] = item[i].version],
         UNCHANGED <<setup, quarantined, owned, failures, disk, answers, accepted, unapplied>>,
         NEW s \in ItemStates, s = item[i].state \/ item[i].state = "proposed",
         item' = [item EXCEPT ![i] = [item[i] EXCEPT !.request = q, !.state = s]],
         \/ Return
         \/ \E phase \in {"decline", "put"} :
              /\ op' = [Idle EXCEPT !.phase = phase, !.i = i, !.q = q]
              /\ phase = "put" => enforced = TRUE /\ s = "auto_approved"
  PROVE  AdapterInv'
<1> DEFINE new == [item[i] EXCEPT !.request = q, !.state = s]
<1>1. /\ op.phase = "ready" /\ quarantined = FALSE /\ turn[TurnOf[i]].blocked = FALSE
      /\ \A r \in Requests : r \notin owned => journal[r] \notin UnresolvedStates
      /\ item[i] \in ItemRecords /\ \A j \in Items : ~AtHand(j)
  BY RequestedInTurn
<1>2. item' = [item EXCEPT ![i] = new]
  OBVIOUS
<1>3. /\ new \in ItemRecords /\ new.request = q /\ new.state = s
      /\ new.journaled = item[i].journaled /\ new.version = item[i].version
  BY <1>1 DEF ItemRecords
<1> HIDE DEF new
<1>4. item'[i] = new
  BY <1>2, InvParts DEF MemoryTypes
<1>5. /\ turn' \in [Turns -> TurnRecords] /\ turn'[TurnOf[i]].blocked = FALSE
      /\ turn'[TurnOf[i]].completed = turn[TurnOf[i]].completed
      /\ \A u \in Turns : u # TurnOf[i] => turn'[u] = turn[u]
      /\ \A u \in Turns : turn[u].blocked = TRUE => turn'[u].blocked = TRUE
      /\ \A u \in Turns : TurnIsSound(u)'
      /\ disturbed' \subseteq Turns
  BY TakeEventTurn
<1>6. \A t \in Turns : TurnIsSound(t)' /\ turn'[t].completed = turn[t].completed
  BY <1>5
<1>7. /\ approval'[q].kind = "file_change" /\ approval'[q].resolved = FALSE
      /\ approval'[q].delivery = "pending" /\ approval'[q].item = i
      /\ Requested(q, i, "file_change")
  BY NewRequest DEF Requested
<1>8. OpIsSound' /\ op' \in Ops
  <2>1. CASE Return
    BY <2>1, IdleIsSound DEF Return
  <2>2. CASE ~Return
    <3>1. PICK phase \in {"decline", "put"} :
              /\ op' = [Idle EXCEPT !.phase = phase, !.i = i, !.q = q]
              /\ phase = "put" => enforced = TRUE /\ s = "auto_approved"
      BY <2>2
    <3> DEFINE o == [Idle EXCEPT !.phase = phase, !.i = i, !.q = q]
    <3>2. o \in Ops /\ o.phase = phase /\ o.i = i /\ o.q = q
      BY DEF Idle, Ops, Phases
    <3> HIDE DEF o
    <3>3. op' = o /\ i \notin turn[TurnOf[i]].completed
      BY <3>1 DEF o, Correlates
    <3> QED
      BY <1>1, <1>3, <1>4, <1>5, <1>7, <3>1, <3>2, <3>3
         DEF OpIsSound, Answering, Governing, setup, disk
  <2> QED
    BY <2>1, <2>2
<1>9. item[i].request = NoRequest /\ i \notin turn[TurnOf[i]].completed
  BY DEF Correlates
<1>10. HasRequest(q, i, "file_change", new)
  BY <1>3, <1>9 DEF HasRequest
<1>11. "file_change" \in {"file_change", "other"}
  OBVIOUS
<1> QED
  BY <1>1, <1>2, <1>3, <1>5, <1>6, <1>7, <1>8, <1>10, <1>11, RequestStep

LEMMA ApprovalRequestedKeepsInv ==
  ASSUME AdapterInv, NEW q \in Requests, NEW i \in Items, NEW kind \in {"file_change", "other"},
         NEW verdict \in Verdicts, ApprovalRequested(q, i, kind, verdict)
  PROVE  AdapterInv'
<1>1. /\ InSequence(i) /\ approval[q].kind = "absent"
      /\ approval' = [approval EXCEPT ![q] = NewApproval(q, i, kind)]
      /\ asked' = [asked EXCEPT ![q] = item[i].version]
      /\ UNCHANGED <<setup, quarantined, owned, failures, disk, answers, accepted, unapplied>>
  BY DEF ApprovalRequested
<1>2. CASE \/ kind = "other" /\ TakeEvent(i) /\ Return /\ UNCHANGED item
           \/ RefuseEventWith(i, turn[TurnOf[i]].completed, "decline", q) /\ UNCHANGED item
  BY <1>1, <1>2, UntouchedRequestKeepsInv
<1>3. CASE kind = "file_change" /\ Correlates(i) /\ TakeEvent(i)
           /\ \/ /\ item' = [item EXCEPT ![i].request = q]
                 /\ Return \/ op' = [Idle EXCEPT !.phase = "decline", !.i = i, !.q = q]
              \/ /\ item[i].state = "proposed"
                 /\ item' = [item EXCEPT ![i].request = q, ![i].state = "awaiting_approval"]
                 /\ Return
              \/ /\ verdict = "auto" /\ item[i].state = "proposed"
                 /\ item' = [item EXCEPT ![i].request = q, ![i].state = "auto_approved"]
                 /\ op' = [Idle EXCEPT !.phase = "put", !.i = i, !.q = q]
  <2>1. verdict = "auto" => enforced = TRUE
    BY InvParts, Types DEF Verdicts
  <2>2. item[i] \in ItemRecords /\ item[i].state \in ItemStates
        /\ item \in [Items -> ItemRecords]
    BY InvParts, Types DEF MemoryTypes
  <2>3. PICK s \in ItemStates :
          /\ s = item[i].state \/ item[i].state = "proposed"
          /\ item' = [item EXCEPT ![i].request = q, ![i].state = s]
          /\ \/ Return
             \/ \E phase \in {"decline", "put"} :
                  /\ op' = [Idle EXCEPT !.phase = phase, !.i = i, !.q = q]
                  /\ phase = "put" => verdict = "auto" /\ s = "auto_approved"
    <3>1. CASE /\ item' = [item EXCEPT ![i].request = q]
               /\ Return \/ op' = [Idle EXCEPT !.phase = "decline", !.i = i, !.q = q]
      <4>1. item' = [item EXCEPT ![i].request = q, ![i].state = item[i].state]
        BY <2>2, <3>1 DEF ItemRecords
      <4> QED
        BY <2>2, <3>1, <4>1
    <3>2. CASE /\ item[i].state = "proposed"
               /\ item' = [item EXCEPT ![i].request = q, ![i].state = "awaiting_approval"]
               /\ Return
      BY <3>2 DEF ItemStates
    <3>3. CASE /\ verdict = "auto" /\ item[i].state = "proposed"
               /\ item' = [item EXCEPT ![i].request = q, ![i].state = "auto_approved"]
               /\ op' = [Idle EXCEPT !.phase = "put", !.i = i, !.q = q]
      BY <3>3 DEF ItemStates
    <3> QED
      BY <1>3, <3>1, <3>2, <3>3
  <2>4. item' = [item EXCEPT ![i] = [item[i] EXCEPT !.request = q, !.state = s]]
    BY <2>2, <2>3
  <2>5. \/ Return
        \/ \E phase \in {"decline", "put"} :
             /\ op' = [Idle EXCEPT !.phase = phase, !.i = i, !.q = q]
             /\ phase = "put" => enforced = TRUE /\ s = "auto_approved"
    BY <2>1, <2>3
  <2> QED
    BY <1>1, <1>3, <2>3, <2>4, <2>5, GivenRequestKeepsInv, ZenonT(30)
<1> QED
  BY <1>2, <1>3 DEF ApprovalRequested

-----------------------------------------------------------------------------
(* request_resolved and item_completed                                     *)

LEMMA RequestResolvedKeepsInv ==
  ASSUME AdapterInv, NEW q \in Requests, NEW i \in Items,
         NEW resolution \in {"accept", "decline", "cancelled"}, RequestResolved(q, i, resolution)
  PROVE  AdapterInv'
<1>1. /\ InSequence(i)
      /\ (TakeEvent(i) /\ Return) \/ RefuseEvent(i)
      /\ UNCHANGED <<setup, quarantined, item, owned, failures, disk, answers, accepted, unapplied,
                     asked>>
  BY DEF RequestResolved
<1>2. PICK w \in BOOLEAN : approval' = [approval EXCEPT ![q].resolved = w]
  <2>1. PICK c \in BOOLEAN : c = (approval[q].kind # "absent" /\ approval[q].item = i)
    OBVIOUS
  <2>2. PICK w \in BOOLEAN : w = (approval[q].resolved \/ c)
    OBVIOUS
  <2>3. approval' = [approval EXCEPT ![q].resolved = w]
    BY <2>1, <2>2, Zenon DEF RequestResolved
  <2> QED
    BY <2>3
<1> DEFINE new == [approval[q] EXCEPT !.resolved = w]
<1>3. approval' = [approval EXCEPT ![q] = new]
  BY <1>2
<1>4. /\ new \in ApprovalRecords /\ new.kind = approval[q].kind /\ new.item = approval[q].item
      /\ new.delivery = approval[q].delivery
  BY InvParts, Types DEF ApprovalRecords
<1> HIDE DEF new
<1>5. /\ approval' \in [Requests -> ApprovalRecords]
      /\ \A r \in Requests : /\ approval'[r].kind = approval[r].kind
                             /\ approval'[r].item = approval[r].item
                             /\ approval'[r].delivery = approval[r].delivery
  BY <1>3, <1>4, InvParts DEF MemoryTypes
<1>6. unapplied \subseteq unapplied' /\ unapplied' \subseteq Requests /\ quarantined' \in BOOLEAN
  BY <1>1, InvParts DEF GhostTypes, Settings
<1>7. CASE TakeEvent(i) /\ Return
  <2>1. /\ turn' \in [Turns -> TurnRecords]
        /\ turn'[TurnOf[i]].completed = turn[TurnOf[i]].completed
        /\ \A u \in Turns : u # TurnOf[i] => turn'[u] = turn[u]
        /\ \A u \in Turns : turn[u].blocked = TRUE => turn'[u].blocked = TRUE
        /\ \A u \in Turns : TurnIsSound(u)'
        /\ disturbed' \subseteq Turns /\ \A j \in Items : ~AtHand(j)
    BY <1>1, <1>7, TakeEventTurn
  <2>2. op' \in Ops /\ OpIsSound'
    BY <1>7, IdleIsSound DEF Return
  <2>3. \A j \in Items : j \in turn'[TurnOf[j]].completed => j \in turn[TurnOf[j]].completed
    BY <2>1, InvParts, Types
  <2> QED
    BY <1>1, <1>5, <1>6, <2>1, <2>2, <2>3, TurnStep
<1>8. CASE RefuseEvent(i)
  <2>1. turn[TurnOf[i]].completed \in SUBSET Items
    BY InvParts, Types
  <2> QED
    BY <1>1, <1>5, <1>6, <1>8, <2>1, RefuseKeepsInv DEF RefuseEvent
<1> QED
  BY <1>1, <1>7, <1>8

\* What the handler of item_completed goes on to: to write that the change was
\* not applied, to mark the item, or, for a change accepted under governance
\* or in a session that only observes, to verify it or return.
LEMMA CompletionOp ==
  ASSUME AdapterInv, NEW i \in Items, NEW outcome \in {"applied", "not_applied", "unknown"},
         UNCHANGED <<setup, item>>,
         unapplied' = IF outcome = "not_applied" /\ item[i].request # NoRequest
                      THEN unapplied \cup {item[i].request} ELSE unapplied,
         \/ /\ outcome = "not_applied"
            /\ op' = [Idle EXCEPT !.phase = "unapply", !.i = i, !.q = item[i].request]
         \/ MarkThen({i}, "idle", NoItem, NoRequest)
         \/ ~enforced /\ Return
         \/ /\ Governed(i)
            /\ op' = [Idle EXCEPT !.phase = "verify", !.i = i, !.q = item[i].request]
  PROVE  /\ op' \in Ops /\ OpIsSound'
         /\ AtHand(i)' \/ enforced = FALSE \/ item[i].state # "awaiting_approval"
<1>1. item[i].request \in Requests \cup {NoRequest} /\ enforced \in BOOLEAN
  BY InvParts, Types
<1>2. CASE MarkThen({i}, "idle", NoItem, NoRequest)
  BY <1>2, MarkThenIsSound
<1>3. CASE ~enforced /\ Return
  BY <1>1, <1>3, IdleIsSound DEF Return
<1>4. ASSUME NEW phase \in {"verify", "unapply"},
             op' = [Idle EXCEPT !.phase = phase, !.i = i, !.q = item[i].request],
             phase = "unapply" => outcome = "not_applied"
      PROVE  op' \in Ops /\ OpIsSound' /\ (phase = "unapply" => AtHand(i)')
  <2> DEFINE o == [Idle EXCEPT !.phase = phase, !.i = i, !.q = item[i].request]
  <2>1. o \in Ops /\ o.phase = phase /\ o.i = i
    BY <1>1 DEF Idle, Ops, Phases
  <2> HIDE DEF o
  <2>2. op' = o
    BY <1>4 DEF o
  <2>3. phase = "unapply" /\ item[i].request # NoRequest => item[i].request \in unapplied'
    BY <1>4
  <2> QED
    BY <2>1, <2>2, <2>3 DEF OpIsSound, Answering, Governing, AtHand
<1>5. CASE /\ outcome = "not_applied"
           /\ op' = [Idle EXCEPT !.phase = "unapply", !.i = i, !.q = item[i].request]
  BY <1>4, <1>5
<1>6. CASE /\ Governed(i)
           /\ op' = [Idle EXCEPT !.phase = "verify", !.i = i, !.q = item[i].request]
  BY <1>4, <1>6 DEF Governed
<1> QED
  BY <1>2, <1>3, <1>5, <1>6

LEMMA ItemCompletedKeepsInv ==
  ASSUME AdapterInv, NEW i \in Items, NEW outcome \in {"applied", "not_applied", "unknown"},
         ItemCompleted(i, outcome)
  PROVE  AdapterInv'
<1> DEFINE t == TurnOf[i]
           completed == turn[t].completed \cup {i}
<1>1. /\ InSequence(i)
      /\ unapplied' = IF outcome = "not_applied" /\ item[i].request # NoRequest
                      THEN unapplied \cup {item[i].request} ELSE unapplied
      /\ UNCHANGED <<setup, quarantined, item, approval, owned, failures, disk, answers, accepted, asked>>
  BY DEF ItemCompleted
<1>2. completed \in SUBSET Items /\ item[i].request \in Requests \cup {NoRequest}
  BY InvParts, Types
<1>3. /\ approval' \in [Requests -> ApprovalRecords] /\ quarantined' \in BOOLEAN
      /\ unapplied \subseteq unapplied' /\ unapplied' \subseteq Requests
  BY <1>1, <1>2, InvParts DEF MemoryTypes, Settings, GhostTypes
<1>4. CASE /\ ~FirstCompletion(i) \/ item[i].state = "absent"
           /\ RefuseEventWith(i, completed, "idle", NoRequest)
  BY <1>1, <1>2, <1>3, <1>4, RefuseKeepsInv DEF FirstCompletion
<1>5. CASE /\ turn' = [turn EXCEPT ![t].lastSequence = @ + 1, ![t].completed = completed]
           /\ disturbed' = disturbed
           /\ \/ /\ outcome = "not_applied"
                 /\ op' = [Idle EXCEPT !.phase = "unapply", !.i = i, !.q = item[i].request]
              \/ MarkThen({i}, "idle", NoItem, NoRequest)
              \/ ~enforced /\ Return
              \/ /\ Governed(i)
                 /\ op' = [Idle EXCEPT !.phase = "verify", !.i = i, !.q = item[i].request]
  <2>1. /\ turn' \in [Turns -> TurnRecords] /\ turn'[t].completed = completed
        /\ \A u \in Turns : u # t => turn'[u] = turn[u]
        /\ \A u \in Turns : turn[u].blocked = TRUE => turn'[u].blocked = TRUE
        /\ \A u \in Turns : TurnIsSound(u)'
        /\ disturbed' \subseteq Turns /\ \A j \in Items : ~AtHand(j)
    BY <1>1, <1>2, <1>5, TakenTurn
  <2>2. /\ op' \in Ops /\ OpIsSound'
        /\ AtHand(i)' \/ enforced = FALSE \/ item[i].state # "awaiting_approval"
    BY <1>1, <1>5, CompletionOp
  <2>3. \A j \in Items : \/ AtHand(j)' \/ item[j].state # "awaiting_approval" \/ enforced = FALSE
                         \/ j \in turn'[TurnOf[j]].completed => j \in turn[TurnOf[j]].completed
    BY <2>1, <2>2, InvParts, Types
  <2> QED
    BY <1>1, <1>3, <2>1, <2>2, <2>3, TurnStep
<1> QED
  BY <1>4, <1>5 DEF ItemCompleted

-----------------------------------------------------------------------------
(* Steps that write to the journal                                         *)

\* updateJournalState has three outcomes.
LEMMA JournalOutcomes ==
  ASSUME AdapterInv, NEW i \in Items, NEW to \in JournalStates, NEW done \in BOOLEAN,
         UpdateJournalState(i, to, done)
  PROVE  \/ item[i].journaled = FALSE /\ done = TRUE /\ journal' = journal
         \/ /\ item[i].journaled = TRUE /\ item[i].request \in Requests
            /\ LegalUpdate(journal[item[i].request], to)
            /\ journal' = [journal EXCEPT ![item[i].request] = to]
         \/ item[i].journaled = TRUE /\ done = FALSE /\ journal' = journal
<1>1. /\ item[i].journaled \in BOOLEAN /\ item[i].request \in Requests \cup {NoRequest}
      /\ ItemIsSound(i)
  BY InvParts, Types
<1> QED
  BY <1>1 DEF UpdateJournalState, ItemIsSound

\* No two items have the same request.
LEMMA RequestsAreDistinct ==
  ASSUME AdapterInv, NEW i \in Items, NEW j \in Items, i # j, item[i].request # NoRequest
  PROVE  item[i].request # item[j].request
<1> SUFFICES ASSUME item[i].request = item[j].request PROVE FALSE
  OBVIOUS
<1>1. ItemIsSound(i) /\ ItemIsSound(j)
  BY InvParts
<1> QED
  BY <1>1 DEF ItemIsSound

\* A legal step of an entry keeps it true if a new claim is.
LEMMA EntryStep ==
  ASSUME AdapterInv, NEW q \in Requests, NEW to \in JournalStates, LegalUpdate(journal[q], to),
         journal[q] # "none", to = "blocked" => q \notin accepted \/ q \in unapplied,
         to = "accepted" => q \in accepted, journal'[q] = to, UNCHANGED <<accepted, unapplied>>
  PROVE  EntryIsTrue(q)'
<1>1. EntryIsTrue(q) /\ journal[q] \in JournalStates
  BY InvParts, Types
<1>2. to \in {"retained", "post_checked"} => q \in accepted
  BY <1>1 DEF EntryIsTrue, LegalUpdate, JournalSuccessors, JournalStates
<1> QED
  BY <1>1, <1>2 DEF EntryIsTrue, JournalStates, UnresolvedStates

LEMMA JournalStep ==
  ASSUME AdapterInv, NEW i \in Items, NEW to \in JournalStates, NEW done \in BOOLEAN,
         UpdateJournalState(i, to, done),
         UNCHANGED <<setup, quarantined, turn, approval, owned, journalled, ghosts>>,
         item' \in [Items -> ItemRecords], \A j \in Items : j # i => item'[j] = item[j],
         /\ item'[i].request = item[i].request /\ item'[i].journaled = item[i].journaled
         /\ item'[i].version = item[i].version,
         failures' \subseteq Items, \A j \in Items : j # i => (j \in failures' <=> j \in failures),
         i \in failures' => item'[i].state = "reconciliation_required",
         op' \in Ops, OpIsSound',
         to = "blocked" => item[i].request \notin accepted \/ item[i].request \in unapplied,
         to = "accepted" => item[i].request \in accepted,
         AtHand(i)' \/ (Tracked(i)' /\ CompletionIsHandled(i)'),
         \A j \in Items : j # i /\ AtHand(j) => AtHand(j)'
  PROVE  AdapterInv'
<1>1. UNCHANGED <<session, enforced, quarantined, turn, approval, owned, journalled, answers,
                  accepted, unapplied, asked, disturbed>>
  BY DEF setup, ghosts
<1>2. \/ journal' = journal
      \/ /\ item[i].journaled = TRUE /\ item[i].request \in Requests
         /\ LegalUpdate(journal[item[i].request], to)
         /\ journal' = [journal EXCEPT ![item[i].request] = to]
  BY JournalOutcomes
<1>3. /\ journal' \in [Requests -> JournalStates \cup {"none"}]
      /\ \A q \in Requests : \/ journal'[q] = journal[q]
                             \/ /\ item[i].journaled = TRUE /\ q = item[i].request
                                /\ LegalUpdate(journal[q], to) /\ journal'[q] = to
  BY <1>2, InvParts DEF DiskTypes
<1>4. TypeOK'
  BY <1>1, <1>3, InvParts, TypeOKPartsNext DEF Settings, MemoryTypes, DiskTypes, GhostTypes
<1>5. ASSUME NEW q \in Requests PROVE EntryIsTrue(q)'
  <2>1. CASE journal'[q] = journal[q]
    BY <1>1, <2>1, InvParts DEF EntryIsTrue
  <2>2. CASE journal'[q] # journal[q]
    <3>1. /\ item[i].journaled = TRUE /\ q = item[i].request
          /\ LegalUpdate(journal[q], to) /\ journal'[q] = to
      BY <1>3, <2>2
    <3>2. journal[q] # "none"
      BY <3>1, InvParts DEF ItemIsSound
    <3> QED
      BY <1>1, <3>1, <3>2, EntryStep
  <2> QED
    BY <2>1, <2>2
<1>6. \A k \in Items : item'[k].request = item[k].request
  OBVIOUS
<1>7. \A q \in Requests : RequestIsSound(q)'
  BY <1>1, <1>6, RequestsStaySound
<1>8. \A t \in Turns : TurnIsSound(t)'
  BY <1>1, InvParts DEF TurnIsSound
<1>9. ItemIsSound(i)' /\ ItemIsSettled(i)'
  <2>1. ItemIsSound(i) /\ item[i].request \in Requests \cup {NoRequest}
    BY InvParts, Types
  <2>2. item[i].request \in Requests /\ journal[item[i].request] # "none" =>
          journal'[item[i].request] # "none"
    BY <1>3 DEF JournalStates
  <2> QED
    BY <1>1, <2>1, <2>2 DEF ItemIsSound, ItemIsSettled
<1>10. ASSUME NEW j \in Items, j # i PROVE ItemIsSound(j)' /\ ItemIsSettled(j)'
  <2>1. /\ ItemIsSound(j) /\ ItemIsSettled(j) /\ item[j].request \in Requests \cup {NoRequest}
        /\ item'[j] = item[j]
    BY <1>10, InvParts, Types
  <2>2. item[j].request # NoRequest => journal'[item[j].request] = journal[item[j].request]
    BY <1>3, <1>10, <2>1, RequestsAreDistinct
  <2>3. ItemIsSound(j)'
    BY <1>1, <1>10, <2>1, <2>2 DEF ItemIsSound
  <2>4. Tracked(j) => Tracked(j)'
    BY <1>10, <2>1, <2>2 DEF ItemIsSound, Tracked
  <2>5. CompletionIsHandled(j) => CompletionIsHandled(j)'
    BY <1>1, <2>1 DEF CompletionIsHandled
  <2> QED
    BY <1>10, <2>1, <2>3, <2>4, <2>5 DEF ItemIsSettled
<1>11. \A j \in Items : ItemIsSound(j)' /\ ItemIsSettled(j)'
  BY <1>9, <1>10
<1> QED
  BY <1>4, <1>5, <1>7, <1>8, <1>11, Zenon DEF AdapterInv

LEMMA RetryReconciliationKeepsInv ==
  ASSUME AdapterInv, NEW i \in Items, NEW done \in BOOLEAN, RetryReconciliation(i, done)
  PROVE  AdapterInv'
<1> DEFINE o == [op EXCEPT !.marks = op.marks \ {i}]
<1>1. /\ op.phase = "retry" /\ i \in op.marks /\ op' = o
      /\ UpdateJournalState(i, "reconciliation_required", done)
      /\ failures' = IF done THEN failures \ {i} ELSE failures
      /\ UNCHANGED <<setup, quarantined, turn, item, approval, owned, journalled, ghosts>>
  BY DEF RetryReconciliation, At
<1>2. o \in Ops /\ o.phase = "retry" /\ o.marks = op.marks \ {i}
  BY <1>1, InvParts DEF Ops
<1> HIDE DEF o
<1>3. /\ \A j \in op.marks : item[j].state = "reconciliation_required"
      /\ \A j \in Items : ~AtHand(j)
  BY <1>1, InvParts DEF OpIsSound, AtHand
<1>4. OpIsSound'
  BY <1>1, <1>2, <1>3 DEF OpIsSound, Answering, Governing
<1>5. ItemIsSound(i) /\ Tracked(i) /\ failures \subseteq Items
  BY <1>3, InvParts DEF ItemIsSettled, MemoryTypes
<1>6. CompletionIsHandled(i)'
  BY <1>1, <1>3 DEF CompletionIsHandled
<1>7. Tracked(i)'
  <2>1. journal \in [Requests -> JournalStates \cup {"none"}] /\ "reconciliation_required" \in JournalStates
    BY InvParts DEF DiskTypes, JournalStates
  <2>2. \/ item[i].journaled = FALSE
        \/ /\ item[i].journaled = TRUE /\ item[i].request \in Requests
           /\ journal' = [journal EXCEPT ![item[i].request] = "reconciliation_required"]
        \/ item[i].journaled = TRUE /\ done = FALSE /\ journal' = journal
    BY <1>1, <2>1, JournalOutcomes
  <2>3. \/ item[i].journaled = FALSE \/ journal'[item[i].request] = "reconciliation_required"
        \/ journal' = journal /\ failures' = failures
    BY <1>1, <2>1, <2>2
  <2> QED
    BY <1>1, <1>3, <1>5, <2>3 DEF Tracked
<1>8. /\ item' \in [Items -> ItemRecords] /\ "reconciliation_required" \in JournalStates
      /\ i \in failures' => item'[i].state = "reconciliation_required"
  BY <1>1, <1>3, InvParts DEF MemoryTypes, JournalStates
<1>9. failures' \subseteq Items /\ \A j \in Items : j # i => (j \in failures' <=> j \in failures)
  BY <1>1, <1>5
<1> QED
  BY <1>1, <1>2, <1>3, <1>4, <1>6, <1>7, <1>8, <1>9, JournalStep

LEMMA MarkReconciliationKeepsInv ==
  ASSUME AdapterInv, NEW i \in Items, NEW done \in BOOLEAN, MarkReconciliation(i, done)
  PROVE  AdapterInv'
<1> DEFINE o == [op EXCEPT !.marks = op.marks \ {i}]
           new == [item[i] EXCEPT !.state = "reconciliation_required"]
<1>1. /\ op.phase = "mark" /\ i \in op.marks /\ op' = o /\ item' = [item EXCEPT ![i] = new]
      /\ UpdateJournalState(i, "reconciliation_required", done)
      /\ failures' = IF done THEN failures \ {i} ELSE failures \cup {i}
      /\ UNCHANGED <<setup, quarantined, turn, approval, owned, journalled, ghosts>>
  BY DEF MarkReconciliation, At
<1>2. o \in Ops /\ o.phase = "mark" /\ o.marks = op.marks \ {i} /\ o.q = op.q /\ o.next = op.next
  BY <1>1, InvParts DEF Ops
<1>3. /\ new \in ItemRecords /\ new.state = "reconciliation_required"
      /\ new.request = item[i].request /\ new.journaled = item[i].journaled
      /\ new.version = item[i].version
  BY InvParts, Types DEF ItemRecords, ItemStates
<1> HIDE DEF o, new
<1>4. /\ item' \in [Items -> ItemRecords] /\ item'[i] = new
      /\ \A j \in Items : j # i => item'[j] = item[j]
  BY <1>1, <1>3, InvParts DEF MemoryTypes
<1>5. OpIsSound'
  BY <1>1, <1>2, InvParts DEF OpIsSound, Answering, Governing
<1>6. CompletionIsHandled(i)'
  BY <1>3, <1>4 DEF CompletionIsHandled
<1>7. Tracked(i)'
  <2>1. journal \in [Requests -> JournalStates \cup {"none"}] /\ "reconciliation_required" \in JournalStates
    BY InvParts DEF DiskTypes, JournalStates
  <2>2. \/ item[i].journaled = FALSE
        \/ /\ item[i].journaled = TRUE /\ item[i].request \in Requests
           /\ journal' = [journal EXCEPT ![item[i].request] = "reconciliation_required"]
        \/ item[i].journaled = TRUE /\ done = FALSE /\ journal' = journal
    BY <1>1, <2>1, JournalOutcomes
  <2>3. \/ item[i].journaled = FALSE \/ journal'[item[i].request] = "reconciliation_required"
        \/ i \in failures'
    BY <1>1, <2>1, <2>2
  <2> QED
    BY <1>3, <1>4, <2>3 DEF Tracked
<1>8. failures' \subseteq Items /\ \A j \in Items : j # i => (j \in failures' <=> j \in failures)
  BY <1>1, InvParts DEF MemoryTypes
<1>9. \A j \in Items : j # i /\ AtHand(j) => AtHand(j)'
  BY <1>1, <1>2 DEF AtHand
<1>10. "reconciliation_required" \in JournalStates
  BY DEF JournalStates
<1> QED
  BY <1>1, <1>2, <1>3, <1>4, <1>5, <1>6, <1>7, <1>8, <1>9, <1>10, JournalStep

LEMMA BlockJournalKeepsInv ==
  ASSUME AdapterInv, NEW done \in BOOLEAN, BlockJournal(done)
  PROVE  AdapterInv'
<1>0. PICK i \in Items : i = op.i
  BY InvParts DEF OpIsSound, Governing, BlockJournal, At
<1>1. /\ op.phase = "block" /\ UpdateJournalState(i, "blocked", done)
      /\ Continue("decline") \/ MarkThen({i}, "idle", NoItem, NoRequest)
      /\ UNCHANGED <<setup, memory, journalled, ghosts>>
  BY <1>0 DEF BlockJournal, At
<1>2. /\ item[i].request = op.q /\ op.q \notin accepted /\ op.q \in Requests
      /\ item[i].state \in {"awaiting_approval", "auto_approved"}
      /\ approval[op.q].kind # "absent" /\ approval[op.q].delivery = "pending"
      /\ approval[op.q].resolved = FALSE /\ \A j \in Items : ~AtHand(j)
  BY <1>0, <1>1, InvParts DEF OpIsSound, Answering, Governing, AtHand
<1>3. UNCHANGED <<setup, quarantined, turn, item, approval, owned, failures, journalled, ghosts>>
  BY <1>1 DEF memory
<1>4. OpIsSound' /\ op' \in Ops
  <2>1. CASE Continue("decline")
    <3> DEFINE o == [op EXCEPT !.phase = "decline"]
    <3>1. op' = o
      BY <2>1 DEF Continue
    <3>2. o \in Ops /\ o.phase = "decline" /\ o.q = op.q
      BY InvParts DEF Ops, Phases
    <3> HIDE DEF o
    <3> QED
      BY <1>2, <1>3, <3>1, <3>2 DEF OpIsSound, Answering, Governing
  <2>2. CASE MarkThen({i}, "idle", NoItem, NoRequest)
    BY <1>2, <2>2, MarkThenIsSound
  <2> QED
    BY <1>1, <2>1, <2>2
<1>5. Tracked(i)' /\ CompletionIsHandled(i)'
  <2>1. CompletionIsHandled(i)
    BY <1>2, InvParts DEF ItemIsSettled
  <2> QED
    BY <1>2, <1>3, <2>1 DEF Tracked, CompletionIsHandled, setup
<1>6. item' \in [Items -> ItemRecords] /\ failures' \subseteq Items /\ "blocked" \in JournalStates
      /\ (i \in failures => item[i].state = "reconciliation_required")
  BY <1>2, <1>3, InvParts DEF MemoryTypes, JournalStates, ItemIsSound
<1> QED
  BY <1>1, <1>2, <1>3, <1>4, <1>5, <1>6, JournalStep

\* The item moves on with its entry, or is marked.
LEMMA AdvanceKeepsInv ==
  ASSUME AdapterInv, NEW phase, NEW to \in JournalStates, NEW done \in BOOLEAN,
         NEW state \in {"accepted_by_app_server", "retained", "post_checked", "blocked"},
         NEW next \in {"idle", "post"}, Advance(phase, to, state, next, done),
         NEW i \in Items, i = op.i, \A j \in Items : j # i => ~AtHand(j),
         to = "blocked" => item[i].request \notin accepted \/ item[i].request \in unapplied,
         to = "accepted" => item[i].request \in accepted,
         state = "accepted_by_app_server" => to = "accepted",
         state = "post_checked" => to = "post_checked"
  PROVE  AdapterInv'
<1>1. /\ UpdateJournalState(i, to, done)
      /\ UNCHANGED <<setup, quarantined, turn, approval, owned, failures, journalled, ghosts>>
  BY DEF Advance
<1>2. CASE MarkThen({i}, "idle", NoItem, NoRequest) /\ UNCHANGED item
  <2>1. OpIsSound' /\ op' \in Ops /\ AtHand(i)'
    BY <1>2, MarkThenIsSound
  <2>2. /\ item' \in [Items -> ItemRecords] /\ failures' \subseteq Items
        /\ i \in failures' => item'[i].state = "reconciliation_required"
    BY <1>1, <1>2, InvParts DEF MemoryTypes, ItemIsSound
  <2> QED
    BY <1>1, <1>2, <2>1, <2>2, JournalStep
<1>3. CASE /\ done = TRUE /\ LegalItemStep(item[i].state, state)
           /\ item' = [item EXCEPT ![i].state = state]
           /\ IF next = "idle" THEN Return ELSE Continue(next)
  <2> DEFINE new == [item[i] EXCEPT !.state = state]
  <2>1. item' = [item EXCEPT ![i] = new]
    BY <1>3
  <2>2. /\ new \in ItemRecords /\ new.state = state /\ new.request = item[i].request
        /\ new.journaled = item[i].journaled /\ new.version = item[i].version
    BY InvParts, Types DEF ItemRecords, ItemStates
  <2> HIDE DEF new
  <2>3. /\ item' \in [Items -> ItemRecords] /\ item'[i] = new
        /\ \A j \in Items : j # i => item'[j] = item[j]
    BY <2>1, <2>2, InvParts DEF MemoryTypes
  <2>4. item[i].state # "reconciliation_required"
    BY <1>3 DEF LegalItemStep, ItemSuccessors
  <2>5. failures' \subseteq Items /\ i \notin failures'
    BY <1>1, <2>4, InvParts DEF ItemIsSound, MemoryTypes
  <2>6. OpIsSound' /\ op' \in Ops
    <3>1. CASE next = "idle"
      BY <1>3, <3>1, IdleIsSound DEF Return
    <3>2. CASE next = "post"
      <4> DEFINE o == [op EXCEPT !.phase = "post"]
      <4>1. op' = o
        BY <1>3, <3>2 DEF Continue
      <4>2. o \in Ops /\ o.phase = "post" /\ o.i = i
        BY InvParts DEF Ops, Phases
      <4> HIDE DEF o
      <4> QED
        BY <4>1, <4>2 DEF OpIsSound, Answering, Governing
    <3> QED
      BY <3>1, <3>2
  <2>7. item[i].journaled = TRUE => journal'[item[i].request] = to
    <3>1. journal \in [Requests -> JournalStates \cup {"none"}]
      BY InvParts DEF DiskTypes
    <3> QED
      BY <1>1, <1>3, <3>1, JournalOutcomes
  <2>8. Tracked(i)' /\ CompletionIsHandled(i)'
    BY <2>2, <2>3, <2>7 DEF Tracked, CompletionIsHandled
  <2> QED
    BY <1>1, <2>2, <2>3, <2>5, <2>6, <2>8, JournalStep
<1> QED
  BY <1>2, <1>3 DEF Advance

LEMMA RecordKeepsInv ==
  ASSUME AdapterInv, NEW done \in BOOLEAN,
         RecordAccepted(done) \/ RecordRetained(done) \/ RecordChecked(done) \/ RecordUnapplied(done)
  PROVE  AdapterInv'
<1>1. {"accepted", "retained", "post_checked", "blocked"} \subseteq JournalStates
  BY DEF JournalStates
<1>2. NoRequest \notin accepted
  BY InvParts, AdapterAssumption DEF GhostTypes
<1>3. CASE RecordAccepted(done)
  <2>1. Advance("record", "accepted", "accepted_by_app_server", "idle", done) /\ op.phase = "record"
    BY <1>3 DEF RecordAccepted, Advance, At
  <2>2. PICK i \in Items : i = op.i /\ item[i].request \in accepted
    BY <2>1, InvParts DEF OpIsSound
  <2>3. \A j \in Items : ~AtHand(j)
    BY <2>1 DEF AtHand
  <2> QED
    BY <1>1, <2>1, <2>2, <2>3, AdvanceKeepsInv
<1>4. CASE RecordRetained(done)
  <2>1. Advance("retain", "retained", "retained", "post", done) /\ op.phase = "retain"
    BY <1>4 DEF RecordRetained, Advance, At
  <2>2. PICK i \in Items : i = op.i
    BY <2>1, InvParts DEF OpIsSound
  <2>3. \A j \in Items : ~AtHand(j)
    BY <2>1 DEF AtHand
  <2> QED
    BY <1>1, <2>1, <2>2, <2>3, AdvanceKeepsInv
<1>5. CASE RecordChecked(done)
  <2>1. Advance("post", "post_checked", "post_checked", "idle", done) /\ op.phase = "post"
    BY <1>5 DEF RecordChecked, Advance, At
  <2>2. PICK i \in Items : i = op.i
    BY <2>1, InvParts DEF OpIsSound
  <2>3. \A j \in Items : ~AtHand(j)
    BY <2>1 DEF AtHand
  <2> QED
    BY <1>1, <2>1, <2>2, <2>3, AdvanceKeepsInv
<1>6. CASE RecordUnapplied(done)
  <2>1. Advance("unapply", "blocked", "blocked", "idle", done) /\ op.phase = "unapply"
    BY <1>6 DEF RecordUnapplied, Advance, At
  <2>2. PICK i \in Items : /\ i = op.i
                           /\ item[i].request # NoRequest => item[i].request \in unapplied
    BY <2>1, InvParts DEF OpIsSound
  <2>3. \A j \in Items : j # i => ~AtHand(j)
    BY <2>1, <2>2 DEF AtHand
  <2> QED
    BY <1>1, <1>2, <2>1, <2>2, <2>3, AdvanceKeepsInv
<1> QED
  BY <1>3, <1>4, <1>5, <1>6

\* The entry is there or is not, and the caller may be wrong about it: the item
\* counts as journaled only when it is there.
LEMMA PutKeepsInv ==
  ASSUME AdapterInv, NEW done \in BOOLEAN, Put(done)
  PROVE  AdapterInv'
<1>0. PICK i \in Items, q \in Requests : i = op.i /\ q = op.q
  BY InvParts DEF OpIsSound, Answering, Governing, Put, At
<1>1. /\ op.phase = "put"
      /\ UNCHANGED <<session, enforced, quarantined, turn, approval, failures, answers, accepted,
                     unapplied, asked, disturbed>>
  BY DEF Put, At, setup, ghosts
<1>2. /\ quarantined = FALSE /\ enforced = TRUE /\ item[i].request = q /\ i # NoItem
      /\ \A r \in Requests : r \notin owned => journal[r] \notin UnresolvedStates
      /\ approval[q].kind # "absent" /\ approval[q].delivery = "pending"
      /\ approval[q].resolved = FALSE /\ turn[TurnOf[approval[q].item]].blocked = FALSE
      /\ item[i].state \in {"awaiting_approval", "auto_approved"}
      /\ i \notin turn[TurnOf[i]].completed /\ \A j \in Items : ~AtHand(j)
  BY <1>0, <1>1, InvParts, AdapterAssumption DEF OpIsSound, Answering, Governing, AtHand
<1>3. \/ /\ journal[q] = "none" /\ journal' = [journal EXCEPT ![q] = "pending_accept"]
         /\ journalled' = [journalled EXCEPT ![q] = item[i].version]
      \/ done = FALSE /\ journal' = journal /\ journalled' = journalled
  BY <1>0 DEF Put, disk
<1>4. \/ /\ done = TRUE /\ owned' = owned \cup {q} /\ item' = [item EXCEPT ![i].journaled = TRUE]
         /\ op' = [op EXCEPT !.phase = "preflight"]
      \/ done = FALSE /\ owned' = owned /\ item' = item /\ op' = [op EXCEPT !.phase = "decline"]
  BY <1>0 DEF Put, Continue
<1>5. /\ ItemIsSound(i) /\ Tracked(i) /\ CompletionIsHandled(i) /\ EntryIsTrue(q)
      /\ item[i] \in ItemRecords /\ item[i].version \in 0..MaxVersion
      /\ item[i].journaled \in BOOLEAN
  BY <1>2, InvParts, Types DEF ItemIsSettled
<1>6. /\ journal \in [Requests -> JournalStates \cup {"none"}]
      /\ journalled \in [Requests -> 0..MaxVersion] /\ item \in [Items -> ItemRecords]
      /\ owned \subseteq Requests
  BY InvParts DEF DiskTypes, MemoryTypes
<1>7. /\ journal' \in [Requests -> JournalStates \cup {"none"}]
      /\ journalled' \in [Requests -> 0..MaxVersion]
      /\ \A r \in Requests : r # q => journal'[r] = journal[r] /\ journalled'[r] = journalled[r]
      /\ \/ journal[q] = "none" /\ journal'[q] = "pending_accept" /\ journalled'[q] = item[i].version
         \/ done = FALSE /\ journal'[q] = journal[q] /\ journalled'[q] = journalled[q]
  BY <1>3, <1>5, <1>6 DEF JournalStates
<1>8. /\ item' \in [Items -> ItemRecords] /\ \A j \in Items : j # i => item'[j] = item[j]
      /\ item'[i].request = q /\ item'[i].version = item[i].version
      /\ item'[i].state = item[i].state
      /\ done = TRUE => item'[i].journaled = TRUE
      /\ done = FALSE => item'[i].journaled = item[i].journaled
  <2>1. CASE done = FALSE
    BY <1>2, <1>4, <1>6, <2>1
  <2>2. CASE done = TRUE
    <3> DEFINE new == [item[i] EXCEPT !.journaled = TRUE]
    <3>1. item' = [item EXCEPT ![i] = new]
      BY <1>4, <2>2
    <3>2. /\ new \in ItemRecords /\ new.request = item[i].request /\ new.version = item[i].version
          /\ new.state = item[i].state /\ new.journaled = TRUE
      BY <1>5 DEF ItemRecords
    <3> HIDE DEF new
    <3> QED
      BY <1>2, <1>6, <2>2, <3>1, <3>2
  <2> QED
    BY <2>1, <2>2
<1>9. op' \in Ops /\ OpIsSound'
  <2>1. CASE done = FALSE
    <3> DEFINE o == [op EXCEPT !.phase = "decline"]
    <3>1. o \in Ops /\ o.phase = "decline" /\ o.q = q
      BY <1>0, InvParts DEF Ops, Phases
    <3> HIDE DEF o
    <3>2. op' = o
      BY <1>4, <2>1 DEF o
    <3> QED
      BY <1>1, <1>2, <3>1, <3>2 DEF OpIsSound, Answering, Governing
  <2>2. CASE done = TRUE
    <3> DEFINE o == [op EXCEPT !.phase = "preflight"]
    <3>1. o \in Ops /\ o.phase = "preflight" /\ o.q = q /\ o.i = i
      BY <1>0, InvParts DEF Ops, Phases
    <3> HIDE DEF o
    <3>2. op' = o
      BY <1>4, <2>2 DEF o
    <3>3. owned' = owned \cup {q} /\ journal[q] = "none" /\ journal'[q] = "pending_accept"
      BY <1>4, <1>7, <2>2
    <3>4. q \notin accepted
      BY <1>5, <3>3 DEF EntryIsTrue, UnresolvedStates
    <3>5. \A r \in Requests : r \notin owned' => journal'[r] \notin UnresolvedStates
      BY <1>2, <1>7, <3>3
    <3> QED
      BY <1>1, <1>2, <1>8, <2>2, <3>1, <3>2, <3>3, <3>4, <3>5 DEF OpIsSound, Answering, Governing
  <2> QED
    BY <2>1, <2>2
<1>10. TypeOK'
  <2>1. owned' \subseteq Requests
    BY <1>4, <1>6
  <2> QED
    BY <1>1, <1>7, <1>8, <1>9, <2>1, InvParts, TypeOKPartsNext
       DEF Settings, MemoryTypes, DiskTypes, GhostTypes
<1>11. ASSUME NEW r \in Requests PROVE EntryIsTrue(r)'
  <2>1. CASE r # q
    BY <1>1, <1>7, <2>1, InvParts DEF EntryIsTrue
  <2>2. CASE r = q
    BY <1>1, <1>5, <1>7, <2>2 DEF EntryIsTrue, UnresolvedStates
  <2> QED
    BY <2>1, <2>2
<1>12. \A r \in Requests : RequestIsSound(r)'
  <2>1. \A j \in Items : item'[j].request = item[j].request
    BY <1>2, <1>8
  <2> QED
    BY <1>1, <2>1, RequestsStaySound
<1>13. \A t \in Turns : TurnIsSound(t)'
  BY <1>1, InvParts DEF TurnIsSound
<1>14. ItemIsSound(i)' /\ ItemIsSettled(i)'
  <2>0. /\ q # NoRequest /\ approval[q].kind = "file_change" /\ approval[q].item = i
        /\ item[i].version = asked[q]
        /\ item[i].journaled = TRUE => journal[q] # "none" /\ journalled[q] = asked[q]
        /\ i \notin failures
    BY <1>2, <1>5, AdapterAssumption DEF ItemIsSound
  <2>1. ItemIsSound(i)'
    BY <1>1, <1>7, <1>8, <2>0 DEF ItemIsSound
  <2>2. Tracked(i)' /\ CompletionIsHandled(i)'
    BY <1>1, <1>2, <1>5, <1>8 DEF Tracked, CompletionIsHandled
  <2> QED
    BY <2>1, <2>2 DEF ItemIsSettled
<1>15. ASSUME NEW j \in Items, j # i PROVE ItemIsSound(j)' /\ ItemIsSettled(j)'
  <2>1. /\ ItemIsSound(j) /\ Tracked(j) /\ CompletionIsHandled(j) /\ item'[j] = item[j]
        /\ item[j].request \in Requests \cup {NoRequest}
    BY <1>2, <1>8, <1>15, InvParts, Types DEF ItemIsSettled
  <2>2. item[j].request # q
    BY <1>2, <1>15, AdapterAssumption, RequestsAreDistinct
  <2>3. ItemIsSound(j)'
    BY <1>1, <1>7, <2>1, <2>2 DEF ItemIsSound
  <2>4. Tracked(j)'
    <3>1. item[j].journaled = TRUE => journal'[item[j].request] = journal[item[j].request]
      BY <1>7, <2>1, <2>2 DEF ItemIsSound
    <3> QED
      BY <1>1, <2>1, <3>1 DEF Tracked
  <2>5. CompletionIsHandled(j)'
    BY <1>1, <2>1 DEF CompletionIsHandled
  <2> QED
    BY <2>3, <2>4, <2>5 DEF ItemIsSettled
<1>16. \A j \in Items : ItemIsSound(j)' /\ ItemIsSettled(j)'
  BY <1>14, <1>15
<1> QED
  BY <1>9, <1>10, <1>11, <1>12, <1>13, <1>16, Zenon DEF AdapterInv

-----------------------------------------------------------------------------
(* The answer                                                              *)

\* q has its first answer, of which the session knows delivery.
IsAnswered(q, decision, delivery) ==
  /\ approval' \in [Requests -> ApprovalRecords]
  /\ \A r \in Requests : /\ approval'[r].kind = approval[r].kind
                         /\ approval'[r].item = approval[r].item
  /\ \A r \in Requests : r # q => approval'[r] = approval[r] /\ answers'[r] = answers[r]
  /\ approval'[q].delivery = delivery /\ Len(answers'[q]) <= 1
  /\ answers' \in [Requests -> Seq({"accept", "decline"})]
  /\ accepted \subseteq accepted' /\ accepted' \subseteq accepted \cup {q}
  /\ q \in accepted' => q \in accepted \/ (decision = "accept" /\ enforced = TRUE
                                          /\ approval[q].kind = "file_change")
  /\ approval[q].kind # "absent"

\* An answer on the way is given to a request that has none.
LEMMA AnswerIsFirst ==
  ASSUME AdapterInv, NEW decision \in {"accept", "decline"}, op.phase = decision,
         NEW q \in Requests, q = op.q, NEW delivery \in {"sent", "uncertain"},
         NEW sent \in {"none", "accept", "decline"}, Delivered(delivery, sent),
         Receives(q, decision) \/ UNCHANGED <<answers, accepted>>
  PROVE  IsAnswered(q, decision, delivery)
<1>1. approval[q].delivery = "pending" /\ approval[q].kind # "absent"
  BY InvParts DEF OpIsSound, Answering
<1>2. answers[q] = <<>>
  BY <1>1, InvParts DEF RequestIsSound
<1> DEFINE new == [approval[q] EXCEPT !.delivery = delivery, !.sent = sent]
<1>3. approval' = [approval EXCEPT ![q] = new]
  BY DEF Delivered
<1>4. /\ new \in ApprovalRecords /\ new.kind = approval[q].kind /\ new.item = approval[q].item
      /\ new.delivery = delivery
  <2>1. approval[q] \in ApprovalRecords
    BY InvParts, Types
  <2>2. delivery \in {"pending", "sent", "uncertain"}
    OBVIOUS
  <2> QED
    BY <2>1, <2>2 DEF ApprovalRecords
<1> HIDE DEF new
<1>5. /\ approval \in [Requests -> ApprovalRecords]
      /\ answers \in [Requests -> Seq({"accept", "decline"})] /\ enforced \in BOOLEAN
  BY InvParts DEF MemoryTypes, GhostTypes, Settings
<1>6. /\ approval' \in [Requests -> ApprovalRecords] /\ approval'[q] = new
      /\ \A r \in Requests : r # q => approval'[r] = approval[r]
  BY <1>3, <1>4, <1>5
<1>7. /\ answers' \in [Requests -> Seq({"accept", "decline"})] /\ Len(answers'[q]) <= 1
      /\ \A r \in Requests : r # q => answers'[r] = answers[r]
  <2>1. CASE Receives(q, decision)
    <3>1. answers' = [answers EXCEPT ![q] = <<decision>>]
      BY <1>2, <1>5, <2>1 DEF Receives
    <3> QED
      BY <1>5, <3>1
  <2>2. CASE UNCHANGED <<answers, accepted>>
    BY <1>2, <1>5, <2>2
  <2> QED
    BY <2>1, <2>2
<1>8. /\ accepted \subseteq accepted' /\ accepted' \subseteq accepted \cup {q}
      /\ q \in accepted' => q \in accepted \/ (decision = "accept" /\ enforced = TRUE
                                              /\ approval[q].kind = "file_change")
  BY <1>5 DEF Receives
<1>9. \A r \in Requests : approval'[r].kind = approval[r].kind /\ approval'[r].item = approval[r].item
  BY <1>4, <1>6
<1> QED
  BY <1>1, <1>4, <1>6, <1>7, <1>8, <1>9 DEF IsAnswered

LEMMA SendStep ==
  ASSUME AdapterInv, NEW decision \in {"accept", "decline"}, op.phase = decision,
         NEW q \in Requests, q = op.q, NEW delivery \in {"sent", "uncertain"},
         IsAnswered(q, decision, delivery),
         UNCHANGED <<setup, quarantined, owned, failures, disk, unapplied, asked>>,
         turn' \in [Turns -> TurnRecords], disturbed' \subseteq Turns,
         \A t \in Turns : TurnIsSound(t)' /\ turn'[t].completed = turn[t].completed,
         \A t \in Turns : turn[t].blocked = TRUE => turn'[t].blocked = TRUE,
         item' \in [Items -> ItemRecords],
         \A i \in Items : /\ item'[i].request = item[i].request
                          /\ item'[i].journaled = item[i].journaled
                          /\ item'[i].version = item[i].version
                          /\ \/ item'[i].state = item[i].state
                             \/ /\ item'[i].state = "blocked"
                                /\ item[i].state # "reconciliation_required",
         op' \in Ops, OpIsSound'
  PROVE  AdapterInv'
<1>1. UNCHANGED <<session, enforced, quarantined, owned, failures, journal, journalled, unapplied,
                  asked>>
  BY DEF setup, disk
<1>2. /\ approval' \in [Requests -> ApprovalRecords]
      /\ \A r \in Requests : /\ approval'[r].kind = approval[r].kind
                             /\ approval'[r].item = approval[r].item
      /\ \A r \in Requests : r # q => approval'[r] = approval[r] /\ answers'[r] = answers[r]
      /\ approval'[q].delivery = delivery /\ Len(answers'[q]) <= 1
      /\ answers' \in [Requests -> Seq({"accept", "decline"})]
      /\ accepted \subseteq accepted' /\ accepted' \subseteq accepted \cup {q}
      /\ q \in accepted' => q \in accepted \/ (decision = "accept" /\ enforced = TRUE
                                              /\ approval[q].kind = "file_change")
      /\ approval[q].kind # "absent"
  BY DEF IsAnswered
<1>3. TypeOK'
  <2>1. accepted' \subseteq Requests
    BY <1>2, InvParts DEF GhostTypes
  <2> QED
    BY <1>1, <1>2, <2>1, InvParts, TypeOKPartsNext DEF Settings, MemoryTypes, DiskTypes, GhostTypes
<1>4. ASSUME NEW r \in Requests PROVE EntryIsTrue(r)'
  <2>1. CASE r \in accepted' => r \in accepted
    BY <1>1, <1>2, <2>1, InvParts DEF EntryIsTrue
  <2>2. CASE ~(r \in accepted' => r \in accepted)
    <3>1. r = q /\ decision = "accept" /\ enforced = TRUE /\ approval[q].kind = "file_change"
      BY <1>2, <2>2
    <3>2. journal[q] = "pending_accept"
      BY <3>1, InvParts DEF OpIsSound, Governing
    <3> QED
      BY <1>1, <3>1, <3>2 DEF EntryIsTrue, UnresolvedStates
  <2> QED
    BY <2>1, <2>2
<1>5. ASSUME NEW r \in Requests PROVE RequestIsSound(r)'
  <2>1. RequestIsSound(r)
    BY InvParts
  <2>2. approval[r].kind # "absent" =>
          /\ approval[r].item \in Items /\ TurnOf[approval[r].item] \in Turns
          /\ turn[TurnOf[approval[r].item]].blocked \in BOOLEAN
    BY <2>1, InvParts, Types DEF RequestIsSound
  <2>3. CASE r = q
    BY <1>2, <2>1, <2>2, <2>3 DEF RequestIsSound
  <2>4. CASE r # q
    BY <1>2, <2>1, <2>2, <2>4 DEF RequestIsSound
  <2> QED
    BY <2>3, <2>4
<1>6. ASSUME NEW i \in Items PROVE ItemIsSound(i)' /\ ItemIsSettled(i)'
  <2>1. ~AtHand(i)
    BY DEF AtHand
  <2>2. /\ ItemIsSound(i) /\ Tracked(i) /\ CompletionIsHandled(i) /\ TurnOf[i] \in Turns
        /\ item[i].request \in Requests \cup {NoRequest}
    BY <2>1, InvParts, Types DEF ItemIsSettled
  <2>3. ItemIsSound(i)'
    BY <1>1, <1>2, <2>2 DEF ItemIsSound
  <2>4. Tracked(i)'
    BY <1>1, <2>2 DEF Tracked
  <2>5. CompletionIsHandled(i)'
    BY <1>1, <2>2 DEF CompletionIsHandled
  <2> QED
    BY <2>3, <2>4, <2>5 DEF ItemIsSettled
<1> QED
  BY <1>3, <1>4, <1>5, <1>6, Zenon DEF AdapterInv

LEMMA SendReturnsKeepsInv ==
  ASSUME AdapterInv, NEW decision \in {"accept", "decline"}, SendReturns(decision)
  PROVE  AdapterInv'
<1>1. /\ op.phase = decision /\ Receives(op.q, decision) /\ Delivered("sent", decision)
      /\ UNCHANGED <<setup, quarantined, turn, owned, failures, disk, unapplied, asked, disturbed>>
  BY DEF SendReturns, At
<1>2. PICK q \in Requests : q = op.q
  BY <1>1, InvParts DEF OpIsSound, Answering
<1>3. IsAnswered(q, decision, "sent")
  BY <1>1, <1>2, AnswerIsFirst
<1>4. /\ item' \in [Items -> ItemRecords]
      /\ \A i \in Items : /\ item'[i].request = item[i].request
                          /\ item'[i].journaled = item[i].journaled
                          /\ item'[i].version = item[i].version
                          /\ \/ item'[i].state = item[i].state
                             \/ /\ item'[i].state = "blocked"
                                /\ item[i].state # "reconciliation_required"
  <2>0. item \in [Items -> ItemRecords] /\ op.i \in Items \cup {NoItem}
    BY InvParts, Types DEF MemoryTypes
  <2>1. CASE item' = item
    BY <2>0, <2>1
  <2>2. CASE /\ op.i # NoItem /\ LegalItemStep(item[op.i].state, "blocked")
             /\ item' = [item EXCEPT ![op.i].state = "blocked"]
    <3>1. PICK i \in Items : i = op.i
      BY <2>0, <2>2
    <3> DEFINE new == [item[i] EXCEPT !.state = "blocked"]
    <3>2. item' = [item EXCEPT ![i] = new] /\ item[i] \in ItemRecords
      BY <2>0, <2>2, <3>1
    <3>3. /\ new \in ItemRecords /\ new.state = "blocked" /\ new.request = item[i].request
          /\ new.journaled = item[i].journaled /\ new.version = item[i].version
      BY <3>2 DEF ItemRecords, ItemStates
    <3> HIDE DEF new
    <3>4. item[i].state # "reconciliation_required"
      BY <2>2, <3>1 DEF LegalItemStep, ItemSuccessors
    <3> QED
      BY <2>0, <3>2, <3>3, <3>4
  <2> QED
    BY <2>1, <2>2 DEF SendReturns
<1>5. op' \in Ops /\ OpIsSound'
  <2>1. CASE Return
    BY <2>1, IdleIsSound DEF Return
  <2>2. CASE decision = "accept" /\ op.i # NoItem /\ enforced /\ Continue("record")
    <3> DEFINE o == [op EXCEPT !.phase = "record"]
    <3>1. op' = o
      BY <2>2 DEF Continue
    <3>2. o \in Ops /\ o.phase = "record" /\ o.q = q /\ o.i = op.i
      BY <1>2, InvParts DEF Ops, Phases
    <3> HIDE DEF o
    <3>3. enforced = TRUE
      BY <2>2, InvParts, Types
    <3>4. op.i \in Items /\ item[op.i].request = q
      BY <1>1, <1>2, <2>2, <3>3, InvParts DEF OpIsSound, Governing
    <3>5. approval[q].kind = "file_change"
      BY <3>4, InvParts, AdapterAssumption DEF ItemIsSound
    <3>6. q \in accepted'
      BY <1>1, <1>2, <2>2, <3>3, <3>5 DEF Receives
    <3> QED
      BY <1>4, <3>1, <3>2, <3>4, <3>6 DEF OpIsSound, Answering, Governing
  <2> QED
    BY <2>1, <2>2 DEF SendReturns
<1>6. /\ turn' \in [Turns -> TurnRecords] /\ disturbed' \subseteq Turns
      /\ \A t \in Turns : TurnIsSound(t)' /\ turn'[t].completed = turn[t].completed
      /\ \A t \in Turns : turn[t].blocked = TRUE => turn'[t].blocked = TRUE
  BY <1>1, InvParts DEF MemoryTypes, GhostTypes, TurnIsSound
<1> QED
  BY <1>1, <1>2, <1>3, <1>4, <1>5, <1>6, SendStep

LEMMA SendThrowsKeepsInv ==
  ASSUME AdapterInv, NEW decision \in {"accept", "decline"}, NEW arrived \in BOOLEAN,
         SendThrows(decision, arrived)
  PROVE  AdapterInv'
<1>1. /\ op.phase = decision
      /\ Receives(op.q, decision) \/ UNCHANGED <<answers, accepted>>
      /\ Delivered("uncertain", "none")
      /\ UNCHANGED <<setup, quarantined, item, owned, failures, disk, unapplied, asked>>
  BY DEF SendThrows, At
<1>2. PICK q \in Requests : q = op.q
  BY <1>1, InvParts DEF OpIsSound, Answering
<1>3. IsAnswered(q, decision, "uncertain")
  BY <1>1, <1>2, AnswerIsFirst
<1>4. PICK t \in Turns : t = TurnOf[approval[q].item]
  <2>1. approval[q].item \in Items
    BY <1>3, InvParts DEF IsAnswered, RequestIsSound
  <2> QED
    BY <2>1, InvParts, Types
<1> DEFINE new == [turn[t] EXCEPT !.blocked = TRUE]
<1>5. /\ turn' = [turn EXCEPT ![t] = new] /\ disturbed' = disturbed \cup {t}
      /\ MarkThen(ItemsOf(t), "idle", NoItem, NoRequest)
  BY <1>2, <1>4 DEF SendThrows
<1>6. new \in TurnRecords /\ new.blocked = TRUE /\ new.completed = turn[t].completed
  BY InvParts, Types DEF TurnRecords
<1> HIDE DEF new
<1>7. op' \in Ops /\ OpIsSound'
  <2>1. ItemsOf(t) \subseteq Items
    BY DEF ItemsOf
  <2> QED
    BY <1>5, <2>1, MarkThenIsSound
<1>8. /\ turn' \in [Turns -> TurnRecords] /\ turn'[t] = new
      /\ \A u \in Turns : u # t => turn'[u] = turn[u]
      /\ \A u \in Turns : turn[u].blocked = TRUE => turn'[u].blocked = TRUE
      /\ \A u \in Turns : TurnIsSound(u)'
      /\ disturbed' \subseteq Turns
  BY <1>1, <1>5, <1>6, OneTurnChanges
<1>9. \A u \in Turns : TurnIsSound(u)' /\ turn'[u].completed = turn[u].completed
  BY <1>6, <1>8
<1>10. item' \in [Items -> ItemRecords]
  BY <1>1, InvParts DEF MemoryTypes
<1> QED
  BY <1>1, <1>2, <1>3, <1>7, <1>8, <1>9, <1>10, SendStep

-----------------------------------------------------------------------------
(* The invariant                                                           *)

\* What a new session starts with.
LEMMA FreshMemory ==
  /\ NewTurn \in TurnRecords /\ NewTurn.blocked = FALSE /\ NewTurn.completed = {}
  /\ NoSuchItem \in ItemRecords /\ NoSuchItem.state = "absent"
  /\ NoSuchItem.request = NoRequest /\ NoSuchItem.journaled = FALSE
  /\ NoApproval \in ApprovalRecords /\ NoApproval.kind = "absent" /\ NoApproval.delivery = "pending"
  /\ Idle \in Ops /\ Idle.phase = "idle"
BY AdapterAssumption DEF NewTurn, NoSuchItem, NoApproval, Idle, TurnRecords, ItemRecords,
     ItemStates, ApprovalRecords, Ops, Phases

LEMMA CrashKeepsInv ==
  ASSUME AdapterInv, Crash
  PROVE  AdapterInv'
<1>1. /\ enforced' \in BOOLEAN /\ quarantined' = FALSE /\ turn' = [t \in Turns |-> NewTurn]
      /\ item' = [i \in Items |-> NoSuchItem] /\ approval' = [q \in Requests |-> NoApproval]
      /\ owned' = {} /\ failures' = {} /\ op' = Idle /\ answers' = [q \in Requests |-> <<>>]
      /\ disturbed' = {} /\ UNCHANGED <<journal, journalled, accepted, unapplied, asked>>
  BY DEF Crash, disk
<1>2. session' \in 1..MaxSessions
  BY InvParts, AdapterAssumption DEF Settings, Crash
<1>3. TypeOK'
  <2>1. turn' \in [Turns -> TurnRecords] /\ item' \in [Items -> ItemRecords]
        /\ approval' \in [Requests -> ApprovalRecords]
    BY <1>1, FreshMemory
  <2>2. answers' \in [Requests -> Seq({"accept", "decline"})]
    BY <1>1
  <2> QED
    BY <1>1, <1>2, <2>1, <2>2, FreshMemory, InvParts, TypeOKPartsNext
       DEF Settings, MemoryTypes, DiskTypes, GhostTypes
<1>4. OpIsSound'
  BY <1>1, IdleIsSound
<1>5. ASSUME NEW i \in Items PROVE ItemIsSound(i)' /\ ItemIsSettled(i)'
  <2>1. item'[i] = NoSuchItem
    BY <1>1
  <2> QED
    BY <1>1, <2>1, FreshMemory DEF ItemIsSound, ItemIsSettled, Tracked, CompletionIsHandled
<1>6. ASSUME NEW q \in Requests PROVE EntryIsTrue(q)' /\ RequestIsSound(q)'
  <2>1. approval'[q] = NoApproval /\ answers'[q] = <<>>
    BY <1>1
  <2>2. EntryIsTrue(q)'
    BY <1>1, InvParts DEF EntryIsTrue
  <2> QED
    BY <2>1, <2>2, FreshMemory DEF RequestIsSound
<1>7. ASSUME NEW t \in Turns PROVE TurnIsSound(t)'
  BY <1>1 DEF TurnIsSound
<1> QED
  BY <1>3, <1>4, <1>5, <1>6, <1>7, Zenon DEF AdapterInv

LEMMA InitHolds ==
  ASSUME Init
  PROVE  AdapterInv
<1>1. /\ session = 1 /\ enforced \in BOOLEAN /\ quarantined = FALSE /\ turn = [t \in Turns |-> NewTurn]
      /\ item = [i \in Items |-> NoSuchItem] /\ approval = [q \in Requests |-> NoApproval]
      /\ owned = {} /\ failures = {} /\ op = Idle /\ answers = [q \in Requests |-> <<>>]
      /\ disturbed = {} /\ accepted = {} /\ unapplied = {} /\ asked = [q \in Requests |-> 0]
      /\ journal = [q \in Requests |-> "none"] /\ journalled = [q \in Requests |-> 0]
  BY DEF Init
<1>2. TypeOK
  <2>1. turn \in [Turns -> TurnRecords] /\ item \in [Items -> ItemRecords]
        /\ approval \in [Requests -> ApprovalRecords]
    BY <1>1, FreshMemory
  <2>2. answers \in [Requests -> Seq({"accept", "decline"})]
    BY <1>1
  <2>3. DiskTypes /\ asked \in [Requests -> 0..MaxVersion] /\ session \in 1..MaxSessions
    BY <1>1, AdapterAssumption DEF DiskTypes
  <2>4. Settings /\ MemoryTypes /\ op \in Ops
    BY <1>1, <2>1, <2>3, FreshMemory DEF Settings, MemoryTypes
  <2>5. GhostTypes
    BY <1>1, <2>2, <2>3 DEF GhostTypes
  <2> QED
    BY <2>3, <2>4, <2>5, TypeOKParts
<1>3. OpIsSound
  BY <1>1, FreshMemory DEF OpIsSound, Answering, Governing
<1>4. ASSUME NEW i \in Items PROVE ItemIsSound(i) /\ ItemIsSettled(i)
  <2>1. item[i] = NoSuchItem
    BY <1>1
  <2> QED
    BY <1>1, <2>1, FreshMemory DEF ItemIsSound, ItemIsSettled, Tracked, CompletionIsHandled
<1>5. ASSUME NEW q \in Requests PROVE EntryIsTrue(q) /\ RequestIsSound(q)
  <2>1. approval[q] = NoApproval /\ answers[q] = <<>> /\ journal[q] = "none"
    BY <1>1
  <2> QED
    BY <1>1, <2>1, FreshMemory DEF RequestIsSound, EntryIsTrue
<1>6. ASSUME NEW t \in Turns PROVE TurnIsSound(t)
  BY <1>1 DEF TurnIsSound
<1> QED
  BY <1>2, <1>3, <1>4, <1>5, <1>6, Zenon DEF AdapterInv

LEMMA StutterKeepsInv ==
  ASSUME AdapterInv, UNCHANGED vars
  PROVE  AdapterInv'
<1>1. UNCHANGED <<session, enforced, quarantined, turn, item, approval, owned, failures, op, journal,
                  journalled, answers, accepted, unapplied, asked, disturbed>>
  BY DEF vars, setup, memory, disk, ghosts
<1>2. TypeOK'
  BY <1>1, InvParts, TypeOKPartsNext DEF Settings, MemoryTypes, DiskTypes, GhostTypes
<1>3. OpIsSound'
  BY <1>1, InvParts DEF OpIsSound, Answering, Governing
<1>4. ASSUME NEW i \in Items PROVE ItemIsSound(i)' /\ ItemIsSettled(i)'
  BY <1>1, InvParts DEF ItemIsSound, ItemIsSettled, AtHand, Tracked, CompletionIsHandled
<1>5. ASSUME NEW q \in Requests PROVE EntryIsTrue(q)' /\ RequestIsSound(q)'
  BY <1>1, InvParts DEF EntryIsTrue, RequestIsSound
<1>6. ASSUME NEW t \in Turns PROVE TurnIsSound(t)'
  BY <1>1, InvParts DEF TurnIsSound
<1> QED
  BY <1>2, <1>3, <1>4, <1>5, <1>6, Zenon DEF AdapterInv

LEMMA NextKeepsInv ==
  ASSUME AdapterInv, [Next]_vars
  PROVE  AdapterInv'
<1>1. CASE Continuity
  BY <1>1, BeginKeepsInv, RetryReconciliationKeepsInv, RetryDoneKeepsInv, ListJournalKeepsInv
     DEF Continuity
<1>2. CASE Ingest
  BY <1>2, QuarantineEventKeepsInv, OutOfSequenceKeepsInv, ItemStartedKeepsInv, ItemUpdatedKeepsInv,
     ApprovalRequestedKeepsInv, DuplicateRequestKeepsInv, RequestResolvedKeepsInv,
     ItemCompletedKeepsInv
     DEF Ingest
<1>3. CASE Human
  BY <1>3, HumanRefusedKeepsInv, HumanDecisionKeepsInv DEF Human
<1>4. CASE Finish
  BY <1>4, PutKeepsInv, BlockJournalKeepsInv, RecordKeepsInv, PreflightKeepsInv,
     VerifyRetainedKeepsInv, SendReturnsKeepsInv, SendThrowsKeepsInv, MarkReconciliationKeepsInv,
     MarkDoneKeepsInv
     DEF Finish
<1>5. CASE Crash
  BY <1>5, CrashKeepsInv
<1>6. CASE UNCHANGED vars
  BY <1>6, StutterKeepsInv
<1> QED
  BY <1>1, <1>2, <1>3, <1>4, <1>5, <1>6 DEF Next

\* In every state of every behaviour of the adapter, whatever crashes, fails or
\* arrives out of order, the call in progress, the items, the requests, the
\* turns and the journal entries are sound.
THEOREM AdapterInvariant == Spec => []AdapterInv
BY InitHolds, NextKeepsInv, PTL DEF Spec

\* The journal on disk and the App Server tell the same story of every accept
\* of persistAndAccept, over all sessions.
THEOREM AdapterJournalIsTruthful == Spec => []JournalIsTruthful
<1>1. AdapterInv => JournalIsTruthful
  <2> SUFFICES ASSUME AdapterInv PROVE JournalIsTruthful
    OBVIOUS
  <2>1. accepted \subseteq Requests
    BY InvParts DEF GhostTypes
  <2> QED
    BY <2>1, InvParts DEF JournalIsTruthful, AcceptIsJournaled, JournalClaimsAreTrue, EntryIsTrue
<1> QED
  BY <1>1, AdapterInvariant, PTL

\* Between calls, items and their journal entries agree or
\* retryJournalReconciliationFailures will write the entry.
THEOREM AdapterJournalTracksItem == Spec => []JournalTracksItem
<1>1. AdapterInv => JournalTracksItem
  <2> SUFFICES ASSUME AdapterInv, op.phase = "idle", NEW i \in Items, item[i].journaled
               PROVE  LET onDisk == journal[item[i].request]
                      IN  /\ item[i].state = "accepted_by_app_server" => onDisk = "accepted"
                          /\ item[i].state = "post_checked" => onDisk = "post_checked"
                          /\ item[i].state = "reconciliation_required" =>
                               onDisk = "reconciliation_required" \/ i \in failures
    BY DEF JournalTracksItem, At
  <2>1. ItemIsSettled(i) /\ item[i].journaled = TRUE
    BY InvParts, Types
  <2> QED
    BY <2>1 DEF ItemIsSettled, AtHand, Tracked
<1> QED
  BY <1>1, AdapterInvariant, PTL

\* No request is answered twice, and sendDecision never finds that an answer
\* it was called for is not available any more.
THEOREM AdapterAnswersOnce == Spec => []AnswerIsSentOnce
<1>1. AdapterInv => AnswerIsSentOnce
  <2> SUFFICES ASSUME AdapterInv PROVE AnswerIsSentOnce
    OBVIOUS
  <2>1. TypeOK /\ AnsweredOnce
    BY InvParts DEF AnsweredOnce, RequestIsSound
  <2>2. ASSUME NEW decision \in {"accept", "decline"}, At(decision)
        PROVE  Sendable(op.q, decision)
    <3>1. /\ approval[op.q].delivery = "pending" /\ approval[op.q].resolved = FALSE
          /\ decision = "accept" =>
               quarantined = FALSE /\ turn[TurnOf[approval[op.q].item]].blocked = FALSE
      BY <2>2, InvParts DEF OpIsSound, Answering, At
    <3> QED
      BY <3>1 DEF Sendable
  <2> QED
    BY <2>1, <2>2 DEF AnswerIsSentOnce, SendIsAvailable
<1> QED
  BY <1>1, AdapterInvariant, PTL

\* The entry of an item holds the change set the approval request was about,
\* and handleItemUpdated cannot change the item after that.
THEOREM AdapterHoldsApprovedVersion == Spec => []JournalHoldsApprovedVersion
<1>1. AdapterInv => JournalHoldsApprovedVersion
  <2> SUFFICES ASSUME AdapterInv, NEW i \in Items, item[i].journaled
               PROVE  LET q == item[i].request
                      IN  journalled[q] = asked[q] /\ item[i].version = asked[q]
    BY DEF JournalHoldsApprovedVersion
  <2>1. ItemIsSound(i) /\ item[i].journaled = TRUE
    BY InvParts, Types
  <2> QED
    BY <2>1 DEF ItemIsSound
<1> QED
  BY <1>1, AdapterInvariant, PTL

\* Only a send gives the App Server an answer.
LEMMA OnlySendsAnswer ==
  ASSUME [Next]_vars
  PROVE  \/ UNCHANGED answers \/ Crash
         \/ \E decision \in {"accept", "decline"} :
              SendReturns(decision) \/ \E arrived \in BOOLEAN : SendThrows(decision, arrived)
<1>1. CASE Continuity
  BY <1>1 DEF Continuity, Begin, RetryReconciliation, RetryDone, ListJournal, ghosts
<1>2. CASE Ingest
  <2>1. ASSUME NEW q, NEW i, NEW kind, NEW verdict, ApprovalRequested(q, i, kind, verdict)
        PROVE  UNCHANGED answers
    BY <2>1 DEF ApprovalRequested
  <2>2. ASSUME NEW q, NEW i, NEW resolution, RequestResolved(q, i, resolution)
        PROVE  UNCHANGED answers
    BY <2>2 DEF RequestResolved
  <2>3. ASSUME NEW i, NEW outcome, ItemCompleted(i, outcome)
        PROVE  UNCHANGED answers
    BY <2>3 DEF ItemCompleted
  <2>4. ASSUME NEW i, NEW canonical, ItemStarted(i, canonical) \/ ItemUpdated(i, canonical)
        PROVE  UNCHANGED answers
    BY <2>4 DEF ItemStarted, ItemUpdated
  <2>5. ASSUME NEW q, NEW i, NEW t, QuarantineEvent \/ OutOfSequence(t) \/ DuplicateRequest(q, i)
        PROVE  UNCHANGED answers
    BY <2>5 DEF QuarantineEvent, OutOfSequence, DuplicateRequest
  <2> QED
    BY <1>2, <2>1, <2>2, <2>3, <2>4, <2>5 DEF Ingest
<1>3. CASE Human
  BY <1>3 DEF Human, HumanRefused, HumanDecision, ghosts
<1>4. CASE Finish
  BY <1>4 DEF Finish, Put, BlockJournal, RecordAccepted, RecordRetained, RecordChecked,
              RecordUnapplied, Advance, Preflight, VerifyRetained, MarkReconciliation, MarkDone, ghosts
<1>5. CASE UNCHANGED vars
  BY <1>5 DEF vars, ghosts
<1> QED
  BY <1>1, <1>2, <1>3, <1>4, <1>5 DEF Next

\* An accept is received in a step of the call that decided on it.
LEMMA AcceptIsSent ==
  ASSUME AdapterInv, [Next]_vars, NEW q \in Requests, AcceptReceived(q)
  PROVE  op.phase = "accept" /\ op.q = q
<1>0. answers \in [Requests -> Seq({"accept", "decline"})]
  BY InvParts DEF GhostTypes
<1>1. CASE UNCHANGED answers
  <2>1. Len(answers[q]) \in Nat
    BY <1>0
  <2> QED
    BY <1>1, <2>1 DEF AcceptReceived
<1>2. CASE Crash
  <2>1. answers'[q] = <<>>
    BY <1>2 DEF Crash
  <2>2. Len(answers[q]) \in Nat /\ Len(<<>>) = 0
    BY <1>0
  <2> QED
    BY <2>1, <2>2 DEF AcceptReceived
<1>3. ASSUME NEW decision \in {"accept", "decline"}, op.phase = decision, Receives(op.q, decision)
      PROVE  op.phase = "accept" /\ op.q = q
  <2>1. op.q \in Requests /\ answers[op.q] = <<>>
    BY <1>3, InvParts DEF OpIsSound, Answering, RequestIsSound
  <2>2. answers' = [answers EXCEPT ![op.q] = <<decision>>]
    BY <1>0, <1>3, <2>1 DEF Receives
  <2>3. op.q = q
    <3>1. op.q # q => answers'[q] = answers[q]
      BY <1>0, <2>2
    <3>2. Len(answers[q]) \in Nat
      BY <1>0
    <3> QED
      BY <3>1, <3>2 DEF AcceptReceived
  <2>4. answers'[q] = <<decision>>
    BY <1>0, <2>2, <2>3
  <2> QED
    BY <1>3, <2>3, <2>4 DEF AcceptReceived
<1>4. CASE \E decision \in {"accept", "decline"} :
             SendReturns(decision) \/ \E arrived \in BOOLEAN : SendThrows(decision, arrived)
  <2>1. PICK decision \in {"accept", "decline"} :
          op.phase = decision /\ (Receives(op.q, decision) \/ UNCHANGED answers)
    BY <1>4 DEF SendReturns, SendThrows, At
  <2> QED
    BY <1>1, <1>3, <2>1
<1> QED
  BY <1>1, <1>2, <1>4, OnlySendsAnswer

\* An accept is only sent while the turn is undisturbed, no foreign entry is
\* unresolved and the item is not completed: what handleApprovalRequested and
\* resolveHumanApproval checked still holds when sendDecision sends.
THEOREM AdapterAcceptIsStillDue == Spec => AcceptIsStillDue
<1>1. AdapterInv /\ [Next]_vars =>
        [NoAcceptInDisturbedTurn /\ NoAcceptOverUnresolvedJournal /\ NoAcceptAfterCompletion]_vars
  <2> SUFFICES ASSUME AdapterInv, [Next]_vars
               PROVE  NoAcceptInDisturbedTurn /\ NoAcceptOverUnresolvedJournal
                        /\ NoAcceptAfterCompletion
    OBVIOUS
  <2>1. ASSUME NEW q \in Requests, AcceptReceived(q)
        PROVE  /\ TurnOf[approval[q].item] \notin disturbed
               /\ \A p \in Requests \ owned : journal[p] \notin UnresolvedStates
               /\ enforced /\ approval[q].kind = "file_change" =>
                    approval[q].item \notin turn[TurnOf[approval[q].item]].completed
    <3>1. op.phase = "accept" /\ op.q = q
      BY <2>1, AcceptIsSent
    <3>2. /\ turn[TurnOf[approval[q].item]].blocked = FALSE /\ approval[q].kind # "absent"
          /\ \A r \in Requests : r \notin owned => journal[r] \notin UnresolvedStates
      BY <3>1, InvParts DEF OpIsSound, Answering
    <3>3. TurnOf[approval[q].item] \in Turns
      BY <3>2, InvParts, Types DEF RequestIsSound
    <3>4. TurnOf[approval[q].item] \notin disturbed
      BY <3>2, <3>3, InvParts DEF TurnIsSound
    <3>5. ASSUME enforced, approval[q].kind = "file_change"
          PROVE  approval[q].item \notin turn[TurnOf[approval[q].item]].completed
      <4>1. enforced = TRUE
        BY <3>5, InvParts, Types
      <4>2. PICK i \in Items : /\ i = op.i /\ item[i].request = q
                               /\ i \notin turn[TurnOf[i]].completed
        BY <3>1, <3>5, <4>1, InvParts DEF OpIsSound, Governing
      <4>3. approval[q].item = i
        BY <4>2, InvParts, AdapterAssumption DEF ItemIsSound
      <4> QED
        BY <4>2, <4>3
    <3> QED
      BY <3>2, <3>4, <3>5
  <2> QED
    BY <2>1 DEF NoAcceptInDisturbedTurn, NoAcceptOverUnresolvedJournal, NoAcceptAfterCompletion
<1> QED
  BY <1>1, AdapterInvariant, PTL DEF Spec, AcceptIsStillDue

-----------------------------------------------------------------------------
(* The authorization kernel.                                               *)

\* What a resource implies lies below it, and so does what that implies.
LEMMA BelowIsTransitive ==
  ASSUME NEW a \in Seq(Components), NEW b \in Seq(Components), NEW c \in Seq(Components),
         Below(a, b), Below(b, c)
  PROVE  Below(a, c)
<1>1. /\ a # <<>> /\ Len(a) <= Len(b) /\ Len(b) <= Len(c)
      /\ \A n \in 1..Len(a) : b[n] = a[n]
      /\ \A n \in 1..Len(b) : c[n] = b[n]
  BY DEF Below
<1>2. Len(a) \in Nat /\ Len(b) \in Nat /\ Len(c) \in Nat
  OBVIOUS
<1>3. Len(a) <= Len(c)
  BY <1>1, <1>2
<1>4. ASSUME NEW n \in 1..Len(a) PROVE c[n] = a[n]
  <2>1. n \in 1..Len(b)
    BY <1>1, <1>2
  <2> QED
    BY <1>1, <2>1
<1> QED
  BY <1>1, <1>3, <1>4 DEF Below

\* ResourceImplies: one grant covers what another covers that it implies, if
\* the other is not spelled "*", which "*/**" implies too.
LEMMA ResourceImpliesIsTransitive ==
  ASSUME NEW r \in Resources, NEW s \in Resources, NEW t \in Resources,
         ResourceImplies(r, s), ResourceImplies(s, t), ~Literally(s, Star)
  PROVE  ResourceImplies(r, t)
<1>1. /\ ~Literally(r, DenyName)
      /\ \/ Literally(r, Star)
         \/ r.at = s.at /\ (r.tree \/ ~s.tree)
         \/ r.tree /\ Below(r.at, s.at)
      /\ \/ s.at = t.at /\ (s.tree \/ ~t.tree)
         \/ s.tree /\ Below(s.at, t.at)
  BY DEF ResourceImplies
<1>2. /\ r.at \in Seq(Components) /\ s.at \in Seq(Components) /\ t.at \in Seq(Components)
      /\ r.tree \in BOOLEAN /\ s.tree \in BOOLEAN /\ t.tree \in BOOLEAN
  BY DEF Resources
<1>3. CASE Literally(r, Star)
  BY <1>1, <1>3 DEF ResourceImplies
<1>4. CASE r.at = s.at /\ (r.tree \/ ~s.tree)
  <2>1. CASE s.at = t.at /\ (s.tree \/ ~t.tree)
    BY <1>1, <1>4, <2>1 DEF ResourceImplies
  <2>2. CASE s.tree /\ Below(s.at, t.at)
    BY <1>1, <1>4, <2>2 DEF ResourceImplies
  <2> QED
    BY <1>1, <2>1, <2>2
<1>5. CASE r.tree /\ Below(r.at, s.at)
  <2>1. Below(r.at, t.at)
    BY <1>1, <1>2, <1>5, BelowIsTransitive
  <2> QED
    BY <1>1, <1>5, <2>1 DEF ResourceImplies
<1> QED
  BY <1>1, <1>3, <1>4, <1>5

\* The forms of a scope have resources.
LEMMA ScopeTypes ==
  ASSUME NEW s \in Scopes
  PROVE  /\ s.access \in Accesses
         /\ s.resource \in Resources /\ s.canonical.resource \in Resources
         /\ Structured(s).resource = s.resource /\ Structured(s).action = CanonicalAction(s)
         /\ Canonical(s).resource \in Resources
         /\ Canonical(s).action = CanonicalAction(s)
<1>1. s.access \in Accesses /\ s.resource \in Resources /\ s.canonical.resource \in Resources
  BY DEF Scopes
<1>2. Structured(s).resource = s.resource /\ Structured(s).action = CanonicalAction(s)
  BY DEF Structured
<1>3. Canonical(s).resource \in Resources
  BY <1>1, <1>2 DEF Canonical
<1>4. Canonical(s).action = CanonicalAction(s)
  BY <1>2 DEF Canonical, CanonicalMatches, CapabilityImplies
<1> QED
  BY <1>1, <1>2, <1>3, <1>4

\* CapabilityImplies: a grant covers what a scope covers that it implies, if
\* the scope is not for "*".
LEMMA CapabilityImpliesIsTransitive ==
  ASSUME NEW a, NEW b, NEW c,
         a.resource \in Resources, b.resource \in Resources, c.resource \in Resources,
         CapabilityImplies(a, b), CapabilityImplies(b, c), ~Literally(b.resource, Star)
  PROVE  CapabilityImplies(a, c)
<1>1. ResourceImplies(a.resource, c.resource)
  BY ResourceImpliesIsTransitive DEF CapabilityImplies
<1> QED
  BY <1>1 DEF CapabilityImplies

\* The paths of changes.
LEMMA TouchedPaths ==
  ASSUME NEW changes \in SUBSET Changes, NEW p \in Touched(changes)
  PROVE  /\ p \in Paths /\ changes # {}
         /\ WriteTo(p).resource \in Resources /\ WriteTo(p).action = "fs.write"
<1>1. p \in Paths /\ changes # {}
  BY DEF Touched, Changes
<1> QED
  BY <1>1 DEF WriteTo, Exactly, Paths, Resources

\* The parts of a decision.
LEMMA DecisionTypes ==
  ASSUME NEW x \in Decisions
  PROVE  /\ x.facts \in Facts /\ x.facts.changes \in SUBSET Changes
         /\ x.requested \in SUBSET Scopes /\ x.ceiling \in SUBSET Scopes
         /\ x.semantic \in 0..3
BY DEF Decisions, Facts

\* authorizeCapabilityFacts: what is not blocked keeps to its request and the
\* request to its ceiling, so that it writes within its ceiling.
LEMMA UnblockedWrites ==
  ASSUME NEW f, f.changes \in SUBSET Changes,
         NEW requested \in SUBSET Scopes, NEW ceiling \in SUBSET Scopes,
         ~Blocked(f, requested, ceiling), NEW p \in Touched(f.changes)
  PROVE  \E s \in requested :
           /\ s.access = "write"
           /\ \E g \in ceiling : CapabilityImplies(Canonical(g), Canonical(s))
           /\ ~Literally(Canonical(s).resource, Star) => Covers(ceiling, WriteTo(p))
<1>1. f.changes # {} /\ WriteTo(p).resource \in Resources
  BY TouchedPaths
<1>2. factualFileWritesAreRequested(f, requested)
  BY <1>1 DEF Blocked
<1>3. Covers(FileWrites(requested), WriteTo(p))
  BY <1>2 DEF factualFileWritesAreRequested
<1>4. PICK s \in FileWrites(requested) : CapabilityImplies(Canonical(s), WriteTo(p))
  BY <1>3 DEF Covers
<1>5. s \in requested /\ s.access = "write"
  BY <1>4 DEF FileWrites
<1>6. s \in AllowedByCeiling(requested, ceiling)
  BY <1>5 DEF Blocked
<1>7. PICK g \in ceiling : CapabilityImplies(Canonical(g), Canonical(s))
  BY <1>6 DEF AllowedByCeiling, Covers
<1>8. s \in Scopes /\ g \in Scopes
  BY <1>5, <1>7
<1>9. Canonical(s).resource \in Resources /\ Canonical(g).resource \in Resources
  BY <1>8, ScopeTypes
<1>10. ASSUME ~Literally(Canonical(s).resource, Star) PROVE Covers(ceiling, WriteTo(p))
  <2>1. CapabilityImplies(Canonical(g), WriteTo(p))
    BY <1>1, <1>4, <1>7, <1>9, <1>10, CapabilityImpliesIsTransitive
  <2> QED
    BY <1>7, <2>1 DEF Covers
<1> QED
  BY <1>5, <1>7, <1>10

LEMMA CeilingOfCases == UnblockedIsWithinCeiling
<1> SUFFICES ASSUME NEW x \in Cases, Of(x) # "blocked", ~AsksForEverything(x.requested),
                    NEW p \in Touched(x.facts.changes)
             PROVE  Covers(x.ceiling, WriteTo(p))
  BY DEF UnblockedIsWithinCeiling
<1>1. x \in Decisions
  BY AuthorizationAssumption
<1>2. ~Blocked(x.facts, x.requested, x.ceiling)
  BY DEF Of, Disposition
<1>3. PICK s \in x.requested :
        ~Literally(Canonical(s).resource, Star) => Covers(x.ceiling, WriteTo(p))
  BY <1>1, <1>2, DecisionTypes, UnblockedWrites
<1> QED
  BY <1>3 DEF AsksForEverything

\* Only reading has the actions of reading.
LEMMA ReadActions ==
  ASSUME NEW s \in Scopes, NEW g \in Scopes, g.access = "read",
         CapabilityImplies(Canonical(g), Canonical(s))
  PROVE  s.access = "read"
<1>1. CanonicalAction(g) \in KnownActions /\ CanonicalAction(s) = CanonicalAction(g)
  BY ScopeTypes DEF CapabilityImplies
<1>2. CanonicalAction(g) \in {"fs.read", "secret.read", "memory.read", "unknown"}
  BY DEF CanonicalAction
<1>3. CanonicalAction(s) \in {"fs.read", "secret.read", "memory.read"}
  BY <1>1, <1>2 DEF KnownActions
<1> QED
  BY <1>3 DEF CanonicalAction

LEMMA ReadOnlyCases == ReadOnlyCeilingGrantsNoWrite
<1> SUFFICES ASSUME NEW x \in Cases, \A s \in x.ceiling : ~isSideEffectingCapability(s)
             PROVE  /\ \A s \in AuthorizedCapabilities(x.facts, x.requested, x.ceiling) :
                         ~isSideEffectingCapability(s)
                    /\ x.facts.changes # {} => Of(x) = "blocked"
  BY DEF ReadOnlyCeilingGrantsNoWrite
<1>1. x \in Decisions
  BY AuthorizationAssumption
<1>2. /\ x.facts.changes \in SUBSET Changes
      /\ x.requested \in SUBSET Scopes /\ x.ceiling \in SUBSET Scopes
  BY <1>1, DecisionTypes
<1>3. ASSUME NEW s \in x.requested, \E g \in x.ceiling : CapabilityImplies(Canonical(g), Canonical(s))
      PROVE  s.access = "read"
  <2>1. PICK g \in x.ceiling : CapabilityImplies(Canonical(g), Canonical(s))
    BY <1>3
  <2>2. s \in Scopes /\ g \in Scopes /\ g.access = "read"
    BY <1>2, <1>3, <2>1 DEF isSideEffectingCapability
  <2> QED
    BY <2>1, <2>2, ReadActions
<1>4. ASSUME NEW s \in AuthorizedCapabilities(x.facts, x.requested, x.ceiling)
      PROVE  ~isSideEffectingCapability(s)
  <2>1. s \in x.requested /\ \E g \in x.ceiling : CapabilityImplies(Canonical(g), Canonical(s))
    BY <1>4 DEF AuthorizedCapabilities, AllowedByCeiling, Covers
  <2> QED
    BY <1>3, <2>1 DEF isSideEffectingCapability
<1>5. ASSUME x.facts.changes # {}, ~Blocked(x.facts, x.requested, x.ceiling) PROVE FALSE
  <2>1. PICK p : p \in Touched(x.facts.changes)
    BY <1>5 DEF Touched
  <2>2. PICK s \in x.requested :
          /\ s.access = "write"
          /\ \E g \in x.ceiling : CapabilityImplies(Canonical(g), Canonical(s))
          /\ ~Literally(Canonical(s).resource, Star) => Covers(x.ceiling, WriteTo(p))
    BY <1>2, <1>5, <2>1, UnblockedWrites, Zenon
  <2> QED
    BY <1>3, <2>2
<1>6. x.facts.changes # {} => Of(x) = "blocked"
  BY <1>5 DEF Of, Disposition
<1> QED
  BY <1>4, <1>6

LEMMA CanonicalOfCases == CanonicalIsNoWider
<1> SUFFICES ASSUME NEW s \in ScopeCases, NEW t \in ScopeCases,
                    CapabilityImplies(Canonical(s), Structured(t)),
                    ~Literally(Canonical(s).resource, Star)
             PROVE  CapabilityImplies(Structured(s), Structured(t))
  BY DEF CanonicalIsNoWider
<1>1. s \in Scopes /\ t \in Scopes
  BY AuthorizationAssumption
<1>2. CASE CanonicalMatches(s)
  <2>1. Canonical(s) = s.canonical /\ CapabilityImplies(Structured(s), s.canonical)
    BY <1>2 DEF Canonical, CanonicalMatches
  <2>2. /\ Structured(s).resource \in Resources /\ Structured(t).resource \in Resources
        /\ s.canonical.resource \in Resources
    BY <1>1, ScopeTypes
  <2> QED
    BY <2>1, <2>2, CapabilityImpliesIsTransitive
<1>3. CASE ~CanonicalMatches(s)
  BY <1>3 DEF Canonical
<1> QED
  BY <1>2, <1>3

LEMMA ContextOfGrants == LessContextNeverAllows
<1> SUFFICES ASSUME NEW x \in GrantCases, NEW b \in Bindings,
                    Allowed(x.grants, x.requested, [x.context EXCEPT ![b] = "none"]),
                    ~\E g \in x.grants : g.bound[b] # "none" /\ \E s \in g.scopes : IsDeny(s)
             PROVE  Allowed(x.grants, x.requested, x.context)
  BY DEF LessContextNeverAllows
<1> DEFINE less == [x.context EXCEPT ![b] = "none"]
<1>1. less[b] = "none" /\ \A c \in Bindings : c # b => less[c] = x.context[c]
  BY AuthorizationAssumption
<1>2. Allowed(x.grants, x.requested, less)
  OBVIOUS
<1> HIDE DEF less
<1>3. ASSUME NEW g, Usable(g, less) PROVE Usable(g, x.context)
  BY <1>1, <1>3 DEF Usable
<1>4. ASSUME NEW g, Usable(g, x.context), g.bound[b] = "none" PROVE Usable(g, less)
  BY <1>1, <1>4 DEF Usable
<1>5. /\ ~\E g \in x.grants : Usable(g, less) /\
            \E s \in g.scopes : IsDeny(s) /\ s.action = x.requested.action
      /\ \E g \in x.grants : Usable(g, less) /\
            \E s \in g.scopes : CapabilityImplies(s, x.requested)
  BY <1>2, Zenon DEF Allowed
<1>6. /\ ~\E g \in x.grants : Usable(g, x.context) /\
            \E s \in g.scopes : IsDeny(s) /\ s.action = x.requested.action
      /\ \E g \in x.grants : Usable(g, x.context) /\
            \E s \in g.scopes : CapabilityImplies(s, x.requested)
  BY <1>3, <1>4, <1>5
<1> QED
  BY <1>6, Zenon DEF Allowed
\* Worse facts are at least as unsafe, unknown and sensitive.
LEMMA WorseFacts ==
  ASSUME NEW x \in Decisions, NEW y \in Decisions, NoBetter(x, y)
  PROVE  /\ Touched(x.facts.changes) \subseteq Touched(y.facts.changes)
         /\ Unsafe(x.facts.changes) => Unsafe(y.facts.changes)
         /\ deriveSensitivePaths(x.facts.changes) \subseteq deriveSensitivePaths(y.facts.changes)
         /\ SideEffectRequested(x.facts, x.requested) => SideEffectRequested(y.facts, y.requested)
         /\ UnsafePath(x.facts) => UnsafePath(y.facts)
         /\ UnknownWrite(x.facts) => UnknownWrite(y.facts)
         /\ (CriticalFacts(x.facts) \/ HighFacts(x.facts)) =>
              (CriticalFacts(y.facts) \/ HighFacts(y.facts))
<1> DEFINE f == x.facts
           g == y.facts
<1>1. /\ f.flags \subseteq g.flags /\ f.changes \subseteq g.changes
      /\ f.sensitivePaths \subseteq g.sensitivePaths
      /\ x.requested = y.requested
  BY DEF NoBetter
<1>2. /\ f.head = "mismatch" => g.head = "mismatch"
      /\ f.network # "none" => g.network # "none"
      /\ f.network = "unknown" => g.network = "unknown"
      /\ f.credential # "none" => g.credential # "none"
      /\ f.credential = "unknown" => g.credential = "unknown"
      /\ g.network \in {"none", "requested", "unknown"}
  <2>1. /\ f.head \in {"expected", "unstated", "mismatch"}
        /\ g.head \in {"expected", "unstated", "mismatch"}
        /\ f.network \in {"none", "requested", "unknown"}
        /\ g.network \in {"none", "requested", "unknown"}
        /\ f.credential \in {"none", "requested", "unknown"}
        /\ g.credential \in {"none", "requested", "unknown"}
    BY DEF Decisions, Facts
  <2>2. /\ HeadOrder[f.head] <= HeadOrder[g.head]
        /\ AccessOrder[f.network] <= AccessOrder[g.network]
        /\ AccessOrder[f.credential] <= AccessOrder[g.credential]
    BY DEF NoBetter
  <2> HIDE DEF f, g
  <2> QED
    BY <2>1, <2>2 DEF HeadOrder, AccessOrder
<1> HIDE DEF f, g
<1>3. Touched(f.changes) \subseteq Touched(g.changes)
  BY <1>1 DEF Touched
<1>4. Unsafe(f.changes) => Unsafe(g.changes)
  BY <1>3 DEF Unsafe
<1>5. deriveSensitivePaths(f.changes) \subseteq deriveSensitivePaths(g.changes)
  BY <1>3 DEF deriveSensitivePaths
<1>6. SideEffectRequested(f, x.requested) => SideEffectRequested(g, y.requested)
  BY <1>1 DEF SideEffectRequested
<1>7. UnsafePath(f) => UnsafePath(g)
  BY <1>1, <1>4 DEF UnsafePath
<1>8. Unknown(f) => Unknown(g)
  BY <1>1 DEF Unknown
<1>9. UnknownWrite(f) => UnknownWrite(g)
  BY <1>1, <1>2, <1>8 DEF UnknownWrite
<1>10. CriticalFacts(f) => CriticalFacts(g) \/ HighFacts(g)
  BY <1>1, <1>2, <1>5, <1>7 DEF CriticalFacts, HighFacts
<1>11. HighFacts(f) => HighFacts(g)
  BY <1>1, <1>2, <1>8 DEF HighFacts
<1> QED
  BY <1>3, <1>4, <1>5, <1>6, <1>7, <1>9, <1>10, <1>11 DEF f, g

\* The effective risk is low or medium if neither the text nor a fact says
\* otherwise.
LEMMA EffectiveRisk ==
  ASSUME NEW f, NEW semantic \in 0..3
  PROVE  /\ maxRisk(semantic, scoreCapabilityFactsRisk(f)) \in 0..3
         /\ maxRisk(semantic, scoreCapabilityFactsRisk(f)) < 2 <=>
              semantic < 2 /\ ~CriticalFacts(f) /\ ~HighFacts(f)
BY DEF maxRisk, scoreCapabilityFactsRisk

\* A decision is one of the four.
LEMMA DispositionIsOneOf ==
  ASSUME NEW x
  PROVE  /\ Of(x) \in {"blocked", "authorized", "policy_auto", "human_required"}
         /\ Of(x) = "blocked" <=> Blocked(x.facts, x.requested, x.ceiling)
BY DEF Of, Disposition

\* What would not be blocked with worse facts is not blocked.
LEMMA BlockedIsMonotone ==
  ASSUME NEW x \in Decisions, NEW y \in Decisions, NoBetter(x, y),
         ~Blocked(y.facts, y.requested, y.ceiling)
  PROVE  ~Blocked(x.facts, x.requested, x.ceiling)
<1> DEFINE f == x.facts
           g == y.facts
<1>1. /\ f.changes \subseteq g.changes /\ x.requested = y.requested /\ y.ceiling \subseteq x.ceiling
      /\ deriveSensitivePaths(f.changes) \cap g.sensitivePaths \subseteq f.sensitivePaths
  BY DEF NoBetter
<1>2. AllowedByCeiling(x.requested, x.ceiling) = x.requested
  <2>1. AllowedByCeiling(y.requested, y.ceiling) = y.requested
    BY DEF Blocked
  <2>2. \A r \in x.requested : Covers(y.ceiling, Canonical(r))
    BY <1>1, <2>1 DEF AllowedByCeiling
  <2>3. \A r \in x.requested : Covers(x.ceiling, Canonical(r))
    BY <1>1, <2>2 DEF Covers
  <2> QED
    BY <2>3 DEF AllowedByCeiling
<1>3. f.changes # {} => factualFileWritesAreRequested(f, x.requested)
  <2> SUFFICES ASSUME f.changes # {} PROVE factualFileWritesAreRequested(f, x.requested)
    OBVIOUS
  <2>1. factualFileWritesAreRequested(g, y.requested)
    BY <1>1 DEF Blocked
  <2>2. Touched(f.changes) \subseteq Touched(g.changes)
    BY WorseFacts
  <2> QED
    BY <1>1, <2>1, <2>2 DEF factualFileWritesAreRequested
<1>4. deriveSensitivePaths(f.changes) \subseteq f.sensitivePaths
  <2>1. deriveSensitivePaths(g.changes) \subseteq g.sensitivePaths
    BY DEF Blocked
  <2>2. deriveSensitivePaths(f.changes) \subseteq deriveSensitivePaths(g.changes)
    BY WorseFacts
  <2> HIDE DEF f, g
  <2> QED
    BY <1>1, <2>1, <2>2
<1>5. ~(SideEffectRequested(f, x.requested) /\ (UnsafePath(f) \/ UnknownWrite(f)))
  <2>1. ~(SideEffectRequested(g, y.requested) /\ (UnsafePath(g) \/ UnknownWrite(g)))
    BY DEF Blocked
  <2> QED
    BY <2>1, WorseFacts
<1> QED
  BY <1>2, <1>3, <1>4, <1>5 DEF Blocked

\* What policy would approve with worse facts needs no person.
LEMMA PolicyAutoIsMonotone ==
  ASSUME NEW x \in Decisions, NEW y \in Decisions, NoBetter(x, y), Of(y) = "policy_auto"
  PROVE  Of(x) \in {"authorized", "policy_auto"}
<1> DEFINE f == x.facts
           g == y.facts
           risk == maxRisk(x.semantic, scoreCapabilityFactsRisk(f))
           worse == maxRisk(y.semantic, scoreCapabilityFactsRisk(g))
<1>1. ~Blocked(y.facts, y.requested, y.ceiling) /\ isPolicyAutoCandidate(g, worse)
  BY DEF Of, Disposition
<1>2. ~Blocked(x.facts, x.requested, x.ceiling)
  BY <1>1, BlockedIsMonotone
<1>3. x.semantic \in 0..3 /\ y.semantic \in 0..3 /\ x.semantic <= y.semantic
  BY DecisionTypes DEF NoBetter
<1>4. risk < 2
  <2>1. worse \in 0..3 /\ worse <= 1
    BY <1>1, <1>3, EffectiveRisk DEF isPolicyAutoCandidate
  <2>2. worse < 2
    <3> HIDE DEF worse
    <3> QED
      BY <2>1
  <2>3. y.semantic < 2 /\ ~CriticalFacts(g) /\ ~HighFacts(g)
    BY <1>3, <2>2, EffectiveRisk
  <2>4. ~CriticalFacts(f) /\ ~HighFacts(f)
    BY <2>3, WorseFacts
  <2> QED
    BY <1>3, <2>3, <2>4, EffectiveRisk
<1>5. CASE f.changes = {}
  <2>1. ~SideEffectRequested(f, x.requested)
    BY <1>1, <1>5 DEF NoBetter, isPolicyAutoCandidate
  <2> HIDE DEF risk
  <2>2. Of(x) = "authorized"
    BY <1>2, <1>4, <2>1 DEF Of, Disposition, risk
  <2> QED
    BY <2>2
<1>6. CASE f.changes # {}
  <2>1. /\ \A c \in g.changes : c.kind \in {"create", "update"}
        /\ ~Unsafe(g.changes) /\ g.head = "expected"
        /\ g.network = "none" /\ g.credential = "none"
        /\ g.sensitivePaths = {} /\ deriveSensitivePaths(g.changes) = {}
        /\ g.flags = {}
    BY <1>1 DEF isPolicyAutoCandidate
  <2>2. /\ f.flags \subseteq g.flags /\ f.changes \subseteq g.changes
        /\ f.sensitivePaths \subseteq g.sensitivePaths
        /\ HeadOrder[f.head] <= HeadOrder[g.head]
        /\ AccessOrder[f.network] <= AccessOrder[g.network]
        /\ AccessOrder[f.credential] <= AccessOrder[g.credential]
    BY DEF NoBetter
  <2>3. /\ f.head \in {"expected", "unstated", "mismatch"}
        /\ f.network \in {"none", "requested", "unknown"}
        /\ f.credential \in {"none", "requested", "unknown"}
    BY DEF Decisions, Facts
  <2>4. ~Unsafe(f.changes) /\ deriveSensitivePaths(f.changes) \subseteq deriveSensitivePaths(g.changes)
    BY <2>1, WorseFacts
  <2>5. risk \in 0..3
    BY <1>3, EffectiveRisk
  <2> HIDE DEF f, g, risk, worse
  <2>6. f.head = "expected" /\ f.network = "none" /\ f.credential = "none"
    BY <2>1, <2>2, <2>3 DEF HeadOrder, AccessOrder
  <2>7. risk <= 1
    BY <1>4, <2>5
  <2>8. isPolicyAutoCandidate(f, risk)
    BY <1>6, <2>1, <2>2, <2>4, <2>6, <2>7 DEF isPolicyAutoCandidate
  <2> QED
    BY <1>2, <2>8 DEF Of, Disposition, f, risk
<1> QED
  BY <1>5, <1>6

\* authorizeCapabilityFacts, for all decisions.
LEMMA DecisionsAreMonotone ==
  ASSUME NEW x \in Decisions, NEW y \in Decisions, NoBetter(x, y)
  PROVE  Strictness[Of(x)] <= Strictness[Of(y)]
<1>1. CASE Of(y) = "blocked"
  BY <1>1, DispositionIsOneOf DEF Strictness
<1>2. CASE Of(y) = "policy_auto"
  <2>1. Of(x) \in {"authorized", "policy_auto"}
    BY <1>2, PolicyAutoIsMonotone
  <2> QED
    BY <1>2, <2>1 DEF Strictness
<1>3. CASE Of(y) = "human_required"
  <2>1. ~Blocked(y.facts, y.requested, y.ceiling)
    BY <1>3, DispositionIsOneOf
  <2>2. ~Blocked(x.facts, x.requested, x.ceiling)
    BY <2>1, BlockedIsMonotone
  <2>3. Of(x) \in {"authorized", "policy_auto", "human_required"}
    BY <2>2, DispositionIsOneOf
  <2> QED
    BY <1>3, <2>3 DEF Strictness
<1>4. CASE Of(y) = "authorized"
  <2>1. ~Blocked(y.facts, y.requested, y.ceiling)
    BY <1>4, DispositionIsOneOf
  <2>2. ~Blocked(x.facts, x.requested, x.ceiling)
    BY <2>1, BlockedIsMonotone
  <2>3. /\ ~SideEffectRequested(y.facts, y.requested)
        /\ maxRisk(y.semantic, scoreCapabilityFactsRisk(y.facts)) < 2
    BY <1>4 DEF Of, Disposition
  <2>4. x.semantic \in 0..3 /\ y.semantic \in 0..3 /\ x.semantic <= y.semantic
    BY DecisionTypes DEF NoBetter
  <2>5. y.semantic < 2 /\ ~CriticalFacts(y.facts) /\ ~HighFacts(y.facts)
    BY <2>3, <2>4, EffectiveRisk
  <2>6. /\ ~SideEffectRequested(x.facts, x.requested)
        /\ ~CriticalFacts(x.facts) /\ ~HighFacts(x.facts)
    BY <2>3, <2>5, WorseFacts
  <2>7. maxRisk(x.semantic, scoreCapabilityFactsRisk(x.facts)) < 2
    BY <2>4, <2>5, <2>6, EffectiveRisk
  <2>8. Of(x) = "authorized"
    BY <2>2, <2>6, <2>7 DEF Of, Disposition
  <2> QED
    BY <1>4, <2>8 DEF Strictness
<1> QED
  BY <1>1, <1>2, <1>3, <1>4, DispositionIsOneOf

\* handleApprovalRequested: what policy accepts is safe, not sensitive and
\* within the ceiling, for any proposal.
LEMMA PolicyAcceptsContained == PolicyAcceptsContainedOnly
<1> SUFFICES ASSUME NEW p \in Proposals, FileChangeVerdict(p) = "auto",
                    NEW target \in Touched(p.changes)
             PROVE  /\ isSafeGovernedPath(target) /\ ~isSensitiveGovernedPath(target)
                    /\ Covers(CapabilityCeiling, WriteTo(target))
  BY DEF PolicyAcceptsContainedOnly
<1> DEFINE f == deriveCapabilityFacts(p.changes, p.context)
           requested == RequestedFor(p.changes)
           semantic == classifySemanticRiskSignal(p.text)
<1>1. p.changes \in SUBSET Changes /\ CapabilityCeiling \in SUBSET Scopes
  BY AdapterAssumption
<1>2. Disposition(f, semantic, requested, CapabilityCeiling) = "policy_auto"
  BY DEF FileChangeVerdict
<1>3. /\ ~Blocked(f, requested, CapabilityCeiling)
      /\ f.flags = {} /\ f.sensitivePaths = {}
  <2> HIDE DEF f, requested, semantic
  <2> QED
    BY <1>2 DEF Disposition, isPolicyAutoCandidate
<1>4. /\ f.changes = {[c EXCEPT !.path = Normalized(@), !.old = Normalized(@)] : c \in p.changes}
      /\ f.sensitivePaths = deriveSensitivePaths(p.changes)
      /\ Unsafe(p.changes) => "unsafe_governed_path" \in f.flags
  BY DEF deriveCapabilityFacts
<1> HIDE DEF f, semantic
<1>5. \A q \in Touched(p.changes) : isSafeGovernedPath(q)
  BY <1>3, <1>4 DEF Unsafe
<1>6. ~isSensitiveGovernedPath(target)
  <2>1. Normalized(target).at = target.at
    <3>1. target \in Paths
      BY <1>1, TouchedPaths
    <3> QED
      BY <3>1 DEF Paths, Normalized
  <2>2. Normalized(target) \notin deriveSensitivePaths(p.changes)
    BY <1>3, <1>4
  <2>3. ~isSensitiveGovernedPath(Normalized(target))
    BY <2>2 DEF deriveSensitivePaths
  <2> QED
    BY <2>1, <2>3 DEF isSensitiveGovernedPath
<1>7. \A q \in Touched(p.changes) : q \in Paths /\ Normalized(q) = q
  <2> SUFFICES ASSUME NEW q \in Touched(p.changes) PROVE q \in Paths /\ Normalized(q) = q
    OBVIOUS
  <2>1. q \in Paths
    BY <1>1, TouchedPaths
  <2>2. q.plain = TRUE
    BY <1>5, <2>1 DEF isSafeGovernedPath, Paths
  <2> QED
    BY <2>1, <2>2 DEF Paths, Normalized
<1>8. \A c \in p.changes : [c EXCEPT !.path = Normalized(@), !.old = Normalized(@)] = c
  <2> SUFFICES ASSUME NEW c \in p.changes
               PROVE  [c EXCEPT !.path = Normalized(@), !.old = Normalized(@)] = c
    OBVIOUS
  <2>1. c \in [kind : ChangeKinds, path : Paths, old : Paths]
    BY <1>1 DEF Changes
  <2>2. Normalized(c.path) = c.path /\ Normalized(c.old) = c.old
    BY <1>7 DEF Touched
  <2> QED
    BY <2>1, <2>2
<1>9. f.changes = p.changes
  <2> DEFINE Norm(c) == [c EXCEPT !.path = Normalized(@), !.old = Normalized(@)]
  <2>1. f.changes = {Norm(c) : c \in p.changes} /\ \A c \in p.changes : Norm(c) = c
    BY <1>4, <1>8
  <2> HIDE DEF Norm
  <2> QED
    BY <2>1
<1>10. requested \in SUBSET Scopes
  <2> SUFFICES ASSUME NEW s \in requested PROVE s \in Scopes
    OBVIOUS
  <2>1. PICK c \in p.changes : s = [kind |-> "file", access |-> "write", family |-> "none",
                                    resource |-> Exactly(c.path), canonical |-> NoScope]
    BY DEF RequestedFor
  <2>2. Exactly(c.path) \in Resources
    BY <1>7 DEF Touched, Exactly, Paths, Resources
  <2>3. NoScope \in [action : KnownActions \cup {"none"}, resource : Resources]
    BY DEF NoScope, Resources
  <2> QED
    BY <2>1, <2>2, <2>3 DEF Scopes, Kinds, Accesses
<1>11. ASSUME NEW s \in requested PROVE ~Literally(Canonical(s).resource, Star)
  <2>1. PICK c \in p.changes : s = [kind |-> "file", access |-> "write", family |-> "none",
                                    resource |-> Exactly(c.path), canonical |-> NoScope]
    BY <1>11 DEF RequestedFor
  <2>2. ~CanonicalMatches(s)
    BY <2>1 DEF CanonicalMatches, CapabilityImplies, NoScope, KnownActions
  <2>3. Canonical(s).resource = Exactly(c.path)
    BY <2>1, <2>2 DEF Canonical, Structured
  <2>4. isSafeGovernedPath(c.path)
    BY <1>5 DEF Touched
  <2>5. c.path.at # <<Star>>
    BY <2>4, AuthorizationAssumption DEF isSafeGovernedPath
  <2> QED
    BY <2>3, <2>5 DEF Literally, Exactly
<1>12. Covers(CapabilityCeiling, WriteTo(target))
  <2> HIDE DEF requested
  <2>1. \E s \in requested : /\ s.access = "write"
                             /\ \E g \in CapabilityCeiling : CapabilityImplies(Canonical(g), Canonical(s))
                             /\ ~Literally(Canonical(s).resource, Star) => Covers(CapabilityCeiling, WriteTo(target))
    BY <1>1, <1>3, <1>9, <1>10, UnblockedWrites
  <2> QED
    BY <1>11, <2>1
<1> QED
  BY <1>5, <1>6, <1>12

\* Of an enforced session, handleApprovalRequested: a change that policy
\* accepts without a person writes only safe paths, as spelled, that are not
\* sensitive and within the session's ceiling, for all sets of proposals.
THEOREM AdapterAutoAcceptIsContained == Spec => []AutoAcceptIsContained
<1>1. AutoAcceptIsContained
  BY PolicyAcceptsContained DEF AutoAcceptIsContained
<1> QED
  BY <1>1, PTL

\* Of an enforced session, authorizeCapabilityFacts: worse facts, a riskier
\* text or a narrower ceiling never make the decision more lenient, for all
\* sets of decisions that are compared.
THEOREM AdapterDecisionIsMonotone == Spec => []DecisionIsMonotone
<1>1. WorseFactsNeverRelax
  <2> SUFFICES ASSUME NEW x \in Compared, NEW y \in Worsened(x), NoBetter(x, y)
               PROVE  Strictness[Of(x)] <= Strictness[Of(y)]
    BY DEF WorseFactsNeverRelax
  <2>1. x \in Decisions /\ y \in Decisions
    BY AuthorizationAssumption
  <2> QED
    BY <2>1, DecisionsAreMonotone
<1>2. DecisionIsMonotone
  BY <1>1 DEF DecisionIsMonotone
<1> QED
  BY <1>2, PTL

\* Of an enforced session, authorizeCapabilityFacts and the capability
\* matcher: however a ceiling, a request or a grant is spelled or bound, it
\* never lets through more than it says, for all decisions, scopes and grants.
THEOREM AdapterCeilingIsRespected == Spec => []CeilingIsRespected
<1>1. CeilingIsRespected
  BY CeilingOfCases, ReadOnlyCases, CanonicalOfCases, ContextOfGrants
     DEF CeilingIsRespected, CeilingHolds
<1> QED
  BY <1>1, PTL
=============================================================================
