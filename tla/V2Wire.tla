------------------------------- MODULE V2Wire -------------------------------
(***************************************************************************)
(* The bridge between the App Server's wire and the adapter                *)
(* (codex-adapter/src/v2-wire.ts): CodexAppServerV2WireNormalizer turns    *)
(* wire messages into numbered events and keeps what it must remember to   *)
(* correlate them; CodexAppServerV2WireAdapter hands the events to the     *)
(* adapter and reports every rejection as a disconnect;                    *)
(* CodexAppServerV2WireTransport encodes the adapter's answers.            *)
(*                                                                         *)
(* A wire message is normalized and its event handed to adapter.ingest in  *)
(* one synchronous stretch of code, so its arrival is one action.  The     *)
(* adapter works through its events one at a time and awaits its sends:    *)
(* `events' is what it was handed and has not finished, and the wire may   *)
(* run ahead of it.  The server is not trusted: any message may arrive at  *)
(* any time, again, or not at all.  Messages the normalizer ignores        *)
(* without remembering anything (progress, turn and diff notifications,    *)
(* non-file items, currentTime/read...) change nothing and have no action. *)
(***************************************************************************)
EXTENDS Naturals, Sequences, FiniteSets

CONSTANTS
  Threads, Turns, Items,
  ThreadOf,            \* the thread of a turn
  TurnOf,              \* the turn of an item (an item is its whole itemKey)
  WireIds,             \* JSON-RPC ids, numbers and strings
  CanonicalId,         \* String(id): a number and a string may collide
  Contents,            \* canonical change sets of an item
  RawForms,            \* ways to write one change set on the wire
  Heads, Hashes,       \* what the evidence provider reads in the workspace
  Profiles,            \* permission profiles a request may ask for
  Offers,              \* sets of decisions a command request may advertise
  Undefined, Empty,    \* an absent value; a patch without a usable diff
  MaxMessages,         \* bound on wire messages after the handshake
  MaxTrackedSnapshots  \* MAX_TRACKED_FILE_CHANGE_SNAPSHOTS (4096)

\* Entries of a permission profile: write access to a directory, and a place
\* below it carved out as read-only or as not accessible.
Entries == {"write", "read_below", "deny_below"}

RequestIds == {CanonicalId[w] : w \in WireIds}

ASSUME V2WireAssumption ==
  /\ ThreadOf \in [Turns -> Threads] /\ TurnOf \in [Items -> Turns]
  /\ Empty \notin Contents /\ Profiles \subseteq SUBSET Entries
  /\ MaxMessages \in Nat /\ MaxTrackedSnapshots \in Nat \ {0}

VARIABLES
  sessionState, compromised, disconnectEvent,
  seenWireHashes, sequenceByTurn, items, approvals, passthroughResolutions,
  ingestFailed,        \* an adapter.ingest rejected and was not yet reported
  sending,             \* the request whose answer is on its way
  events, view,        \* the adapter: events to come, what it knows
  answers,             \* what was handed to the wire, per request
  latest, accepted, final,  \* per item: last content on the wire, accepted, completed
  quiet,               \* threads whose end was taken without complaint
  messages             \* wire messages so far

normalizer == <<sessionState, compromised, disconnectEvent, seenWireHashes,
                sequenceByTurn, items, approvals, passthroughResolutions>>
adapterVars == <<ingestFailed, sending, view, answers, accepted>>
observed == <<latest, final, quiet>>
vars == <<normalizer, adapterVars, events, observed, messages>>

ChangeSets == [content : Contents, head : Heads, hash : Hashes]
TrackedItem ==
  [changeSet : ChangeSets, raw : (Contents \cup {Empty}) \X RawForms,
   seen : SUBSET Contents, bound : BOOLEAN,
   request : RequestIds \cup {Undefined}, completed : BOOLEAN]
\* A network request is treated as a command request.
Kinds == {"file_change", "command", "permission"}
Decisions == {"accept", "decline"}
CommandDecisions == {"accept", "acceptForSession", "decline", "cancel"}
ApprovalBinding ==
  [kind : Kinds, wireRequestId : WireIds, turn : Turns, item : Items \cup {Undefined},
   offer : Offers \cup {Undefined}, requested : SUBSET Entries,
   sentDecision : Decisions \cup {Undefined}, resolved : BOOLEAN]

\* What is absent is told from everything that is there.
ASSUME UndefinedAssumption ==
  /\ Undefined \notin Items \cup Turns \cup RequestIds
  /\ Undefined \notin ChangeSets /\ Undefined \notin TrackedItem
  /\ Undefined \notin ApprovalBinding
  /\ Undefined \notin Decisions \cup {"cancelled", "open"}

Event(type, t, i, r, data) ==
  [type |-> type, turn |-> t, seq |-> sequenceByTurn[t] + 1, item |-> i,
   request |-> r, data |-> data]
DisconnectEvent ==
  [type |-> "transport_disconnected", turn |-> Undefined, seq |-> 0,
   item |-> Undefined, request |-> Undefined, data |-> Undefined]

Init ==
  /\ sessionState = "awaiting_initialize_response"
  /\ compromised = "no" /\ disconnectEvent = FALSE
  /\ seenWireHashes = {} /\ sequenceByTurn = [t \in Turns |-> 0]
  /\ items = [i \in Items |-> Undefined]
  /\ approvals = [r \in RequestIds |-> Undefined]
  /\ passthroughResolutions = [r \in RequestIds |-> Undefined]
  /\ ingestFailed = FALSE /\ sending = Undefined /\ events = <<>>
  /\ view = [last |-> [t \in Turns |-> 0], change |-> [i \in Items |-> Undefined],
             done |-> {}, request |-> [r \in RequestIds |-> Undefined], told |-> FALSE]
  /\ answers = [r \in RequestIds |-> <<>>]
  /\ latest = [i \in Items |-> Undefined] /\ accepted = [i \in Items |-> Undefined]
  /\ final = [i \in Items |-> Undefined] /\ quiet = {} /\ messages = 0

-----------------------------------------------------------------------------
(* Parts of the handlers.                                                  *)

\* A wire message arrives.  Once the disconnect is reported every message is
\* blocked and none changes anything, so none is considered.
Arrives == ~disconnectEvent /\ messages < MaxMessages /\ messages' = messages + 1

\* normalizeUntrusted goes on only in an initialized, trusted session.
Trusted == compromised = "no" /\ sessionState = "ready"

\* recordWireHash: a message that was seen is a replay.
Fresh(m) == m \notin seenWireHashes
Record(m) == seenWireHashes' = seenWireHashes \cup {m}

\* Mutant: a session that is compromised already is taken to be reported.
DisconnectMutant ==
  /\ compromised' = IF compromised = "no" THEN "wire" ELSE compromised
  /\ disconnectEvent' = TRUE
  /\ events' = IF compromised # "no" THEN events ELSE Append(events, DisconnectEvent)

\* disconnect: the first call quarantines the session and makes the event.
NotifyDisconnect ==
  /\ compromised' = IF compromised = "no" THEN "wire" ELSE compromised
  /\ disconnectEvent' = TRUE
  /\ events' = IF disconnectEvent THEN events ELSE Append(events, DisconnectEvent)

\* quarantine, and the report of it by CodexAppServerV2WireAdapter.ingest.
\* What the session remembers is not read again.
Blocked ==
  /\ NotifyDisconnect
  /\ UNCHANGED <<sessionState, seenWireHashes, sequenceByTurn, items, approvals,
                 passthroughResolutions, final, quiet>>

\* nextSequence, and the hand-over of the event to adapter.ingest.
Emit(t, type, i, r, data) ==
  /\ sequenceByTurn' = [sequenceByTurn EXCEPT ![t] = @ + 1]
  /\ events' = Append(events, Event(type, t, i, r, data))

\* An id that is bound to nothing.
IdIsFree(r) == approvals[r] = Undefined /\ passthroughResolutions[r] = Undefined

\* Something of the thread is still governed.
ThreadHasOpenGovernance(h) ==
  \/ \E i \in Items : /\ ThreadOf[TurnOf[i]] = h
                      /\ items[i] # Undefined /\ ~items[i].completed
  \/ \E r \in RequestIds : /\ approvals[r] # Undefined
                           /\ ThreadOf[approvals[r].turn] = h /\ ~approvals[r].resolved

-----------------------------------------------------------------------------
(* The handshake.                                                          *)

\* acceptInitializeResponse: a response that is early, late or not the one
\* to our request ends the session.
AcceptInitializeResponse(valid) ==
  /\ ~disconnectEvent /\ UNCHANGED messages
  /\ \/ /\ compromised = "no" /\ sessionState = "awaiting_initialize_response" /\ valid
        /\ sessionState' = "awaiting_initialized_notification"
        /\ UNCHANGED <<compromised, disconnectEvent, seenWireHashes, sequenceByTurn, items,
                       approvals, passthroughResolutions, events, final, quiet>>
     \/ /\ ~(compromised = "no" /\ sessionState = "awaiting_initialize_response" /\ valid)
        /\ Blocked
  /\ UNCHANGED <<adapterVars, latest>>

\* acceptInitializedNotification.
AcceptInitializedNotification(valid) ==
  /\ ~disconnectEvent /\ UNCHANGED messages
  /\ \/ /\ compromised = "no" /\ sessionState = "awaiting_initialized_notification" /\ valid
        /\ sessionState' = "ready"
        /\ UNCHANGED <<compromised, disconnectEvent, seenWireHashes, sequenceByTurn, items,
                       approvals, passthroughResolutions, events, final, quiet>>
     \/ /\ ~(compromised = "no" /\ sessionState = "awaiting_initialized_notification" /\ valid)
        /\ Blocked
  /\ UNCHANGED <<adapterVars, latest>>

-----------------------------------------------------------------------------
(* The life of a file-change item.                                         *)

\* A message the normalizer has no use for: not JSON, too deep or too large,
\* of no known schema or method, systemError, active remote control, an
\* unsupported path or move.
InvalidMessage ==
  /\ Arrives /\ Blocked /\ UNCHANGED <<adapterVars, latest>>

\* A JSON-RPC response to another client request: taken once.
OtherResponse ==
  /\ Arrives
  /\ LET m == <<"response">> IN
     \/ /\ Trusted /\ Fresh(m) /\ Record(m)
        /\ UNCHANGED <<sessionState, compromised, disconnectEvent, sequenceByTurn, items,
                       approvals, passthroughResolutions, events, final, quiet>>
     \/ ~(Trusted /\ Fresh(m)) /\ Blocked
  /\ UNCHANGED <<adapterVars, latest>>

\* normalizeItemStarted with content c written as f; e is what
\* buildGovernedChangeSet gets from the evidence provider, Undefined when it
\* cannot bind the content.
ItemStarted(i, c, f, e) ==
  /\ Arrives
  /\ latest' = [latest EXCEPT ![i] = c]
  /\ LET m == <<"started", i, c, f>>
         ok == Trusted /\ Fresh(m) /\ items[i] = Undefined /\ e # Undefined
         changeSet == [content |-> c, head |-> e[1], hash |-> e[2]]
     IN \/ /\ ok /\ Record(m)
           /\ items' = [items EXCEPT ![i] =
                [changeSet |-> changeSet, raw |-> <<c, f>>, seen |-> {c}, bound |-> TRUE,
                 request |-> Undefined, completed |-> FALSE]]
           /\ Emit(TurnOf[i], "item_started", i, Undefined, changeSet)
           /\ quiet' = quiet \ {ThreadOf[TurnOf[i]]}
           /\ UNCHANGED <<sessionState, compromised, disconnectEvent, approvals,
                          passthroughResolutions, final>>
        \/ ~ok /\ Blocked
  /\ UNCHANGED adapterVars

\* Mutant: a patch may come while the approval is open.
PatchIsOpenMutant(i) == items[i] # Undefined /\ ~items[i].completed

\* normalizeFileChangePatchUpdated: a patch may come while the item is neither
\* completed nor submitted for approval.  Patches are not recorded as seen.
PatchIsOpen(i) ==
  items[i] # Undefined /\ ~items[i].completed /\ items[i].request = Undefined

\* A snapshot may not come back, and there is a limit to how many are tracked.
SnapshotIsNew(item, c) ==
  c \notin item.seen /\ Cardinality(item.seen) < MaxTrackedSnapshots

\* What the patch <<c, f>> with evidence e makes of the item: the item itself
\* when it says nothing new, an item without a bound snapshot when it has no
\* diff, and Undefined when the session must end.
Patched(i, c, f, e) ==
  LET item == items[i]
      changeSet == [content |-> c, head |-> e[1], hash |-> e[2]]
  IN IF <<c, f>> = item.raw THEN item
     ELSE IF c = Empty THEN [item EXCEPT !.raw = <<c, f>>, !.bound = FALSE]
     ELSE IF e = Undefined THEN Undefined
     ELSE IF changeSet.head # item.changeSet.head THEN Undefined
     ELSE IF c = item.changeSet.content
       THEN IF changeSet # item.changeSet THEN Undefined
            ELSE [item EXCEPT !.raw = <<c, f>>, !.bound = TRUE]
     ELSE IF ~SnapshotIsNew(item, c) THEN Undefined
     ELSE [item EXCEPT !.changeSet = changeSet, !.raw = <<c, f>>, !.bound = TRUE,
                       !.seen = @ \cup {c}]

\* An event goes out only for a new snapshot.
FileChangePatchUpdated(i, c, f, e) ==
  /\ Arrives
  /\ latest' = [latest EXCEPT ![i] = c]
  /\ LET ok == Trusted /\ PatchIsOpen(i) /\ Patched(i, c, f, e) # Undefined
     IN \/ /\ ok
           /\ items' = [items EXCEPT ![i] = Patched(i, c, f, e)]
           /\ IF items'[i].changeSet # items[i].changeSet
              THEN Emit(TurnOf[i], "item_updated", i, Undefined, items'[i].changeSet)
              ELSE UNCHANGED <<events, sequenceByTurn>>
           /\ UNCHANGED <<sessionState, compromised, disconnectEvent, seenWireHashes,
                          approvals, passthroughResolutions, final, quiet>>
        \/ ~ok /\ Blocked
  /\ UNCHANGED adapterVars

\* normalizeItemCompleted: only the bound snapshot completes, and an approval
\* that was asked for is resolved by then.
Completes(i, c) ==
  /\ items[i] # Undefined /\ ~items[i].completed /\ items[i].bound
  /\ items[i].request # Undefined => approvals[items[i].request].resolved
  /\ c = items[i].changeSet.content

ItemCompleted(i, c, outcome) ==
  /\ Arrives
  /\ LET m == <<"completed", i, c, outcome>>
         ok == Trusted /\ Fresh(m) /\ Completes(i, c)
     IN \/ /\ ok /\ Record(m)
           /\ items' = [items EXCEPT ![i].completed = TRUE]
           /\ Emit(TurnOf[i], "item_completed", i, Undefined, outcome)
           /\ final' = [final EXCEPT ![i] = c]
           /\ UNCHANGED <<sessionState, compromised, disconnectEvent, approvals,
                          passthroughResolutions, quiet>>
        \/ ~ok /\ Blocked
  /\ UNCHANGED <<adapterVars, latest>>

-----------------------------------------------------------------------------
(* Requests of the server.                                                 *)

\* normalizeFileApproval.
FileApproval(w, i) ==
  /\ Arrives
  /\ LET r == CanonicalId[w]
         m == <<"file_change", w, i>>
         ok == Trusted /\ Fresh(m) /\ PatchIsOpen(i) /\ items[i].bound /\ IdIsFree(r)
     IN \/ /\ ok /\ Record(m)
           /\ items' = [items EXCEPT ![i].request = r]
           /\ approvals' = [approvals EXCEPT ![r] =
                [kind |-> "file_change", wireRequestId |-> w, turn |-> TurnOf[i], item |-> i,
                 offer |-> Undefined, requested |-> {}, sentDecision |-> Undefined,
                 resolved |-> FALSE]]
           /\ Emit(TurnOf[i], "approval_requested", i, r, Undefined)
           /\ quiet' = quiet \ {ThreadOf[TurnOf[i]]}
           /\ UNCHANGED <<sessionState, compromised, disconnectEvent,
                          passthroughResolutions, final>>
        \/ ~ok /\ Blocked
  /\ UNCHANGED <<adapterVars, latest>>

\* normalizeManualApproval: a command (or network) request with the decisions
\* it advertises, or a permission request.  The item it names is not looked up.
ManualApproval(w, t, kind, offer, requested) ==
  /\ Arrives
  /\ LET r == CanonicalId[w]
         m == <<kind, w, t, offer, requested>>
         ok == Trusted /\ Fresh(m) /\ IdIsFree(r)
     IN \/ /\ ok /\ Record(m)
           /\ approvals' = [approvals EXCEPT ![r] =
                [kind |-> kind, wireRequestId |-> w, turn |-> t, item |-> Undefined,
                 offer |-> offer, requested |-> requested, sentDecision |-> Undefined,
                 resolved |-> FALSE]]
           /\ Emit(t, "approval_requested", Undefined, r, Undefined)
           /\ quiet' = quiet \ {ThreadOf[t]}
           /\ UNCHANGED <<sessionState, compromised, disconnectEvent, items,
                          passthroughResolutions, final>>
        \/ ~ok /\ Blocked
  /\ UNCHANGED <<adapterVars, latest>>

\* item/tool/requestUserInput and mcpServer/elicitation/request go to the
\* client; the id is remembered until the request is resolved.
PassthroughRequest(w, h) ==
  /\ Arrives
  /\ LET r == CanonicalId[w]
         m == <<"passthrough", w, h>>
         ok == Trusted /\ Fresh(m) /\ IdIsFree(r)
     IN \/ /\ ok /\ Record(m)
           /\ passthroughResolutions' = [passthroughResolutions EXCEPT ![r] = h]
           /\ UNCHANGED <<sessionState, compromised, disconnectEvent, sequenceByTurn, items,
                          approvals, events, final, quiet>>
        \/ ~ok /\ Blocked
  /\ UNCHANGED <<adapterVars, latest>>

\* The resolution the adapter is told: our answer, or none.
Resolution(approval) ==
  IF approval.sentDecision = Undefined THEN "cancelled" ELSE approval.sentDecision

\* normalizeRequestResolved.
RequestResolved(w, h) ==
  /\ Arrives
  /\ LET r == CanonicalId[w]
         m == <<"resolved", w, h>>
         ok == /\ Trusted /\ Fresh(m)
               /\ IF passthroughResolutions[r] # Undefined
                  THEN passthroughResolutions[r] = h
                  ELSE /\ approvals[r] # Undefined /\ ThreadOf[approvals[r].turn] = h
                       /\ ~approvals[r].resolved
     IN \/ /\ ok /\ passthroughResolutions[r] # Undefined /\ Record(m)
           /\ passthroughResolutions' = [passthroughResolutions EXCEPT ![r] = Undefined]
           /\ UNCHANGED <<sessionState, compromised, disconnectEvent, sequenceByTurn, items,
                          approvals, events, final, quiet>>
        \/ /\ ok /\ passthroughResolutions[r] = Undefined /\ Record(m)
           /\ approvals' = [approvals EXCEPT ![r].resolved = TRUE]
           /\ Emit(approvals[r].turn, "request_resolved", approvals[r].item, r,
                   Resolution(approvals[r]))
           /\ UNCHANGED <<sessionState, compromised, disconnectEvent, items,
                          passthroughResolutions, final, quiet>>
        \/ ~ok /\ Blocked
  /\ UNCHANGED <<adapterVars, latest>>

\* thread/closed and thread/status/changed to notLoaded.
ThreadClosed(h) ==
  /\ Arrives
  /\ \/ /\ Trusted /\ ~ThreadHasOpenGovernance(h)
        /\ quiet' = quiet \cup {h}
        /\ UNCHANGED <<normalizer, events, final>>
     \/ ~(Trusted /\ ~ThreadHasOpenGovernance(h)) /\ Blocked
  /\ UNCHANGED <<adapterVars, latest>>

\* The host says the transport is gone.
Disconnect ==
  /\ ~disconnectEvent /\ NotifyDisconnect
  /\ UNCHANGED <<sessionState, seenWireHashes, sequenceByTurn, items, approvals,
                 passthroughResolutions, adapterVars, observed, messages>>

-----------------------------------------------------------------------------
(* Answers of the adapter.                                                 *)

\* encodeApprovalResponse: the decision a command request is answered with,
\* the plain one unless the adapter names another.
CommandDecision(decision, named) == IF named = Undefined THEN decision ELSE named
Disposition(d) == IF d \in {"decline", "cancel"} THEN "decline" ELSE "accept"

\* Mutant: a request that the server has resolved is answered all the same.
AnswerableLateMutant(r) ==
  compromised = "no" /\ approvals[r] # Undefined /\ approvals[r].sentDecision = Undefined

\* The checks of encodeApprovalResponse on the session and the binding.
Answerable(r) ==
  /\ compromised = "no" /\ approvals[r] # Undefined
  /\ ~approvals[r].resolved /\ approvals[r].sentDecision = Undefined

\* Mutant: the entries are compared one by one.
IsPermissionGrantSubsetMutant(requested, granted) == granted \subseteq requested

\* isPermissionGrantSubset: entries may be left out of a grant, but not the
\* restrictions: a denied place, and a read-only place below a granted write.
\* A grant without a fileSystem family needs none.
IsPermissionGrantSubset(requested, granted) ==
  \/ granted = {}
  \/ /\ granted \subseteq requested
     /\ requested \cap ({"deny_below"} \cup IF "write" \in granted THEN {"read_below"} ELSE {})
          \subseteq granted

\* ... and on the answer: a named command decision or a grant where there is a
\* use for it, a decision that was advertised and does what the adapter
\* decided, a grant within what was asked for.
AnswerFits(b, decision, named, grant) ==
  /\ b.kind # "permission" => grant = Undefined
  /\ b.kind # "command" => named = Undefined
  /\ b.kind = "command" =>
       LET d == CommandDecision(decision, named)
       IN /\ Disposition(d) = decision
          /\ IF b.offer # Undefined THEN d \in b.offer ELSE d \in Decisions
  /\ decision = "decline" => grant = Undefined
  /\ b.kind = "permission" /\ decision = "accept" =>
       grant # Undefined /\ IsPermissionGrantSubset(b.requested, grant)

EncodedResult(b, decision, named, grant) ==
  IF b.kind = "permission" THEN IF decision = "accept" THEN grant ELSE {}
  ELSE IF b.kind = "command" THEN CommandDecision(decision, named) ELSE decision

\* CodexAppServerV2WireTransport.send, called by the adapter for a request it
\* was told of.  A refused answer is thrown back and changes nothing here.
Send(r, decision, named, grant) ==
  /\ sending = Undefined /\ view.request[r] # Undefined
  /\ Answerable(r) /\ AnswerFits(approvals[r], decision, named, grant)
  /\ approvals' = [approvals EXCEPT ![r].sentDecision = decision]
  /\ sending' = r
  /\ answers' = [answers EXCEPT ![r] = Append(@,
       [id |-> approvals[r].wireRequestId, decision |-> decision,
        result |-> EncodedResult(approvals[r], decision, named, grant)])]
  /\ accepted' = IF approvals[r].kind = "file_change" /\ decision = "accept"
                 THEN [accepted EXCEPT ![approvals[r].item] = view.change[approvals[r].item]]
                 ELSE accepted
  /\ UNCHANGED <<sessionState, compromised, disconnectEvent, seenWireHashes, sequenceByTurn,
                 items, passthroughResolutions, ingestFailed, view, events, observed, messages>>

\* sendWire settles; a rejection leaves the delivery uncertain
\* (markApprovalResponseDeliveryUncertain) and is thrown to the adapter.
SendSettles(delivered) ==
  /\ sending # Undefined /\ sending' = Undefined
  /\ compromised' = IF ~delivered /\ compromised = "no" THEN "uncertain" ELSE compromised
  /\ UNCHANGED <<sessionState, disconnectEvent, seenWireHashes, sequenceByTurn, items, approvals,
                 passthroughResolutions, ingestFailed, view, answers, accepted, events,
                 observed, messages>>

-----------------------------------------------------------------------------
(* The adapter, as far as the bridge sees it (AppServerAdapter models it): *)
(* it takes its events in order, one at a time, and never while it awaits  *)
(* a send.                                                                 *)

Learn(v, e) ==
  CASE e.type = "transport_disconnected" -> [v EXCEPT !.told = TRUE]
    [] e.type \in {"item_started", "item_updated"} ->
         [v EXCEPT !.last[e.turn] = e.seq, !.change[e.item] = e.data]
    [] e.type = "item_completed" ->
         [v EXCEPT !.last[e.turn] = e.seq, !.done = @ \cup {e.item}]
    [] e.type = "approval_requested" ->
         [v EXCEPT !.last[e.turn] = e.seq, !.request[e.request] = "open"]
    [] e.type = "request_resolved" ->
         [v EXCEPT !.last[e.turn] = e.seq, !.request[e.request] = e.data]

\* adapter.ingest finishes an event; throws: it rejects.  Nothing rejects
\* before acceptSequence (ensureJournalContinuity catches its failures), so
\* the event has its number; the adapter that did not come to know what it was
\* told answers less than the model allows.  A rejected disconnect is
\* swallowed by notifyDisconnect.
AdapterTakes(throws) ==
  /\ events # <<>> /\ sending = Undefined
  /\ view' = Learn(view, Head(events)) /\ events' = Tail(events)
  /\ ingestFailed' = (ingestFailed \/ (throws /\ Head(events).type # "transport_disconnected"))
  /\ UNCHANGED <<normalizer, sending, answers, accepted, observed, messages>>

\* The catch of CodexAppServerV2WireAdapter.ingest, some microtasks later.
ReportIngestFailure ==
  /\ ingestFailed /\ ingestFailed' = FALSE
  /\ NotifyDisconnect
  /\ UNCHANGED <<sessionState, seenWireHashes, sequenceByTurn, items, approvals,
                 passthroughResolutions, sending, view, answers, accepted, observed, messages>>

Evidence == (Heads \X Hashes) \cup {Undefined}

Handshake ==
  \E valid \in BOOLEAN :
    AcceptInitializeResponse(valid) \/ AcceptInitializedNotification(valid)
ItemMessage ==
  \E i \in Items :
    \/ \E c \in Contents, f \in RawForms, e \in Evidence : ItemStarted(i, c, f, e)
    \/ \E c \in Contents \cup {Empty}, f \in RawForms, e \in Evidence :
         FileChangePatchUpdated(i, c, f, e)
    \/ \E c \in Contents, outcome \in {"applied", "not_applied"} : ItemCompleted(i, c, outcome)
RequestMessage ==
  \E w \in WireIds :
    \/ \E i \in Items : FileApproval(w, i)
    \/ \E t \in Turns, offer \in Offers \cup {Undefined} :
         ManualApproval(w, t, "command", offer, {})
    \/ \E t \in Turns, requested \in Profiles :
         ManualApproval(w, t, "permission", Undefined, requested)
    \/ \E h \in Threads : PassthroughRequest(w, h) \/ RequestResolved(w, h)
Answer ==
  \E r \in RequestIds, decision \in Decisions, named \in CommandDecisions \cup {Undefined},
     grant \in (SUBSET Entries) \cup {Undefined} : Send(r, decision, named, grant)

Next ==
  \/ Handshake \/ ItemMessage \/ RequestMessage \/ InvalidMessage \/ OtherResponse
  \/ \E h \in Threads : ThreadClosed(h)
  \/ Disconnect
  \/ Answer \/ \E delivered \in BOOLEAN : SendSettles(delivered)
  \/ \E throws \in BOOLEAN : AdapterTakes(throws)
  \/ ReportIngestFailure

Spec == Init /\ [][Next]_vars

-----------------------------------------------------------------------------
(* Properties.                                                             *)

\* Types of the normalizer's state; an item never tracks more snapshots than
\* the limit.
TypeOK ==
  /\ sessionState \in {"awaiting_initialize_response", "awaiting_initialized_notification",
                       "ready"}
  /\ compromised \in {"no", "wire", "uncertain"}
  /\ disconnectEvent \in BOOLEAN /\ ingestFailed \in BOOLEAN
  /\ sequenceByTurn \in [Turns -> Nat]
  /\ \A i \in Items : items[i] = Undefined \/ /\ items[i] \in TrackedItem
                                              /\ Cardinality(items[i].seen) <= MaxTrackedSnapshots
  /\ \A r \in RequestIds : approvals[r] = Undefined \/ approvals[r] \in ApprovalBinding
  /\ \A r \in RequestIds : passthroughResolutions[r] \in Threads \cup {Undefined}
  /\ sending \in RequestIds \cup {Undefined}

\* The events of a turn reach the adapter with consecutive numbers, whatever
\* other turns of the thread do and whichever handler made them: a gap would
\* block the turn.
EventsAreConsecutive ==
  \A t \in Turns, k \in 1..Len(events) : events[k].turn = t =>
    /\ (\A n \in 1..(k - 1) : events[n].turn # t) => events[k].seq = view.last[t] + 1
    /\ \A j \in 1..(k - 1) :
         (events[j].turn = t /\ \A n \in (j + 1)..(k - 1) : events[n].turn # t) =>
           events[k].seq = events[j].seq + 1

\* A request is answered at most once, under the id it came with: an id that
\* collides with another, as number and string, is not rebound.
OneAnswerPerRequest ==
  \A r \in RequestIds :
    /\ Len(answers[r]) <= 1
    /\ answers[r] # <<>> => answers[r][1].id = approvals[r].wireRequestId

\* What a profile lets a process do in the directory and in the place below it.
Effective(profile) ==
  LET writes == "write" \in profile
      denied == "deny_below" \in profile
      carved == "read_below" \in profile
  IN (IF writes THEN {<<"directory", "read">>, <<"directory", "write">>} ELSE {})
       \cup (IF writes /\ ~denied /\ ~carved THEN {<<"below", "write">>} ELSE {})
       \cup (IF (writes \/ carved) /\ ~denied THEN {<<"below", "read">>} ELSE {})

\* Whatever goes to the wire is among the answers the request offered and
\* means what the adapter decided: a grant never lets a process do more than
\* the profile it was asked for, although it may leave entries out, a declined
\* permission request grants nothing, a command decision with another effect
\* is not sent.
AnswersAreOffered ==
  \A r \in RequestIds : \A k \in 1..Len(answers[r]) :
    LET a == answers[r][k] IN
    CASE approvals[r].kind = "file_change" -> a.result = a.decision
      [] approvals[r].kind = "command" ->
           /\ Disposition(a.result) = a.decision
           /\ approvals[r].offer # Undefined => a.result \in approvals[r].offer
      [] approvals[r].kind = "permission" ->
           /\ Effective(a.result) \subseteq Effective(approvals[r].requested)
           /\ a.decision = "decline" => a.result = {}

\* What the adapter is told of a request's end is what happened on our side:
\* a request reported cancelled was not answered and is never answered later,
\* a request reported accepted or declined was answered so.
Reported(r) ==
  {events[k].data : k \in {n \in 1..Len(events) : /\ events[n].type = "request_resolved"
                                                  /\ events[n].request = r}}
    \cup ({view.request[r]} \ {"open", Undefined})
ReportedResolutionIsTrue ==
  \A r \in RequestIds, resolution \in {"accept", "decline", "cancelled"} :
    resolution \in Reported(r) =>
      IF resolution = "cancelled" THEN answers[r] = <<>>
      ELSE \E k \in 1..Len(answers[r]) : answers[r][k].decision = resolution

\* An accept goes out only for the content that the wire showed last for the
\* item, even when the adapter is behind: a patch that arrives after the
\* request, or has no diff, or goes back, stops the answer.
AcceptCoversLatest ==
  [][\A i \in Items : accepted'[i] # accepted[i] =>
       /\ accepted'[i] # Undefined /\ accepted'[i].content = latest[i]
       /\ accepted'[i] = items[i].changeSet]_vars

\* A completion that is reported to the adapter is of the accepted content.
CompletedIsAccepted ==
  \A i \in Items : (accepted[i] # Undefined /\ final[i] # Undefined)
                     => final[i] = accepted[i].content

\* A quarantined session is reported to the adapter once and as its last
\* event; the one exception is an uncertain delivery, which the adapter learns
\* from its own send and the next message reports.
DisconnectIsReportedOnceAndLast ==
  LET at == {k \in 1..Len(events) : events[k].type = "transport_disconnected"} IN
  /\ compromised = "wire" \/ disconnectEvent => view.told \/ at # {}
  /\ at # {} => at = {Len(events)} /\ ~view.told
  /\ view.told => events = <<>>

\* A thread whose end was taken quietly leaves the adapter with nothing open
\* of it once it has taken its events.
QuietThreadIsDone ==
  \A h \in quiet :
    /\ \A i \in Items :
         (ThreadOf[TurnOf[i]] = h /\ latest[i] # Undefined /\ compromised = "no") =>
           \/ i \in view.done
           \/ \E k \in 1..Len(events) : events[k].type = "item_completed" /\ events[k].item = i
    /\ \A r \in RequestIds :
         (approvals[r] # Undefined /\ ThreadOf[approvals[r].turn] = h) => Reported(r) # {}

\* A request gets one answer, and it is one the request offered.
AnswersAreSound == TypeOK /\ OneAnswerPerRequest /\ AnswersAreOffered

\* What the adapter is told about the end of requests, items and threads is
\* what became of them.
EndsAreReportedTruly == ReportedResolutionIsTrue /\ CompletedIsAccepted /\ QuietThreadIsDone

\* The adapter gets each turn's events without a gap, up to the one that ends
\* the session.
EventStreamIsWhole == EventsAreConsecutive /\ DisconnectIsReportedOnceAndLast
=============================================================================
