---------------------------- MODULE V2WireProofs ----------------------------
(***************************************************************************)
(* Proofs about V2Wire, for all sets of threads, turns, items, ids and     *)
(* contents and every bound.                                               *)
(*                                                                         *)
(* The argument: what the adapter knows and the events it has not taken    *)
(* yet make up, together, what the normalizer knows.  A turn's last number *)
(* is that of its last event (TurnIsSound), the last change of an item is  *)
(* in its last event (ChangeIsKnown), and so are the end of an item and of *)
(* a request (EndIsKnown, ResolutionIsKnown).  As no change follows the    *)
(* request for its approval (RequestFollowsChange), an adapter that was    *)
(* told of the request knows the content it answers for.                   *)
(***************************************************************************)
EXTENDS V2Wire, FiniteSetTheorems, TLAPS

EventTypes ==
  {"transport_disconnected", "item_started", "item_updated", "item_completed",
   "approval_requested", "request_resolved"}
Resolutions == {"accept", "decline", "cancelled"}
WireEvents ==
  [type : EventTypes, turn : Turns \cup {Undefined}, seq : Nat, item : Items \cup {Undefined},
   request : RequestIds \cup {Undefined},
   data : ChangeSets \cup {"applied", "not_applied"} \cup Resolutions \cup {Undefined}]
WireAnswers ==
  [id : WireIds, decision : Decisions, result : CommandDecisions \cup SUBSET Entries]

Typed ==
  /\ TypeOK
  /\ items \in [Items -> TrackedItem \cup {Undefined}]
  /\ approvals \in [RequestIds -> ApprovalBinding \cup {Undefined}]
  /\ passthroughResolutions \in [RequestIds -> Threads \cup {Undefined}]
  /\ events \in Seq(WireEvents)
  /\ view \in [last : [Turns -> Nat], change : [Items -> ChangeSets \cup {Undefined}],
               done : SUBSET Items,
               request : [RequestIds -> Resolutions \cup {"open", Undefined}], told : BOOLEAN]
  /\ answers \in [RequestIds -> Seq(WireAnswers)]
  /\ latest \in [Items -> Contents \cup {Empty, Undefined}]
  /\ accepted \in [Items -> ChangeSets \cup {Undefined}]
  /\ final \in [Items -> Contents \cup {Undefined}]
  /\ quiet \subseteq Threads

IsUpdate(e, i)     == e.type \in {"item_started", "item_updated"} /\ e.item = i
IsCompletion(e, i) == e.type = "item_completed" /\ e.item = i
IsRequest(e, r)    == e.type = "approval_requested" /\ e.request = r
IsEnd(e, r)        == e.type = "request_resolved" /\ e.request = r
IsAbout(e, r)      == e.type \in {"approval_requested", "request_resolved"} /\ e.request = r
IsDisconnect(e)    == e.type = "transport_disconnected"

\* The session's end is an event or was one, and no event comes after it.
SessionIsSound ==
  /\ compromised = "wire" => disconnectEvent = TRUE
  /\ disconnectEvent = TRUE =>
       view.told = TRUE \/ \E k \in 1..Len(events) : IsDisconnect(events[k])
  /\ \A k \in 1..Len(events) :
       IsDisconnect(events[k]) => k = Len(events) /\ view.told = FALSE /\ disconnectEvent = TRUE
  /\ view.told = TRUE => events = <<>> /\ disconnectEvent = TRUE

\* The numbers of a turn go on from the last one taken to the last one given.
TurnIsSound(t) ==
  /\ (\A n \in 1..Len(events) : events[n].turn # t) => sequenceByTurn[t] = view.last[t]
  /\ \A k \in 1..Len(events) : events[k].turn = t =>
       /\ (\A n \in 1..(k - 1) : events[n].turn # t) => events[k].seq = view.last[t] + 1
       /\ \A j \in 1..(k - 1) :
            (events[j].turn = t /\ \A n \in (j + 1)..(k - 1) : events[n].turn # t) =>
              events[k].seq = events[j].seq + 1
       /\ (\A n \in (k + 1)..Len(events) : events[n].turn # t) =>
            events[k].seq = sequenceByTurn[t]

\* An event is about something the normalizer tracks, and the end of a
\* request is told as it came about.
EventIsSound(e) ==
  /\ IsDisconnect(e) => e.turn = Undefined
  /\ ~IsDisconnect(e) => e.turn \in Turns
  /\ e.type \in {"item_started", "item_updated"} =>
       e.item \in Items /\ items[e.item] # Undefined /\ e.data \in ChangeSets
  /\ e.type = "item_completed" => e.item \in Items
  /\ e.type = "approval_requested" => e.request \in RequestIds /\ approvals[e.request] # Undefined
  /\ e.type = "request_resolved" =>
       /\ e.request \in RequestIds /\ approvals[e.request] # Undefined
       /\ approvals[e.request].resolved = TRUE
       /\ e.data = Resolution(approvals[e.request])

\* A bound snapshot is what the wire said last; the request freezes it, and
\* so does the completion.
ItemIsSound(i) ==
  /\ items[i] = Undefined =>
       /\ accepted[i] = Undefined /\ final[i] = Undefined
       /\ compromised = "no" => latest[i] = Undefined
  /\ items[i] # Undefined =>
       /\ IsFiniteSet(items[i].seen)
       /\ items[i].bound = TRUE => items[i].raw[1] = items[i].changeSet.content
       /\ items[i].bound = FALSE => items[i].raw[1] = Empty
       /\ compromised = "no" /\ items[i].bound = TRUE => latest[i] = items[i].changeSet.content
       /\ items[i].request # Undefined =>
            /\ items[i].bound = TRUE /\ approvals[items[i].request] # Undefined
            /\ approvals[items[i].request].kind = "file_change"
            /\ approvals[items[i].request].item = i
       /\ accepted[i] # Undefined =>
            items[i].request # Undefined /\ accepted[i] = items[i].changeSet
       /\ final[i] # Undefined =>
            items[i].completed = TRUE /\ final[i] = items[i].changeSet.content

\* What was answered, and means what was offered.
AnswerIsSound(b, a) ==
  /\ a.id = b.wireRequestId /\ a.decision = b.sentDecision
  /\ b.kind = "file_change" => a.result = a.decision
  /\ b.kind = "command" =>
       Disposition(a.result) = a.decision /\ (b.offer # Undefined => a.result \in b.offer)
  /\ b.kind = "permission" =>
       /\ Effective(a.result) \subseteq Effective(b.requested)
       /\ a.decision = "decline" => a.result = {}

\* A request has the answer its binding remembers, and the adapter knows its
\* end as it came about.
RequestIsSound(r) ==
  /\ approvals[r] = Undefined => answers[r] = <<>> /\ view.request[r] = Undefined
  /\ approvals[r] # Undefined =>
       /\ approvals[r].kind = "file_change" =>
            /\ approvals[r].item \in Items /\ items[approvals[r].item] # Undefined
            /\ items[approvals[r].item].request = r
       /\ approvals[r].sentDecision = Undefined => answers[r] = <<>>
       /\ approvals[r].sentDecision # Undefined =>
            Len(answers[r]) = 1 /\ AnswerIsSound(approvals[r], answers[r][1])
       /\ view.request[r] \in Resolutions =>
            approvals[r].resolved = TRUE /\ view.request[r] = Resolution(approvals[r])

\* The last change of an item is in its last event, or known.
ChangeIsKnown(i) ==
  items[i] # Undefined =>
    /\ (\A n \in 1..Len(events) : ~IsUpdate(events[n], i)) => view.change[i] = items[i].changeSet
    /\ \A k \in 1..Len(events) :
         IsUpdate(events[k], i) /\ (\A n \in (k + 1)..Len(events) : ~IsUpdate(events[n], i)) =>
           events[k].data = items[i].changeSet

EndIsKnown(i) ==
  items[i] # Undefined /\ items[i].completed = TRUE =>
    i \in view.done \/ \E k \in 1..Len(events) : IsCompletion(events[k], i)

ResolutionIsKnown(r) ==
  approvals[r] # Undefined /\ approvals[r].resolved = TRUE =>
    view.request[r] \in Resolutions \/ \E k \in 1..Len(events) : IsEnd(events[k], r)

\* A request does not come after its end.
EndFollowsRequest(r) ==
  /\ \A n, k \in 1..Len(events) : IsRequest(events[n], r) /\ IsEnd(events[k], r) => n < k
  /\ view.request[r] \in Resolutions => \A n \in 1..Len(events) : ~IsRequest(events[n], r)

\* No change comes after the request for its approval or the request's end.
RequestFollowsChange(i) ==
  items[i] # Undefined /\ items[i].request # Undefined =>
    /\ \A n, k \in 1..Len(events) :
         IsUpdate(events[n], i) /\ IsAbout(events[k], items[i].request) => n < k
    /\ view.request[items[i].request] # Undefined =>
         \A n \in 1..Len(events) : ~IsUpdate(events[n], i)

\* Nothing of a thread that ended quietly is open.
QuietIsSound(h) ==
  h \in quiet =>
    /\ \A i \in Items : ThreadOf[TurnOf[i]] = h /\ items[i] # Undefined => items[i].completed = TRUE
    /\ \A r \in RequestIds : approvals[r] # Undefined /\ ThreadOf[approvals[r].turn] = h =>
         approvals[r].resolved = TRUE

WireInv ==
  /\ Typed /\ SessionIsSound
  /\ \A t \in Turns : TurnIsSound(t)
  /\ \A k \in 1..Len(events) : EventIsSound(events[k])
  /\ \A i \in Items : /\ ItemIsSound(i) /\ ChangeIsKnown(i) /\ EndIsKnown(i)
                      /\ RequestFollowsChange(i)
  /\ \A r \in RequestIds : RequestIsSound(r) /\ ResolutionIsKnown(r) /\ EndFollowsRequest(r)
  /\ \A h \in Threads : QuietIsSound(h)

-----------------------------------------------------------------------------
(* The sequence of events.                                                 *)

\* adapter.ingest is handed another event.
LEMMA EventAppended ==
  ASSUME events \in Seq(WireEvents), NEW e \in WireEvents, events' = Append(events, e)
  PROVE  /\ events' \in Seq(WireEvents) /\ Len(events) \in Nat /\ Len(events') = Len(events) + 1
         /\ \A k \in 1..Len(events) : events'[k] = events[k]
         /\ events'[Len(events) + 1] = e
OBVIOUS

\* adapter.ingest finishes an event.
LEMMA EventTaken ==
  ASSUME events \in Seq(WireEvents), events # <<>>, events' = Tail(events)
  PROVE  /\ events' \in Seq(WireEvents) /\ Len(events) \in Nat /\ Len(events) # 0
         /\ Len(events') = Len(events) - 1 /\ Head(events) = events[1]
         /\ \A k \in 1..Len(events') : events'[k] = events[k + 1]
OBVIOUS

\* An event that is no disconnect, nextSequence: the numbers of the turns go on.
LEMMA TurnsGoOn ==
  ASSUME Typed, \A s \in Turns : TurnIsSound(s),
         NEW t \in Turns, NEW e \in WireEvents, e.turn = t, e.seq = sequenceByTurn[t] + 1,
         events' = Append(events, e), sequenceByTurn' = [sequenceByTurn EXCEPT ![t] = @ + 1],
         view' = view
  PROVE  \A s \in Turns : TurnIsSound(s)'
<1>1. events \in Seq(WireEvents) /\ sequenceByTurn \in [Turns -> Nat]
  BY DEF Typed, TypeOK
<1>2. /\ Len(events) \in Nat /\ Len(events') = Len(events) + 1
      /\ \A k \in 1..Len(events) : events'[k] = events[k]
      /\ events'[Len(events) + 1] = e
  BY <1>1, EventAppended
<1> SUFFICES ASSUME NEW s \in Turns PROVE TurnIsSound(s)'
  OBVIOUS
<1>3. TurnIsSound(s)
  OBVIOUS
<1>4. CASE s # t
  <2>1. sequenceByTurn'[s] = sequenceByTurn[s]
    BY <1>1, <1>4
  <2> QED
    BY <1>2, <1>3, <1>4, <2>1 DEF TurnIsSound
<1>5. CASE s = t
  <2>1. sequenceByTurn'[s] = e.seq /\ sequenceByTurn[s] \in Nat
    BY <1>1, <1>5
  <2>2. ~(\A n \in 1..Len(events') : events'[n].turn # s)
    BY <1>2, <1>5
  <2>3. ASSUME NEW k \in 1..Len(events), events[k].turn = s
        PROVE  /\ (\A n \in 1..(k - 1) : events'[n].turn # s) => events'[k].seq = view'.last[s] + 1
               /\ \A j \in 1..(k - 1) :
                    (events'[j].turn = s /\ \A n \in (j + 1)..(k - 1) : events'[n].turn # s) =>
                      events'[k].seq = events'[j].seq + 1
               /\ (\A n \in (k + 1)..Len(events') : events'[n].turn # s) =>
                    events'[k].seq = sequenceByTurn'[s]
    <3>1. Len(events) + 1 \in (k + 1)..Len(events')
      BY <1>2
    <3>2. ~(\A n \in (k + 1)..Len(events') : events'[n].turn # s)
      BY <1>2, <1>5, <3>1
    <3> QED
      BY <1>2, <1>3, <2>3, <3>2 DEF TurnIsSound
  <2>4. (\A n \in 1..Len(events) : events'[n].turn # s) => e.seq = view'.last[s] + 1
    BY <1>2, <1>3, <1>5 DEF TurnIsSound
  <2>5. ASSUME NEW j \in 1..Len(events), events'[j].turn = s,
               \A n \in (j + 1)..Len(events) : events'[n].turn # s
        PROVE  e.seq = events'[j].seq + 1
    <3>1. \A n \in (j + 1)..Len(events) : events[n].turn # s
      BY <1>2, <2>5
    <3>2. events[j].turn = s /\ events'[j] = events[j]
      BY <1>2, <2>5
    <3>3. events[j].seq = sequenceByTurn[s]
      BY <1>3, <3>1, <3>2 DEF TurnIsSound
    <3> QED
      BY <1>5, <3>2, <3>3
  <2>6. ASSUME NEW k \in 1..Len(events'), events'[k].turn = s
        PROVE  /\ (\A n \in 1..(k - 1) : events'[n].turn # s) => events'[k].seq = view'.last[s] + 1
               /\ \A j \in 1..(k - 1) :
                    (events'[j].turn = s /\ \A n \in (j + 1)..(k - 1) : events'[n].turn # s) =>
                      events'[k].seq = events'[j].seq + 1
               /\ (\A n \in (k + 1)..Len(events') : events'[n].turn # s) =>
                    events'[k].seq = sequenceByTurn'[s]
    <3>1. CASE k = Len(events) + 1
      <4>1. k - 1 = Len(events) /\ events'[k] = e
        BY <1>2, <3>1
      <4> QED
        BY <2>1, <2>4, <2>5, <4>1
    <3>2. CASE k \in 1..Len(events)
      <4>1. events[k].turn = s
        BY <1>2, <2>6, <3>2
      <4> QED
        BY <2>3, <3>2, <4>1
    <3> QED
      BY <1>2, <3>1, <3>2
  <2> QED
    BY <2>2, <2>6 DEF TurnIsSound
<1> QED
  BY <1>4, <1>5

\* A disconnect has no number and no turn.
LEMMA TurnsAreLeft ==
  ASSUME Typed, \A s \in Turns : TurnIsSound(s),
         NEW e \in WireEvents, e.turn = Undefined, events' = Append(events, e),
         sequenceByTurn' = sequenceByTurn, view' = view
  PROVE  \A s \in Turns : TurnIsSound(s)'
<1>1. events \in Seq(WireEvents)
  BY DEF Typed
<1>2. /\ Len(events) \in Nat /\ Len(events') = Len(events) + 1
      /\ \A k \in 1..Len(events) : events'[k] = events[k]
      /\ events'[Len(events) + 1] = e
  BY <1>1, EventAppended
<1> SUFFICES ASSUME NEW s \in Turns PROVE TurnIsSound(s)'
  OBVIOUS
<1>3. TurnIsSound(s) /\ e.turn # s
  BY UndefinedAssumption
<1> QED
  BY <1>2, <1>3 DEF TurnIsSound

\* The adapter takes the number of the event that it finishes.
LEMMA TurnsAreTaken ==
  ASSUME Typed, \A s \in Turns : TurnIsSound(s), events # <<>>, events' = Tail(events),
         sequenceByTurn' = sequenceByTurn,
         \A s \in Turns : view'.last[s] = IF events[1].turn = s THEN events[1].seq ELSE view.last[s]
  PROVE  \A s \in Turns : TurnIsSound(s)'
<1>1. events \in Seq(WireEvents)
  BY DEF Typed
<1>2. /\ Len(events) \in Nat /\ Len(events) # 0
      /\ Len(events') = Len(events) - 1
      /\ \A k \in 1..Len(events') : events'[k] = events[k + 1]
  BY <1>1, EventTaken
<1> SUFFICES ASSUME NEW s \in Turns PROVE TurnIsSound(s)'
  OBVIOUS
<1>3. TurnIsSound(s)
  OBVIOUS
<1>4. /\ (\A n \in 1..Len(events) : events[n].turn # s) => sequenceByTurn[s] = view.last[s]
      /\ \A k \in 1..Len(events) :
           (events[k].turn = s /\ \A n \in 1..(k - 1) : events[n].turn # s) =>
              events[k].seq = view.last[s] + 1
      /\ \A k \in 1..Len(events) : \A j \in 1..(k - 1) :
           (events[k].turn = s /\ events[j].turn = s
             /\ \A n \in (j + 1)..(k - 1) : events[n].turn # s) =>
              events[k].seq = events[j].seq + 1
      /\ \A k \in 1..Len(events) :
           (events[k].turn = s /\ \A n \in (k + 1)..Len(events) : events[n].turn # s) =>
              events[k].seq = sequenceByTurn[s]
  BY <1>3 DEF TurnIsSound
<1> DEFINE rest == events'
<1>5. \A n \in 2..Len(events) : n - 1 \in 1..Len(rest) /\ events[n] = rest[n - 1]
  <2> SUFFICES ASSUME NEW n \in 2..Len(events)
               PROVE  n - 1 \in 1..Len(rest) /\ events[n] = rest[n - 1]
    OBVIOUS
  <2>1. n - 1 \in 1..Len(rest) /\ (n - 1) + 1 = n
    BY <1>2
  <2> QED
    BY <1>2, <2>1
<1> HIDE DEF rest
<1>6. (\A n \in 1..Len(rest) : rest[n].turn # s) => sequenceByTurn'[s] = view'.last[s]
  <2> SUFFICES ASSUME \A n \in 1..Len(rest) : rest[n].turn # s PROVE sequenceByTurn[s] = view'.last[s]
    OBVIOUS
  <2>1. \A n \in 2..Len(events) : events[n].turn # s
    BY <1>5
  <2>2. CASE events[1].turn = s
    <3>1. events[1].seq = sequenceByTurn[s]
      <4>1. 1 \in 1..Len(events) /\ 1 + 1 = 2
        BY <1>2
      <4> QED
        BY <1>4, <2>1, <2>2, <4>1
    <3> QED
      BY <2>2, <3>1
  <2>3. CASE events[1].turn # s
    <3>1. \A n \in 1..Len(events) : events[n].turn # s
      BY <1>2, <2>1, <2>3
    <3> QED
      BY <1>4, <2>3, <3>1
  <2> QED
    BY <2>2, <2>3
<1>7. ASSUME NEW k \in 1..Len(rest), rest[k].turn = s
      PROVE  /\ (\A n \in 1..(k - 1) : rest[n].turn # s) => rest[k].seq = view'.last[s] + 1
             /\ \A j \in 1..(k - 1) :
                  (rest[j].turn = s /\ \A n \in (j + 1)..(k - 1) : rest[n].turn # s) =>
                    rest[k].seq = rest[j].seq + 1
             /\ (\A n \in (k + 1)..Len(rest) : rest[n].turn # s) =>
                  rest[k].seq = sequenceByTurn'[s]
  <2>1. /\ k \in Nat /\ k >= 1 /\ Len(rest) \in Nat /\ Len(rest) + 1 = Len(events)
        /\ k + 1 \in 1..Len(events) /\ (k + 1) - 1 = k /\ rest[k] = events[k + 1]
    BY <1>2 DEF rest
  <2>2. events[k + 1].turn = s
    BY <1>7, <2>1
  <2>3. ASSUME \A n \in 1..(k - 1) : rest[n].turn # s PROVE rest[k].seq = view'.last[s] + 1
    <3>1. \A n \in 2..k : events[n].turn # s
      <4> SUFFICES ASSUME NEW n \in 2..k PROVE events[n].turn # s
        OBVIOUS
      <4>1. n \in 2..Len(events) /\ n - 1 \in 1..(k - 1)
        BY <2>1
      <4> QED
        BY <1>5, <2>3, <4>1
    <3>2. CASE events[1].turn = s
      <4>1. 1 \in 1..k /\ 1 + 1 = 2
        BY <2>1
      <4>2. events[k + 1].seq = events[1].seq + 1
        <5>1. PICK m \in 1..Len(events) : m = k + 1 /\ m - 1 = k
          BY <2>1
        <5>2. events[m].turn = s /\ 1 \in 1..(m - 1) /\ \A n \in (1 + 1)..(m - 1) : events[n].turn # s
          BY <2>2, <3>1, <4>1, <5>1
        <5>3. events[m].seq = events[1].seq + 1
          BY <1>4, <3>2, <5>2
        <5> QED
          BY <5>1, <5>3
      <4> QED
        BY <2>1, <3>2, <4>2
    <3>3. CASE events[1].turn # s
      <4>1. \A n \in 1..k : events[n].turn # s
        BY <2>1, <3>1, <3>3
      <4>2. events[k + 1].seq = view.last[s] + 1
        <5>1. PICK m \in 1..Len(events) : m = k + 1 /\ m - 1 = k
          BY <2>1
        <5>2. events[m].turn = s /\ \A n \in 1..(m - 1) : events[n].turn # s
          BY <2>2, <4>1, <5>1
        <5>3. events[m].seq = view.last[s] + 1
          BY <1>4, <5>2
        <5> QED
          BY <5>1, <5>3
      <4> QED
        BY <2>1, <3>3, <4>2
    <3> QED
      BY <3>2, <3>3
  <2>4. ASSUME NEW j \in 1..(k - 1), rest[j].turn = s, \A n \in (j + 1)..(k - 1) : rest[n].turn # s
        PROVE  rest[k].seq = rest[j].seq + 1
    <3>1. /\ j + 1 \in 1..k /\ j \in 1..Len(rest) /\ rest[j] = events[j + 1]
          /\ j + 1 \in Nat /\ j + 1 >= 1 /\ k - 1 \in Nat /\ k - 1 <= Len(rest) /\ (k - 1) + 1 = k
      BY <1>2, <2>1 DEF rest
    <3>2. \A n \in ((j + 1) + 1)..k : events[n].turn # s
      <4> SUFFICES ASSUME NEW n \in ((j + 1) + 1)..k PROVE events[n].turn # s
        OBVIOUS
      <4>1. n \in 2..Len(events) /\ n - 1 \in (j + 1)..(k - 1)
        BY <2>1, <3>1
      <4> QED
        BY <1>5, <2>4, <4>1
    <3>3. events[k + 1].seq = events[j + 1].seq + 1
      <4>1. PICK m \in 1..Len(events) : m = k + 1 /\ m - 1 = k
        BY <2>1
      <4>2. PICK l \in 1..(m - 1) : l = j + 1
        BY <3>1, <4>1
      <4>3. events[m].turn = s /\ events[l].turn = s /\ \A n \in (l + 1)..(m - 1) : events[n].turn # s
        BY <2>2, <2>4, <3>1, <3>2, <4>1, <4>2
      <4>4. events[m].seq = events[l].seq + 1
        BY <1>4, <4>3
      <4> QED
        BY <4>1, <4>2, <4>4
    <3> QED
      BY <2>1, <3>1, <3>3
  <2>5. ASSUME \A n \in (k + 1)..Len(rest) : rest[n].turn # s PROVE rest[k].seq = sequenceByTurn'[s]
    <3>1. k + 1 \in Nat /\ k + 1 >= 1
      BY <2>1
    <3>2. \A n \in ((k + 1) + 1)..Len(events) : events[n].turn # s
      <4> SUFFICES ASSUME NEW n \in ((k + 1) + 1)..Len(events) PROVE events[n].turn # s
        OBVIOUS
      <4>1. n \in 2..Len(events) /\ n - 1 \in (k + 1)..Len(rest)
        BY <2>1, <3>1
      <4> QED
        BY <1>5, <2>5, <4>1
    <3>3. PICK m \in 1..Len(events) : m = k + 1
      BY <2>1
    <3>4. events[m].turn = s /\ \A n \in (m + 1)..Len(events) : events[n].turn # s
      BY <2>2, <3>2, <3>3
    <3>5. events[m].seq = sequenceByTurn[s]
      BY <1>4, <3>4
    <3> QED
      BY <2>1, <3>3, <3>5
  <2> QED
    BY <2>3, <2>4, <2>5
<1> QED
  BY <1>6, <1>7 DEF TurnIsSound, rest

-----------------------------------------------------------------------------
(* What a step leaves alone.                                               *)

\* No step unbinds an id, forgets an item or its request, or changes a
\* request that is resolved.
Kept ==
  /\ \A q \in RequestIds : approvals[q] # Undefined =>
       /\ approvals'[q] # Undefined
       /\ approvals'[q].kind = approvals[q].kind /\ approvals'[q].item = approvals[q].item
       /\ approvals[q].resolved = TRUE => approvals'[q] = approvals[q]
  /\ \A j \in Items : items[j] # Undefined =>
       /\ items'[j] # Undefined
       /\ items[j].request # Undefined => items'[j].request = items[j].request

LEMMA EventIsKept ==
  ASSUME NEW e, EventIsSound(e), Kept
  PROVE  EventIsSound(e)'
BY DEF EventIsSound, Kept, Resolution

LEMMA EventsAreKept ==
  ASSUME Typed, \A k \in 1..Len(events) : EventIsSound(events[k]), Kept,
         NEW e \in WireEvents, events' = Append(events, e), EventIsSound(e)'
  PROVE  \A k \in 1..Len(events') : EventIsSound(events[k])'
<1>1. /\ Len(events) \in Nat /\ Len(events') = Len(events) + 1
      /\ \A k \in 1..Len(events) : events'[k] = events[k]
      /\ events'[Len(events) + 1] = e
  BY EventAppended DEF Typed
<1> SUFFICES ASSUME NEW k \in 1..Len(events') PROVE EventIsSound(events[k])'
  OBVIOUS
<1>2. CASE k \in 1..Len(events)
  <2>1. PICK d : d = events[k]
    OBVIOUS
  <2>2. EventIsSound(d)'
    BY <1>2, <2>1, EventIsKept
  <2> QED
    BY <1>1, <1>2, <2>1, <2>2
<1>3. CASE k = Len(events) + 1
  BY <1>1, <1>3
<1> QED
  BY <1>1, <1>2, <1>3

\* An item whose change set an event does not bring.
LEMMA ChangeStaysKnown ==
  ASSUME Typed, NEW e \in WireEvents, events' = Append(events, e), view' = view,
         NEW i \in Items, ~IsUpdate(e, i), ChangeIsKnown(i), EndIsKnown(i),
         items'[i] # Undefined =>
           /\ items[i] # Undefined /\ items'[i].changeSet = items[i].changeSet
           /\ items'[i].completed = items[i].completed \/ IsCompletion(e, i)
  PROVE  ChangeIsKnown(i)' /\ EndIsKnown(i)'
<1>1. /\ Len(events) \in Nat /\ Len(events') = Len(events) + 1
      /\ \A k \in 1..Len(events) : events'[k] = events[k]
      /\ events'[Len(events) + 1] = e
  BY EventAppended DEF Typed
<1>2. ChangeIsKnown(i)'
  <2> SUFFICES ASSUME items'[i] # Undefined
               PROVE  /\ (\A n \in 1..Len(events') : ~IsUpdate(events'[n], i)) =>
                           view.change[i] = items[i].changeSet
                      /\ \A k \in 1..Len(events') :
                           (/\ IsUpdate(events'[k], i)
                            /\ \A n \in (k + 1)..Len(events') : ~IsUpdate(events'[n], i)) =>
                             events'[k].data = items[i].changeSet
    BY DEF ChangeIsKnown, IsUpdate
  <2>1. /\ (\A n \in 1..Len(events) : ~IsUpdate(events[n], i)) => view.change[i] = items[i].changeSet
        /\ \A k \in 1..Len(events) :
             IsUpdate(events[k], i) /\ (\A n \in (k + 1)..Len(events) : ~IsUpdate(events[n], i)) =>
               events[k].data = items[i].changeSet
    BY DEF ChangeIsKnown
  <2>2. (\A n \in 1..Len(events') : ~IsUpdate(events'[n], i)) => view.change[i] = items[i].changeSet
    <3>1. \A n \in 1..Len(events) : n \in 1..Len(events')
      BY <1>1
    <3> QED
      BY <1>1, <2>1, <3>1
  <2>3. ASSUME NEW k \in 1..Len(events'), IsUpdate(events'[k], i),
               \A n \in (k + 1)..Len(events') : ~IsUpdate(events'[n], i)
        PROVE  events'[k].data = items[i].changeSet
    <3>1. k \in 1..Len(events)
      BY <1>1, <2>3
    <3>2. \A n \in (k + 1)..Len(events) :
            n \in (k + 1)..Len(events') /\ events'[n] = events[n]
      BY <1>1, <3>1
    <3> QED
      BY <1>1, <2>1, <2>3, <3>1, <3>2
  <2> QED
    BY <2>2, <2>3
<1>3. EndIsKnown(i)'
  BY <1>1 DEF EndIsKnown, IsCompletion
<1> QED
  BY <1>2, <1>3

\* An item that an event is not about.
LEMMA ItemKeepsEvents ==
  ASSUME Typed, NEW e \in WireEvents, events' = Append(events, e), view' = view,
         NEW i \in Items, items'[i] = items[i], ~IsUpdate(e, i),
         ChangeIsKnown(i), EndIsKnown(i), RequestFollowsChange(i)
  PROVE  ChangeIsKnown(i)' /\ EndIsKnown(i)' /\ RequestFollowsChange(i)'
<1>1. /\ Len(events) \in Nat /\ Len(events') = Len(events) + 1
      /\ \A k \in 1..Len(events) : events'[k] = events[k]
      /\ events'[Len(events) + 1] = e
  BY EventAppended DEF Typed
<1>2. ChangeIsKnown(i)' /\ EndIsKnown(i)'
  BY ChangeStaysKnown
<1>4. RequestFollowsChange(i)'
  <2> SUFFICES ASSUME items[i] # Undefined, items[i].request # Undefined
               PROVE  /\ \A n, k \in 1..Len(events') :
                           IsUpdate(events'[n], i) /\ IsAbout(events'[k], items[i].request) => n < k
                      /\ view.request[items[i].request] # Undefined =>
                           \A n \in 1..Len(events') : ~IsUpdate(events'[n], i)
    BY DEF RequestFollowsChange, IsUpdate, IsAbout
  <2>1. /\ \A n, k \in 1..Len(events) :
             IsUpdate(events[n], i) /\ IsAbout(events[k], items[i].request) => n < k
        /\ view.request[items[i].request] # Undefined =>
             \A n \in 1..Len(events) : ~IsUpdate(events[n], i)
    BY DEF RequestFollowsChange
  <2>2. \A n \in 1..Len(events') : IsUpdate(events'[n], i) =>
          n \in 1..Len(events) /\ events'[n] = events[n]
    BY <1>1
  <2>3. \A k \in 1..Len(events') : k = Len(events) + 1 \/ (k \in 1..Len(events) /\ events'[k] = events[k])
    BY <1>1
  <2> QED
    BY <1>1, <2>1, <2>2, <2>3
<1> QED
  BY <1>2, <1>4

\* A request that an event does not bring up.
LEMMA RequestKeepsEvents ==
  ASSUME Typed, NEW e \in WireEvents, events' = Append(events, e), view' = view,
         NEW r \in RequestIds, ~IsRequest(e, r),
         approvals'[r] = approvals[r] \/ IsEnd(e, r), ResolutionIsKnown(r), EndFollowsRequest(r)
  PROVE  ResolutionIsKnown(r)' /\ EndFollowsRequest(r)'
<1>1. /\ Len(events) \in Nat /\ Len(events') = Len(events) + 1
      /\ \A k \in 1..Len(events) : events'[k] = events[k]
      /\ events'[Len(events) + 1] = e
  BY EventAppended DEF Typed
<1>2. ResolutionIsKnown(r)'
  BY <1>1 DEF ResolutionIsKnown, IsEnd
<1>3. EndFollowsRequest(r)'
  <2>1. /\ \A n, k \in 1..Len(events) : IsRequest(events[n], r) /\ IsEnd(events[k], r) => n < k
        /\ view.request[r] \in Resolutions => \A n \in 1..Len(events) : ~IsRequest(events[n], r)
    BY DEF EndFollowsRequest
  <2>2. \A n \in 1..Len(events') : IsRequest(events'[n], r) =>
          n \in 1..Len(events) /\ events'[n] = events[n]
    BY <1>1
  <2>3. \A k \in 1..Len(events') : k = Len(events) + 1 \/ (k \in 1..Len(events) /\ events'[k] = events[k])
    BY <1>1
  <2>4. /\ \A n, k \in 1..Len(events') : IsRequest(events'[n], r) /\ IsEnd(events'[k], r) => n < k
        /\ view.request[r] \in Resolutions => \A n \in 1..Len(events') : ~IsRequest(events'[n], r)
    BY <1>1, <2>1, <2>2, <2>3
  <2> QED
    BY <2>4 DEF EndFollowsRequest, IsRequest, IsEnd
<1> QED
  BY <1>2, <1>3

\* An item that a step does not touch, unless it ends the session.
LEMMA ItemIsKept ==
  ASSUME Kept, NEW j \in Items, ItemIsSound(j), items'[j] = items[j], Typed,
         accepted'[j] = accepted[j], final'[j] = final[j],
         compromised' = "no" => compromised = "no" /\ latest'[j] = latest[j]
  PROVE  ItemIsSound(j)'
<1>1. items[j] # Undefined /\ items[j].request # Undefined => items[j].request \in RequestIds
  BY DEF Typed, TrackedItem
<1> QED
  BY <1>1 DEF ItemIsSound, Kept

\* A request that a step does not touch.
LEMMA RequestIsKept ==
  ASSUME Kept, NEW q \in RequestIds, RequestIsSound(q), approvals'[q] = approvals[q],
         answers'[q] = answers[q], view'.request[q] = view.request[q]
  PROVE  RequestIsSound(q)'
<1>1. CASE approvals[q] = Undefined
  BY <1>1 DEF RequestIsSound
<1>2. CASE approvals[q] # Undefined
  <2>1. approvals[q].kind = "file_change" =>
          /\ approvals[q].item \in Items /\ items[approvals[q].item] # Undefined
          /\ items[approvals[q].item].request = q
    BY <1>2 DEF RequestIsSound
  <2>2. approvals[q].kind = "file_change" =>
          items'[approvals[q].item] # Undefined /\ items'[approvals[q].item].request = q
    <3>1. q # Undefined
      BY UndefinedAssumption
    <3> QED
      BY <2>1, <3>1 DEF Kept
  <2>3. /\ approvals[q].sentDecision = Undefined => answers[q] = <<>>
        /\ approvals[q].sentDecision # Undefined =>
             Len(answers[q]) = 1 /\ AnswerIsSound(approvals[q], answers[q][1])
        /\ view.request[q] \in Resolutions =>
             approvals[q].resolved = TRUE /\ view.request[q] = Resolution(approvals[q])
    BY <1>2 DEF RequestIsSound
  <2>4. PICK b, a : b = approvals[q] /\ a = answers[q][1]
    OBVIOUS
  <2>5. approvals[q].sentDecision # Undefined => AnswerIsSound(b, a)'
    BY <2>3, <2>4 DEF AnswerIsSound
  <2>6. approvals[q].sentDecision # Undefined => AnswerIsSound(approvals[q], answers[q][1])'
    BY <2>4, <2>5
  <2>7. view.request[q] \in Resolutions => view.request[q] = Resolution(approvals[q])'
    BY <2>3 DEF Resolution
  <2> QED
    BY <1>2, <2>1, <2>2, <2>3, <2>6, <2>7 DEF RequestIsSound
<1> QED
  BY <1>1, <1>2

LEMMA InvParts ==
  ASSUME WireInv
  PROVE  /\ Typed /\ SessionIsSound
         /\ \A t \in Turns : TurnIsSound(t)
         /\ \A k \in 1..Len(events) : EventIsSound(events[k])
         /\ \A i \in Items : ItemIsSound(i)
         /\ \A i \in Items : ChangeIsKnown(i)
         /\ \A i \in Items : EndIsKnown(i)
         /\ \A i \in Items : RequestFollowsChange(i)
         /\ \A r \in RequestIds : RequestIsSound(r)
         /\ \A r \in RequestIds : ResolutionIsKnown(r)
         /\ \A r \in RequestIds : EndFollowsRequest(r)
         /\ \A h \in Threads : QuietIsSound(h)
BY DEF WireInv

\* Neither the events nor what they are about changes.
LEMMA StreamStays ==
  ASSUME WireInv, UNCHANGED <<sequenceByTurn, items, approvals, events, view>>
  PROVE  /\ \A t \in Turns : TurnIsSound(t)'
         /\ \A k \in 1..Len(events') : EventIsSound(events[k])'
         /\ \A i \in Items : ChangeIsKnown(i)' /\ EndIsKnown(i)' /\ RequestFollowsChange(i)'
         /\ \A r \in RequestIds : ResolutionIsKnown(r)' /\ EndFollowsRequest(r)'
<1>2. \A t \in Turns : TurnIsSound(t)'
  BY InvParts DEF TurnIsSound
<1>3. \A k \in 1..Len(events') : EventIsSound(events[k])'
  BY InvParts DEF EventIsSound, IsDisconnect, Resolution
<1>5. \A i \in Items : ChangeIsKnown(i)'
  BY InvParts DEF ChangeIsKnown, IsUpdate
<1>6. \A i \in Items : EndIsKnown(i)'
  BY InvParts DEF EndIsKnown, IsCompletion
<1>7. \A i \in Items : RequestFollowsChange(i)'
  BY InvParts DEF RequestFollowsChange, IsUpdate, IsAbout
<1>9. \A r \in RequestIds : ResolutionIsKnown(r)'
  BY InvParts DEF ResolutionIsKnown, IsEnd
<1>10. \A r \in RequestIds : EndFollowsRequest(r)'
  BY InvParts DEF EndFollowsRequest, IsRequest, IsEnd
<1> QED
  BY <1>2, <1>3, <1>5, <1>6, <1>7, <1>9, <1>10

\* Nothing changes that the parts of the invariant but its types are about.
LEMMA NothingChanges ==
  ASSUME WireInv, UNCHANGED <<sequenceByTurn, items, approvals, events, view>>,
         UNCHANGED <<disconnectEvent, answers, latest, accepted, final, quiet>>,
         compromised' = compromised \/ compromised' = "uncertain", Typed'
  PROVE  WireInv'
<1>1. SessionIsSound'
  BY InvParts DEF SessionIsSound, IsDisconnect
<1>2. Kept
  BY DEF Kept
<1>3. \A i \in Items : ItemIsSound(i)'
  BY <1>2, InvParts, ItemIsKept
<1>4. \A r \in RequestIds : RequestIsSound(r)'
  BY <1>2, InvParts, RequestIsKept
<1>5. \A h \in Threads : QuietIsSound(h)'
  BY InvParts DEF QuietIsSound
<1> QED
  BY <1>1, <1>3, <1>4, <1>5, StreamStays, Zenon DEF WireInv

LEMMA DisconnectEventType == DisconnectEvent \in WireEvents
BY DEF DisconnectEvent, WireEvents, EventTypes

\* disconnect: the session ends with its last event, whatever the message was
\* that ended it.
LEMMA SessionEnds ==
  ASSUME WireInv, NotifyDisconnect, sessionState' = sessionState, ingestFailed' \in BOOLEAN,
         sending' = sending, latest' \in [Items -> Contents \cup {Empty, Undefined}],
         UNCHANGED <<sequenceByTurn, items, approvals, passthroughResolutions, view, answers,
                     accepted, final, quiet>>
  PROVE  WireInv'
<1>1. compromised' # "no" /\ compromised' \in {"wire", "uncertain"} /\ disconnectEvent' = TRUE
  BY InvParts DEF NotifyDisconnect, Typed, TypeOK
<1>2. Kept
  BY DEF Kept
<1>3. \A j \in Items : ItemIsSound(j)'
  BY <1>1, <1>2, InvParts, ItemIsKept
<1>4. \A r \in RequestIds : RequestIsSound(r)'
  BY <1>2, InvParts, RequestIsKept
<1>5. \A h \in Threads : QuietIsSound(h)'
  BY InvParts DEF QuietIsSound
<1>6. ASSUME events' \in Seq(WireEvents) PROVE Typed'
  BY <1>1, <1>6, InvParts DEF Typed, TypeOK
<1>7. CASE disconnectEvent = TRUE
  <2>1. events' = events
    BY <1>7 DEF NotifyDisconnect
  <2>2. SessionIsSound'
    BY <1>1, <1>7, <2>1, InvParts DEF SessionIsSound, IsDisconnect
  <2>3. /\ \A t \in Turns : TurnIsSound(t)'
        /\ \A k \in 1..Len(events') : EventIsSound(events[k])'
        /\ \A i \in Items : ChangeIsKnown(i)' /\ EndIsKnown(i)' /\ RequestFollowsChange(i)'
        /\ \A r \in RequestIds : ResolutionIsKnown(r)' /\ EndFollowsRequest(r)'
    BY <2>1, StreamStays
  <2>7. Typed'
    BY <1>6, <2>1, InvParts DEF Typed
  <2> QED
    BY <1>3, <1>4, <1>5, <2>2, <2>3, <2>7, Zenon DEF WireInv
<1>8. CASE disconnectEvent = FALSE
  <2>1. PICK e \in WireEvents : e = DisconnectEvent
    BY DisconnectEventType
  <2>2. e.type = "transport_disconnected" /\ e.turn = Undefined
    BY <2>1 DEF DisconnectEvent
  <2>3. events' = Append(events, e)
    BY <1>8, <2>1 DEF NotifyDisconnect
  <2>4. /\ Len(events) \in Nat /\ Len(events') = Len(events) + 1
        /\ \A k \in 1..Len(events) : events'[k] = events[k]
        /\ events'[Len(events) + 1] = e /\ events' \in Seq(WireEvents)
    BY <2>3, EventAppended, InvParts DEF Typed
  <2>5. SessionIsSound'
    <3>1. view.told = FALSE /\ view.told \in BOOLEAN
      BY <1>8, InvParts DEF SessionIsSound, Typed
    <3>2. \A k \in 1..Len(events) : ~IsDisconnect(events[k])
      BY <1>8, InvParts DEF SessionIsSound
    <3>3. /\ IsDisconnect(events'[Len(events')])
          /\ \A k \in 1..Len(events') : IsDisconnect(events'[k]) => k = Len(events')
      BY <2>2, <2>4, <3>2 DEF IsDisconnect
    <3>4. Len(events') \in 1..Len(events')
      BY <2>4
    <3> QED
      BY <1>1, <3>1, <3>3, <3>4 DEF SessionIsSound, IsDisconnect
  <2>6. \A t \in Turns : TurnIsSound(t)'
    BY <2>2, <2>3, InvParts, TurnsAreLeft
  <2>7. EventIsSound(e)'
    BY <2>2 DEF EventIsSound, IsDisconnect
  <2>8. \A k \in 1..Len(events') : EventIsSound(events[k])'
    BY <1>2, <2>3, <2>7, InvParts, EventsAreKept
  <2>9. \A i \in Items : ChangeIsKnown(i)' /\ EndIsKnown(i)' /\ RequestFollowsChange(i)'
    <3> SUFFICES ASSUME NEW i \in Items
                 PROVE  ChangeIsKnown(i)' /\ EndIsKnown(i)' /\ RequestFollowsChange(i)'
      OBVIOUS
    <3>1. ~IsUpdate(e, i)
      BY <2>2 DEF IsUpdate
    <3> QED
      BY <2>3, <3>1, InvParts, ItemKeepsEvents
  <2>10. \A r \in RequestIds : ResolutionIsKnown(r)' /\ EndFollowsRequest(r)'
    <3> SUFFICES ASSUME NEW r \in RequestIds PROVE ResolutionIsKnown(r)' /\ EndFollowsRequest(r)'
      OBVIOUS
    <3>1. ~IsRequest(e, r)
      BY <2>2 DEF IsRequest
    <3> QED
      BY <2>3, <3>1, InvParts, RequestKeepsEvents
  <2>11. Typed'
    BY <1>6, <2>4
  <2> QED
    BY <1>3, <1>4, <1>5, <2>5, <2>6, <2>8, <2>9, <2>10, <2>11, Zenon DEF WireInv
<1> QED
  BY <1>7, <1>8, InvParts DEF Typed, TypeOK

\* nextSequence and the hand-over of an event, in a session that goes on.
LEMMA EventIsEmitted ==
  ASSUME WireInv, NEW t \in Turns, NEW e \in WireEvents, ~IsDisconnect(e),
         e.turn = t, e.seq = sequenceByTurn[t] + 1, events' = Append(events, e),
         sequenceByTurn' = [sequenceByTurn EXCEPT ![t] = @ + 1],
         disconnectEvent = FALSE, UNCHANGED <<compromised, disconnectEvent, view>>
  PROVE  /\ SessionIsSound'
         /\ \A s \in Turns : TurnIsSound(s)'
         /\ events' \in Seq(WireEvents)
         /\ sequenceByTurn' \in [Turns -> Nat]
<1>1. sequenceByTurn \in [Turns -> Nat] /\ events \in Seq(WireEvents)
  BY InvParts DEF Typed, TypeOK
<1>5. \A s \in Turns : TurnIsSound(s)'
  BY InvParts, TurnsGoOn
<1>6. /\ Len(events) \in Nat /\ Len(events') = Len(events) + 1
      /\ \A k \in 1..Len(events) : events'[k] = events[k]
      /\ events'[Len(events) + 1] = e /\ events' \in Seq(WireEvents)
  BY <1>1, EventAppended
<1>7. SessionIsSound'
  <2>1. view.told = FALSE
    BY InvParts DEF SessionIsSound, Typed
  <2>2. \A k \in 1..Len(events) : ~IsDisconnect(events[k])
    BY InvParts DEF SessionIsSound
  <2>3. \A k \in 1..Len(events') : ~IsDisconnect(events'[k])
    BY <1>6, <2>2 DEF IsDisconnect
  <2> QED
    BY <2>1, <2>3, InvParts DEF SessionIsSound, IsDisconnect
<1>8. sequenceByTurn' \in [Turns -> Nat]
  BY <1>1
<1> QED
  BY <1>5, <1>6, <1>7, <1>8

\* The last event of an item brings its change set.
LEMMA ChangeIsTold ==
  ASSUME Typed, NEW e \in WireEvents, events' = Append(events, e), NEW i \in Items,
         IsUpdate(e, i), e.data = items'[i].changeSet
  PROVE  ChangeIsKnown(i)'
<1>1. /\ Len(events) \in Nat /\ Len(events') = Len(events) + 1
      /\ \A k \in 1..Len(events) : events'[k] = events[k]
      /\ events'[Len(events) + 1] = e
  BY EventAppended DEF Typed
<1>2. ~(\A n \in 1..Len(events') : ~IsUpdate(events'[n], i))
  <2>1. Len(events) + 1 \in 1..Len(events')
    BY <1>1
  <2> QED
    BY <1>1, <2>1
<1>3. ASSUME NEW k \in 1..Len(events'), \A n \in (k + 1)..Len(events') : ~IsUpdate(events'[n], i)
      PROVE  events'[k].data = items'[i].changeSet
  <2>1. k = Len(events) + 1
    <3> SUFFICES ASSUME k # Len(events) + 1 PROVE FALSE
      OBVIOUS
    <3>1. Len(events) + 1 \in (k + 1)..Len(events')
      BY <1>1
    <3> QED
      BY <1>1, <1>3, <3>1
  <2> QED
    BY <1>1, <2>1
<1> QED
  BY <1>2, <1>3 DEF ChangeIsKnown, IsUpdate

-----------------------------------------------------------------------------
(* Messages that are refused or change little.                             *)

LEMMA MessageIsRefused ==
  ASSUME WireInv, Blocked, UNCHANGED adapterVars,
         latest' \in [Items -> Contents \cup {Empty, Undefined}]
  PROVE  WireInv'
<1>1. ingestFailed' \in BOOLEAN
  BY InvParts DEF Typed, TypeOK, adapterVars
<1> QED
  BY <1>1, SessionEnds DEF Blocked, adapterVars

\* The content of a message is of its item.
LEMMA LatestType ==
  ASSUME WireInv, UNCHANGED latest
  PROVE  latest' \in [Items -> Contents \cup {Empty, Undefined}]
BY InvParts DEF Typed

LEMMA LatestIsNoted ==
  ASSUME WireInv, NEW i \in Items, NEW c \in Contents \cup {Empty},
         latest' = [latest EXCEPT ![i] = c]
  PROVE  /\ latest' \in [Items -> Contents \cup {Empty, Undefined}]
         /\ latest'[i] = c /\ \A j \in Items : j # i => latest'[j] = latest[j]
BY InvParts DEF Typed

LEMMA HandshakeKeeps ==
  ASSUME WireInv, NEW valid \in BOOLEAN,
         AcceptInitializeResponse(valid) \/ AcceptInitializedNotification(valid)
  PROVE  WireInv'
<1>1. CASE Blocked
  BY <1>1, MessageIsRefused, LatestType DEF AcceptInitializeResponse, AcceptInitializedNotification
<1>2. CASE ~Blocked
  <2>1. /\ sessionState' \in {"awaiting_initialized_notification", "ready"}
        /\ UNCHANGED <<sequenceByTurn, items, approvals, events, view>>
        /\ UNCHANGED <<disconnectEvent, answers, latest, accepted, final, quiet>>
        /\ UNCHANGED <<compromised, passthroughResolutions, ingestFailed, sending>>
    BY <1>2 DEF AcceptInitializeResponse, AcceptInitializedNotification, adapterVars
  <2>2. Typed'
    BY <2>1, InvParts DEF Typed, TypeOK
  <2> QED
    BY <2>1, <2>2, NothingChanges
<1> QED
  BY <1>1, <1>2

LEMMA OtherResponseKeeps ==
  ASSUME WireInv, OtherResponse
  PROVE  WireInv'
<1>1. CASE Blocked
  BY <1>1, MessageIsRefused, LatestType DEF OtherResponse
<1>2. CASE ~Blocked
  <2>1. /\ UNCHANGED <<sequenceByTurn, items, approvals, events, view>>
        /\ UNCHANGED <<disconnectEvent, answers, latest, accepted, final, quiet>>
        /\ UNCHANGED <<compromised, passthroughResolutions, ingestFailed, sending, sessionState>>
    BY <1>2 DEF OtherResponse, adapterVars
  <2>2. Typed'
    BY <2>1, InvParts DEF Typed, TypeOK
  <2> QED
    BY <2>1, <2>2, NothingChanges
<1> QED
  BY <1>1, <1>2

LEMMA PassthroughRequestKeeps ==
  ASSUME WireInv, NEW w \in WireIds, NEW h \in Threads, PassthroughRequest(w, h)
  PROVE  WireInv'
<1>1. CASE Blocked
  BY <1>1, MessageIsRefused, LatestType DEF PassthroughRequest
<1>2. CASE ~Blocked
  <2>1. /\ UNCHANGED <<sequenceByTurn, items, approvals, events, view>>
        /\ UNCHANGED <<disconnectEvent, answers, latest, accepted, final, quiet>>
        /\ UNCHANGED <<compromised, ingestFailed, sending, sessionState>>
        /\ passthroughResolutions' = [passthroughResolutions EXCEPT ![CanonicalId[w]] = h]
    BY <1>2 DEF PassthroughRequest, adapterVars
  <2>2. passthroughResolutions' \in [RequestIds -> Threads \cup {Undefined}]
    BY <2>1, InvParts DEF Typed
  <2>3. Typed'
    BY <2>1, <2>2, InvParts DEF Typed, TypeOK
  <2> QED
    BY <2>1, <2>3, NothingChanges
<1> QED
  BY <1>1, <1>2

LEMMA ThreadClosedKeeps ==
  ASSUME WireInv, NEW h \in Threads, ThreadClosed(h)
  PROVE  WireInv'
<1>1. CASE Blocked
  BY <1>1, MessageIsRefused, LatestType DEF ThreadClosed
<1>2. CASE ~Blocked
  <2>1. /\ UNCHANGED <<sequenceByTurn, items, approvals, events, view>>
        /\ UNCHANGED <<disconnectEvent, answers, latest, accepted, final>>
        /\ UNCHANGED <<compromised, passthroughResolutions, ingestFailed, sending, sessionState>>
        /\ quiet' = quiet \cup {h} /\ ~ThreadHasOpenGovernance(h)
    BY <1>2 DEF ThreadClosed, adapterVars, normalizer
  <2>2. Typed'
    BY <2>1, InvParts DEF Typed, TypeOK
  <2>3. SessionIsSound'
    BY <2>1, InvParts DEF SessionIsSound, IsDisconnect
  <2>4. Kept
    BY <2>1 DEF Kept
  <2>5. \A i \in Items : ItemIsSound(i)'
    BY <2>1, <2>4, InvParts, ItemIsKept
  <2>6. \A r \in RequestIds : RequestIsSound(r)'
    BY <2>1, <2>4, InvParts, RequestIsKept
  <2>7. ASSUME NEW g \in Threads PROVE QuietIsSound(g)'
    <3>1. CASE g = h
      <4>1. \A i \in Items : ThreadOf[TurnOf[i]] = h /\ items[i] # Undefined => items[i].completed = TRUE
        BY <2>1, InvParts DEF ThreadHasOpenGovernance, Typed, TrackedItem
      <4>2. \A r \in RequestIds : approvals[r] # Undefined /\ ThreadOf[approvals[r].turn] = h =>
              approvals[r].resolved = TRUE
        BY <2>1, InvParts DEF ThreadHasOpenGovernance, Typed, ApprovalBinding
      <4> QED
        BY <2>1, <3>1, <4>1, <4>2 DEF QuietIsSound
    <3>2. CASE g # h
      BY <2>1, <3>2, InvParts DEF QuietIsSound
    <3> QED
      BY <3>1, <3>2
  <2> QED
    BY <2>1, <2>2, <2>3, <2>5, <2>6, <2>7, StreamStays, Zenon DEF WireInv
<1> QED
  BY <1>1, <1>2

LEMMA SendSettlesKeeps ==
  ASSUME WireInv, NEW delivered \in BOOLEAN, SendSettles(delivered)
  PROVE  WireInv'
<1>1. /\ UNCHANGED <<sequenceByTurn, items, approvals, events, view>>
      /\ UNCHANGED <<disconnectEvent, answers, latest, accepted, final, quiet>>
      /\ UNCHANGED <<passthroughResolutions, ingestFailed, sessionState>>
      /\ compromised' = compromised \/ compromised' = "uncertain"
      /\ sending' = Undefined
  BY DEF SendSettles, observed
<1>2. Typed'
  BY <1>1, InvParts DEF Typed, TypeOK
<1> QED
  BY <1>1, <1>2, NothingChanges

-----------------------------------------------------------------------------
(* The life of a file-change item.                                         *)

\* A trusted session has not ended.
LEMMA TrustedIsOpen ==
  ASSUME WireInv, Arrives, Trusted
  PROVE  disconnectEvent = FALSE /\ compromised = "no"
BY InvParts DEF Arrives, Trusted, Typed, TypeOK

\* An item is replaced; what is said of requests and other items stays.
LEMMA ItemIsReplaced ==
  ASSUME WireInv, Kept, NEW i \in Items, NEW new \in TrackedItem,
         items' = [items EXCEPT ![i] = new],
         approvals' = approvals, answers' = answers, view' = view, accepted' = accepted,
         compromised' = "no", compromised = "no",
         \A j \in Items : j # i => final'[j] = final[j] /\ latest'[j] = latest[j]
  PROVE  /\ items' \in [Items -> TrackedItem \cup {Undefined}]
         /\ items'[i] = new /\ new # Undefined
         /\ \A j \in Items : j # i => items'[j] = items[j]
         /\ \A j \in Items : j # i => ItemIsSound(j)'
         /\ \A r \in RequestIds : RequestIsSound(r)'
<1>1. items \in [Items -> TrackedItem \cup {Undefined}]
  BY InvParts DEF Typed
<1>2. /\ items' \in [Items -> TrackedItem \cup {Undefined}]
      /\ items'[i] = new /\ \A j \in Items : j # i => items'[j] = items[j]
  BY <1>1
<1>3. new # Undefined
  BY UndefinedAssumption
<1>4. \A j \in Items : j # i => ItemIsSound(j)'
  BY <1>2, InvParts, ItemIsKept
<1>5. \A r \in RequestIds : RequestIsSound(r)'
  BY InvParts, RequestIsKept
<1> QED
  BY <1>2, <1>3, <1>4, <1>5

\* The types of the normalizer after an item is replaced and an event given.
LEMMA TypedAfterItem ==
  ASSUME WireInv, NEW i \in Items, NEW new \in TrackedItem, items' = [items EXCEPT ![i] = new],
         Cardinality(new.seen) <= MaxTrackedSnapshots,
         approvals' \in [RequestIds -> ApprovalBinding \cup {Undefined}],
         events' \in Seq(WireEvents), sequenceByTurn' \in [Turns -> Nat],
         latest' \in [Items -> Contents \cup {Empty, Undefined}],
         final' \in [Items -> Contents \cup {Undefined}], quiet' \subseteq Threads,
         UNCHANGED <<sessionState, compromised, disconnectEvent, passthroughResolutions>>,
         UNCHANGED <<ingestFailed, sending, view, answers, accepted>>
  PROVE  Typed'
<1>1. items' \in [Items -> TrackedItem \cup {Undefined}]
  BY InvParts DEF Typed
<1>2. \A j \in Items : items'[j] = Undefined \/ /\ items'[j] \in TrackedItem
                                                /\ Cardinality(items'[j].seen) <= MaxTrackedSnapshots
  BY InvParts DEF Typed, TypeOK
<1>3. \A r \in RequestIds : approvals'[r] = Undefined \/ approvals'[r] \in ApprovalBinding
  OBVIOUS
<1> HIDE DEF RequestIds
<1> QED
  BY <1>1, <1>2, <1>3, InvParts DEF Typed, TypeOK

LEMMA ItemStartedKeeps ==
  ASSUME WireInv, NEW i \in Items, NEW c \in Contents, NEW f \in RawForms, NEW e \in Evidence,
         ItemStarted(i, c, f, e)
  PROVE  WireInv'
<1>1. /\ latest' \in [Items -> Contents \cup {Empty, Undefined}]
      /\ latest'[i] = c /\ \A j \in Items : j # i => latest'[j] = latest[j]
  BY LatestIsNoted DEF ItemStarted
<1>2. CASE Blocked
  BY <1>1, <1>2, MessageIsRefused DEF ItemStarted
<1>3. CASE ~Blocked
  <2> DEFINE changeSet == [content |-> c, head |-> e[1], hash |-> e[2]]
             new == [changeSet |-> changeSet, raw |-> <<c, f>>, seen |-> {c}, bound |-> TRUE,
                     request |-> Undefined, completed |-> FALSE]
  <2>1. /\ Arrives /\ Trusted /\ items[i] = Undefined /\ e # Undefined
        /\ items' = [items EXCEPT ![i] = new]
        /\ Emit(TurnOf[i], "item_started", i, Undefined, changeSet)
        /\ quiet' = quiet \ {ThreadOf[TurnOf[i]]}
        /\ UNCHANGED <<sessionState, compromised, disconnectEvent, passthroughResolutions>>
        /\ UNCHANGED <<ingestFailed, sending, view, answers, accepted>>
        /\ UNCHANGED <<approvals, final>>
    BY <1>3 DEF ItemStarted, adapterVars
  <2>2. disconnectEvent = FALSE /\ compromised = "no"
    BY <2>1, TrustedIsOpen
  <2>3. changeSet \in ChangeSets
    BY <2>1 DEF Evidence, ChangeSets
  <2>4. new.changeSet = changeSet /\ new.raw[1] = c /\ new.seen = {c} /\ new.bound = TRUE
        /\ new.request = Undefined /\ new.completed = FALSE /\ changeSet.content = c
    OBVIOUS
  <2>5. new \in TrackedItem
    BY <2>3 DEF TrackedItem
  <2>6. IsFiniteSet({c}) /\ Cardinality({c}) <= MaxTrackedSnapshots
    BY FS_Singleton, V2WireAssumption
  <2> HIDE DEF new, changeSet
  <2>7. Kept
    BY <2>1 DEF Kept
  <2>8. /\ items'[i] = new /\ new # Undefined
        /\ \A j \in Items : j # i => items'[j] = items[j]
        /\ \A j \in Items : j # i => ItemIsSound(j)'
        /\ \A r \in RequestIds : RequestIsSound(r)'
    BY <1>1, <2>1, <2>2, <2>5, <2>7, ItemIsReplaced
  <2>9. TurnOf[i] \in Turns
    BY V2WireAssumption
  <2>10. PICK d : d = Event("item_started", TurnOf[i], i, Undefined, changeSet)
    OBVIOUS
  <2>11. /\ d \in WireEvents /\ d.type = "item_started" /\ d.turn = TurnOf[i] /\ d.item = i
         /\ d.request = Undefined /\ d.data = changeSet
         /\ d.seq = sequenceByTurn[TurnOf[i]] + 1
    <3>1. sequenceByTurn[TurnOf[i]] \in Nat
      BY <2>9, InvParts DEF Typed, TypeOK
    <3> QED
      BY <2>3, <2>9, <2>10, <3>1 DEF Event, WireEvents, EventTypes
  <2>12. /\ events' = Append(events, d)
         /\ SessionIsSound' /\ \A s \in Turns : TurnIsSound(s)'
         /\ events' \in Seq(WireEvents) /\ sequenceByTurn' \in [Turns -> Nat]
    <3>1. /\ events' = Append(events, d)
          /\ sequenceByTurn' = [sequenceByTurn EXCEPT ![TurnOf[i]] = @ + 1]
      BY <2>1, <2>10 DEF Emit
    <3>2. ~IsDisconnect(d)
      BY <2>11 DEF IsDisconnect
    <3> QED
      BY <2>1, <2>2, <2>9, <2>11, <3>1, <3>2, EventIsEmitted
  <2>13. EventIsSound(d)'
    BY <2>3, <2>8, <2>9, <2>11 DEF EventIsSound, IsDisconnect
  <2>14. \A k \in 1..Len(events') : EventIsSound(events[k])'
    BY <2>7, <2>12, <2>11, <2>13, InvParts, EventsAreKept
  <2>15. ItemIsSound(i)'
    <3>1. accepted[i] = Undefined /\ final[i] = Undefined
      BY <2>1, InvParts DEF ItemIsSound
    <3>2. accepted'[i] = Undefined /\ final'[i] = Undefined
      BY <2>1, <3>1
    <3> QED
      BY <1>1, <2>4, <2>6, <2>8, <3>2 DEF ItemIsSound
  <2>16. ChangeIsKnown(i)' /\ EndIsKnown(i)' /\ RequestFollowsChange(i)'
    <3>1. ChangeIsKnown(i)'
      BY <2>4, <2>8, <2>11, <2>12, InvParts, ChangeIsTold DEF IsUpdate
    <3> QED
      BY <2>4, <2>8, <3>1 DEF EndIsKnown, RequestFollowsChange
  <2>17. \A j \in Items : j # i => ChangeIsKnown(j)' /\ EndIsKnown(j)' /\ RequestFollowsChange(j)'
    BY <2>1, <2>8, <2>11, <2>12, InvParts, ItemKeepsEvents DEF IsUpdate
  <2>18. \A r \in RequestIds : ResolutionIsKnown(r)' /\ EndFollowsRequest(r)'
    BY <2>1, <2>11, <2>12, InvParts, RequestKeepsEvents DEF IsRequest
  <2>19. \A h \in Threads : QuietIsSound(h)'
    BY <2>1, <2>8, InvParts DEF QuietIsSound
  <2>20. Typed'
    <3>1. quiet' \subseteq Threads /\ approvals' \in [RequestIds -> ApprovalBinding \cup {Undefined}]
          /\ final' \in [Items -> Contents \cup {Undefined}]
      BY <2>1, InvParts DEF Typed
    <3> QED
      BY <1>1, <2>1, <2>4, <2>5, <2>6, <2>12, <3>1, TypedAfterItem
  <2>21. \A j \in Items : /\ ItemIsSound(j)' /\ ChangeIsKnown(j)' /\ EndIsKnown(j)'
                          /\ RequestFollowsChange(j)'
    BY <2>8, <2>15, <2>16, <2>17
  <2> QED
    BY <2>8, <2>12, <2>14, <2>18, <2>19, <2>20, <2>21, Zenon DEF WireInv
<1> QED
  BY <1>2, <1>3

\* What a patch with content c makes of an item.
PatchResult(new, c) ==
  /\ new \in TrackedItem /\ IsFiniteSet(new.seen)
  /\ Cardinality(new.seen) <= MaxTrackedSnapshots
  /\ new.request = Undefined /\ new.completed = FALSE
  /\ new.bound = TRUE => new.raw[1] = new.changeSet.content /\ new.changeSet.content = c
  /\ new.bound = FALSE => new.raw[1] = Empty

\* What a patch makes of an item: a snapshot that is bound is the patch's.
LEMMA PatchedItem ==
  ASSUME WireInv, NEW i \in Items, NEW c \in Contents \cup {Empty}, NEW f \in RawForms,
         NEW e \in Evidence, PatchIsOpen(i), NEW new, new = Patched(i, c, f, e), new # Undefined
  PROVE  PatchResult(new, c)
<1> DEFINE changeSet == [content |-> c, head |-> e[1], hash |-> e[2]]
<1>0. PICK old : old = items[i]
  OBVIOUS
<1>1. /\ old \in TrackedItem /\ Cardinality(old.seen) <= MaxTrackedSnapshots /\ IsFiniteSet(old.seen)
      /\ old.request = Undefined /\ old.completed = FALSE
      /\ old.bound = TRUE => old.raw[1] = old.changeSet.content
      /\ old.bound = FALSE => old.raw[1] = Empty
  BY <1>0, InvParts DEF PatchIsOpen, Typed, TypeOK, ItemIsSound, TrackedItem
<1>2. CASE <<c, f>> = old.raw
  <2>1. new = old /\ old.raw[1] = c
    BY <1>0, <1>2 DEF Patched
  <2> QED
    BY <1>1, <2>1 DEF PatchResult
<1>3. CASE <<c, f>> # old.raw /\ c = Empty
  <2> DEFINE made == [old EXCEPT !.raw = <<c, f>>, !.bound = FALSE]
  <2>1. new = made
    BY <1>0, <1>3 DEF Patched
  <2>2. made \in TrackedItem
    BY <1>1, <1>3 DEF TrackedItem
  <2>3. /\ made.seen = old.seen /\ made.request = old.request /\ made.completed = old.completed
        /\ made.bound = FALSE /\ made.raw[1] = Empty
    BY <1>1, <1>3 DEF TrackedItem
  <2> HIDE DEF made
  <2> QED
    BY <1>1, <2>1, <2>2, <2>3 DEF PatchResult
<1>4. CASE <<c, f>> # old.raw /\ c # Empty
  <2> DEFINE rewritten == [old EXCEPT !.raw = <<c, f>>, !.bound = TRUE]
             made == [old EXCEPT !.changeSet = changeSet, !.raw = <<c, f>>, !.bound = TRUE,
                                 !.seen = @ \cup {c}]
  <2>1. /\ c \in Contents /\ e # Undefined
        /\ \/ changeSet = old.changeSet /\ new = rewritten
           \/ SnapshotIsNew(old, c) /\ new = made
    BY <1>0, <1>4 DEF Patched
  <2>2. changeSet \in ChangeSets /\ changeSet.content = c
    BY <2>1 DEF Evidence, ChangeSets
  <2> HIDE DEF changeSet
  <2>3. rewritten \in TrackedItem /\ made \in TrackedItem
    BY <1>1, <2>1, <2>2 DEF TrackedItem
  <2>4. /\ rewritten.seen = old.seen /\ rewritten.request = old.request
        /\ rewritten.completed = old.completed /\ rewritten.changeSet = old.changeSet
        /\ rewritten.bound = TRUE /\ rewritten.raw[1] = c
    BY <1>1 DEF TrackedItem
  <2>5. /\ made.seen = old.seen \cup {c} /\ made.request = old.request
        /\ made.completed = old.completed /\ made.changeSet = changeSet
        /\ made.bound = TRUE /\ made.raw[1] = c
    BY <1>1 DEF TrackedItem
  <2> HIDE DEF rewritten, made
  <2>6. CASE changeSet = old.changeSet /\ new = rewritten
    BY <1>1, <2>2, <2>3, <2>4, <2>6 DEF PatchResult
  <2>7. CASE SnapshotIsNew(old, c) /\ new = made
    <3>1. /\ IsFiniteSet(old.seen \cup {c})
          /\ Cardinality(old.seen \cup {c}) = Cardinality(old.seen) + 1
          /\ Cardinality(old.seen) \in Nat
      BY <1>1, <2>7, FS_AddElement, FS_CardinalityType DEF SnapshotIsNew
    <3>2. Cardinality(old.seen \cup {c}) <= MaxTrackedSnapshots
      BY <2>7, <3>1, V2WireAssumption DEF SnapshotIsNew
    <3> QED
      BY <1>1, <2>2, <2>3, <2>5, <2>7, <3>1, <3>2 DEF PatchResult
  <2> QED
    BY <2>1, <2>6, <2>7
<1> QED
  BY <1>2, <1>3, <1>4

\* A patch is taken and makes the item new.
PatchMakes(i, c, new) ==
  /\ PatchIsOpen(i) /\ disconnectEvent = FALSE /\ compromised = "no"
  /\ items' = [items EXCEPT ![i] = new] /\ PatchResult(new, c)
  /\ new.changeSet # items[i].changeSet => Emit(TurnOf[i], "item_updated", i, Undefined, new.changeSet)
  /\ new.changeSet = items[i].changeSet => UNCHANGED <<events, sequenceByTurn>>
  /\ UNCHANGED <<sessionState, compromised, disconnectEvent, passthroughResolutions>>
  /\ UNCHANGED <<ingestFailed, sending, view, answers, accepted>>
  /\ UNCHANGED <<approvals, final, quiet>>

LEMMA PatchIsTaken ==
  ASSUME WireInv, NEW i \in Items, NEW c \in Contents \cup {Empty}, NEW f \in RawForms,
         NEW e \in Evidence, FileChangePatchUpdated(i, c, f, e), ~Blocked
  PROVE  \E new \in TrackedItem : PatchMakes(i, c, new)
<1>1. PICK new : new = Patched(i, c, f, e)
  OBVIOUS
<1>2. /\ Arrives /\ Trusted /\ PatchIsOpen(i) /\ new # Undefined
      /\ items' = [items EXCEPT ![i] = new]
      /\ IF items'[i].changeSet # items[i].changeSet
         THEN Emit(TurnOf[i], "item_updated", i, Undefined, items'[i].changeSet)
         ELSE UNCHANGED <<events, sequenceByTurn>>
      /\ UNCHANGED <<sessionState, compromised, disconnectEvent, passthroughResolutions>>
      /\ UNCHANGED <<ingestFailed, sending, view, answers, accepted>>
      /\ UNCHANGED <<approvals, final, quiet>>
  BY <1>1 DEF FileChangePatchUpdated, adapterVars
<1>3. disconnectEvent = FALSE /\ compromised = "no"
  BY <1>2, TrustedIsOpen
<1>4. PatchResult(new, c)
  BY <1>1, <1>2, PatchedItem
<1>5. items'[i] = new
  BY <1>2, InvParts DEF Typed
<1>6. PatchMakes(i, c, new)
  BY <1>2, <1>3, <1>4, <1>5 DEF PatchMakes
<1> QED
  BY <1>4, <1>6 DEF PatchResult

\* An item in a step that gives no event.
LEMMA ItemStreamStays ==
  ASSUME NEW j \in Items, items'[j] = items[j], events' = events, view' = view,
         ChangeIsKnown(j), EndIsKnown(j), RequestFollowsChange(j)
  PROVE  ChangeIsKnown(j)' /\ EndIsKnown(j)' /\ RequestFollowsChange(j)'
<1>1. ChangeIsKnown(j)'
  BY DEF ChangeIsKnown, IsUpdate
<1>2. EndIsKnown(j)'
  BY DEF EndIsKnown, IsCompletion
<1>3. RequestFollowsChange(j)'
  BY DEF RequestFollowsChange, IsUpdate, IsAbout
<1> QED
  BY <1>1, <1>2, <1>3

\* A request in a step that gives no event.
LEMMA RequestStreamStays ==
  ASSUME NEW r \in RequestIds, events' = events, view' = view,
         approvals'[r] = approvals[r] \/ (approvals[r] # Undefined /\ approvals'[r].resolved = approvals[r].resolved),
         ResolutionIsKnown(r), EndFollowsRequest(r)
  PROVE  ResolutionIsKnown(r)' /\ EndFollowsRequest(r)'
<1>1. ResolutionIsKnown(r)'
  BY DEF ResolutionIsKnown, IsEnd
<1>2. EndFollowsRequest(r)'
  BY DEF EndFollowsRequest, IsRequest, IsEnd
<1> QED
  BY <1>1, <1>2

LEMMA FileChangePatchUpdatedKeeps ==
  ASSUME WireInv, NEW i \in Items, NEW c \in Contents \cup {Empty}, NEW f \in RawForms,
         NEW e \in Evidence, FileChangePatchUpdated(i, c, f, e)
  PROVE  WireInv'
<1>1. /\ latest' \in [Items -> Contents \cup {Empty, Undefined}]
      /\ latest'[i] = c /\ \A j \in Items : j # i => latest'[j] = latest[j]
  BY LatestIsNoted DEF FileChangePatchUpdated
<1>2. CASE Blocked
  BY <1>1, <1>2, MessageIsRefused DEF FileChangePatchUpdated
<1>3. CASE ~Blocked
  <2>1. PICK new \in TrackedItem : PatchMakes(i, c, new)
    BY <1>3, PatchIsTaken
  <2>0. /\ PatchIsOpen(i) /\ disconnectEvent = FALSE /\ compromised = "no"
        /\ items' = [items EXCEPT ![i] = new]
        /\ IsFiniteSet(new.seen) /\ Cardinality(new.seen) <= MaxTrackedSnapshots
        /\ new.request = Undefined /\ new.completed = FALSE
        /\ new.bound = TRUE => new.raw[1] = new.changeSet.content /\ new.changeSet.content = c
        /\ new.bound = FALSE => new.raw[1] = Empty
        /\ UNCHANGED <<sessionState, compromised, disconnectEvent, passthroughResolutions>>
        /\ UNCHANGED <<ingestFailed, sending, view, answers, accepted>>
        /\ UNCHANGED <<approvals, final, quiet>>
    BY <2>1 DEF PatchMakes, PatchResult
  <2>2. items[i] # Undefined /\ items[i].request = Undefined /\ items[i].completed = FALSE
    BY <2>0, InvParts DEF PatchIsOpen, Typed, TrackedItem
  <2>3. Kept
    <3>1. new # Undefined /\ items \in [Items -> TrackedItem \cup {Undefined}]
      BY InvParts, UndefinedAssumption DEF Typed
    <3> QED
      BY <2>0, <2>2, <3>1 DEF Kept
  <2>4. /\ items'[i] = new /\ new # Undefined
        /\ \A j \in Items : j # i => items'[j] = items[j]
        /\ \A j \in Items : j # i => ItemIsSound(j)'
        /\ \A r \in RequestIds : RequestIsSound(r)'
    BY <1>1, <2>0, <2>3, ItemIsReplaced
  <2>5. ItemIsSound(i)'
    <3>1. accepted[i] = Undefined /\ final[i] = Undefined
      BY <2>2, InvParts DEF ItemIsSound
    <3>2. accepted'[i] = Undefined /\ final'[i] = Undefined
      BY <2>0, <3>1
    <3> QED
      BY <1>1, <2>0, <2>4, <3>2 DEF ItemIsSound
  <2>6. \A h \in Threads : QuietIsSound(h)'
    BY <2>0, <2>2, <2>4, InvParts DEF QuietIsSound
  <2>7. ASSUME events' \in Seq(WireEvents), sequenceByTurn' \in [Turns -> Nat] PROVE Typed'
    <3>1. quiet' \subseteq Threads /\ approvals' \in [RequestIds -> ApprovalBinding \cup {Undefined}]
          /\ final' \in [Items -> Contents \cup {Undefined}]
      BY <2>0, InvParts DEF Typed
    <3> QED
      BY <1>1, <2>0, <2>7, <3>1, TypedAfterItem
  <2>8. EndIsKnown(i)' /\ RequestFollowsChange(i)'
    BY <2>0, <2>4 DEF EndIsKnown, RequestFollowsChange
  <2>9. CASE new.changeSet = items[i].changeSet
    <3>1. UNCHANGED <<events, sequenceByTurn>>
      BY <2>1, <2>9 DEF PatchMakes
    <3>2. SessionIsSound'
      BY <2>0, <3>1, InvParts DEF SessionIsSound, IsDisconnect
    <3>3. \A t \in Turns : TurnIsSound(t)'
      BY <2>0, <3>1, InvParts DEF TurnIsSound
    <3>4. \A k \in 1..Len(events') : EventIsSound(events[k])'
      <4> SUFFICES ASSUME NEW k \in 1..Len(events) PROVE EventIsSound(events[k])'
        BY <3>1
      <4>1. PICK d : d = events[k]
        OBVIOUS
      <4>2. EventIsSound(d)'
        BY <2>3, <4>1, InvParts, EventIsKept
      <4> QED
        BY <3>1, <4>1, <4>2
    <3>5. ChangeIsKnown(i)'
      BY <2>0, <2>2, <2>4, <2>9, <3>1, InvParts DEF ChangeIsKnown, IsUpdate
    <3>6. \A j \in Items : j # i => ChangeIsKnown(j)' /\ EndIsKnown(j)' /\ RequestFollowsChange(j)'
      BY <2>0, <2>4, <3>1, InvParts, ItemStreamStays
    <3>8. \A r \in RequestIds : ResolutionIsKnown(r)' /\ EndFollowsRequest(r)'
      BY <2>0, <3>1, InvParts, RequestStreamStays
    <3>9. Typed'
      BY <2>7, <3>1, InvParts DEF Typed, TypeOK
    <3>10. \A j \in Items : /\ ItemIsSound(j)' /\ ChangeIsKnown(j)' /\ EndIsKnown(j)'
                            /\ RequestFollowsChange(j)'
      BY <2>4, <2>5, <2>8, <3>5, <3>6
    <3> QED
      BY <2>4, <2>6, <3>2, <3>3, <3>4, <3>8, <3>9, <3>10, Zenon DEF WireInv
  <2>10. CASE new.changeSet # items[i].changeSet
    <3>1. TurnOf[i] \in Turns /\ new.changeSet \in ChangeSets
      BY V2WireAssumption DEF TrackedItem
    <3>2. PICK d : d = Event("item_updated", TurnOf[i], i, Undefined, new.changeSet)
      OBVIOUS
    <3>3. /\ d \in WireEvents /\ d.type = "item_updated" /\ d.turn = TurnOf[i] /\ d.item = i
          /\ d.request = Undefined /\ d.data = new.changeSet
          /\ d.seq = sequenceByTurn[TurnOf[i]] + 1
      <4>1. sequenceByTurn[TurnOf[i]] \in Nat
        BY <3>1, InvParts DEF Typed, TypeOK
      <4> QED
        BY <3>1, <3>2, <4>1 DEF Event, WireEvents, EventTypes
    <3>4. /\ events' = Append(events, d)
          /\ SessionIsSound' /\ \A s \in Turns : TurnIsSound(s)'
          /\ events' \in Seq(WireEvents) /\ sequenceByTurn' \in [Turns -> Nat]
      <4>1. /\ events' = Append(events, d)
            /\ sequenceByTurn' = [sequenceByTurn EXCEPT ![TurnOf[i]] = @ + 1]
        BY <2>1, <2>10, <3>2 DEF Emit, PatchMakes
      <4>2. ~IsDisconnect(d)
        BY <3>3 DEF IsDisconnect
      <4> QED
        BY <2>0, <3>1, <3>3, <4>1, <4>2, EventIsEmitted
    <3>5. EventIsSound(d)'
      BY <2>4, <3>1, <3>3 DEF EventIsSound, IsDisconnect
    <3>6. \A k \in 1..Len(events') : EventIsSound(events[k])'
      BY <2>3, <3>3, <3>4, <3>5, InvParts, EventsAreKept
    <3>7. ChangeIsKnown(i)'
      BY <2>4, <3>3, <3>4, InvParts, ChangeIsTold DEF IsUpdate
    <3>8. \A j \in Items : j # i => ChangeIsKnown(j)' /\ EndIsKnown(j)' /\ RequestFollowsChange(j)'
      BY <2>0, <2>4, <3>3, <3>4, InvParts, ItemKeepsEvents DEF IsUpdate
    <3>9. \A r \in RequestIds : ResolutionIsKnown(r)' /\ EndFollowsRequest(r)'
      BY <2>0, <3>3, <3>4, InvParts, RequestKeepsEvents DEF IsRequest
    <3>10. Typed'
      BY <2>7, <3>4
    <3>11. \A j \in Items : /\ ItemIsSound(j)' /\ ChangeIsKnown(j)' /\ EndIsKnown(j)'
                            /\ RequestFollowsChange(j)'
      BY <2>4, <2>5, <2>8, <3>7, <3>8
    <3> QED
      BY <2>4, <2>6, <3>4, <3>6, <3>9, <3>10, <3>11, Zenon DEF WireInv
  <2> QED
    BY <2>9, <2>10
<1> QED
  BY <1>2, <1>3

LEMMA ItemCompletedKeeps ==
  ASSUME WireInv, NEW i \in Items, NEW c \in Contents, NEW outcome \in {"applied", "not_applied"},
         ItemCompleted(i, c, outcome)
  PROVE  WireInv'
<1>1. CASE Blocked
  BY <1>1, MessageIsRefused, LatestType DEF ItemCompleted
<1>2. CASE ~Blocked
  <2> DEFINE old == items[i]
             new == [old EXCEPT !.completed = TRUE]
  <2>1. /\ Arrives /\ Trusted /\ Completes(i, c)
        /\ items' = [items EXCEPT ![i].completed = TRUE]
        /\ Emit(TurnOf[i], "item_completed", i, Undefined, outcome)
        /\ final' = [final EXCEPT ![i] = c]
        /\ UNCHANGED <<sessionState, compromised, disconnectEvent, passthroughResolutions>>
        /\ UNCHANGED <<ingestFailed, sending, view, answers, accepted>>
        /\ UNCHANGED <<approvals, quiet, latest>>
    BY <1>2 DEF ItemCompleted, adapterVars
  <2>2. disconnectEvent = FALSE /\ compromised = "no"
    BY <2>1, TrustedIsOpen
  <2>3. /\ old # Undefined /\ old \in TrackedItem /\ c = old.changeSet.content
        /\ Cardinality(old.seen) <= MaxTrackedSnapshots
    BY <2>1, InvParts DEF Completes, Typed, TypeOK
  <2>4. items' = [items EXCEPT ![i] = new]
    BY <2>1, InvParts DEF Typed
  <2>5. /\ new \in TrackedItem
        /\ new.changeSet = old.changeSet /\ new.raw = old.raw /\ new.seen = old.seen
        /\ new.bound = old.bound /\ new.request = old.request /\ new.completed = TRUE
    <3> HIDE DEF old
    <3> QED
      BY <2>3 DEF TrackedItem
  <2> HIDE DEF new
  <2>6. final' \in [Items -> Contents \cup {Undefined}] /\ final'[i] = c
        /\ \A j \in Items : j # i => final'[j] = final[j]
    BY <2>1, InvParts DEF Typed
  <2>7. Kept
    <3>1. new # Undefined /\ items \in [Items -> TrackedItem \cup {Undefined}]
      BY <2>5, InvParts, UndefinedAssumption DEF Typed
    <3> QED
      BY <2>1, <2>4, <2>5, <3>1 DEF Kept
  <2>8. /\ items'[i] = new /\ new # Undefined
        /\ \A j \in Items : j # i => items'[j] = items[j]
        /\ \A j \in Items : j # i => ItemIsSound(j)'
        /\ \A r \in RequestIds : RequestIsSound(r)'
    <3>1. compromised' = "no" /\ \A j \in Items : j # i => final'[j] = final[j] /\ latest'[j] = latest[j]
      BY <2>1, <2>2, <2>6
    <3> QED
      BY <2>1, <2>2, <2>4, <2>5, <2>7, <3>1, ItemIsReplaced
  <2>9. TurnOf[i] \in Turns
    BY V2WireAssumption
  <2>10. PICK d : d = Event("item_completed", TurnOf[i], i, Undefined, outcome)
    OBVIOUS
  <2>11. /\ d \in WireEvents /\ d.type = "item_completed" /\ d.turn = TurnOf[i] /\ d.item = i
         /\ d.request = Undefined /\ d.seq = sequenceByTurn[TurnOf[i]] + 1
    <3>1. sequenceByTurn[TurnOf[i]] \in Nat
      BY <2>9, InvParts DEF Typed, TypeOK
    <3> QED
      BY <2>9, <2>10, <3>1 DEF Event, WireEvents, EventTypes
  <2>12. /\ events' = Append(events, d)
         /\ SessionIsSound' /\ \A s \in Turns : TurnIsSound(s)'
         /\ events' \in Seq(WireEvents) /\ sequenceByTurn' \in [Turns -> Nat]
    <3>1. /\ events' = Append(events, d)
          /\ sequenceByTurn' = [sequenceByTurn EXCEPT ![TurnOf[i]] = @ + 1]
      BY <2>1, <2>10 DEF Emit
    <3>2. ~IsDisconnect(d)
      BY <2>11 DEF IsDisconnect
    <3> QED
      BY <2>1, <2>2, <2>9, <2>11, <3>1, <3>2, EventIsEmitted
  <2>13. EventIsSound(d)'
    BY <2>8, <2>9, <2>11 DEF EventIsSound, IsDisconnect
  <2>14. \A k \in 1..Len(events') : EventIsSound(events[k])'
    BY <2>7, <2>11, <2>12, <2>13, InvParts, EventsAreKept
  <2>15. ItemIsSound(i)'
    <3>1. /\ IsFiniteSet(old.seen)
          /\ old.bound = TRUE => old.raw[1] = old.changeSet.content
          /\ old.bound = FALSE => old.raw[1] = Empty
          /\ old.bound = TRUE => latest[i] = old.changeSet.content
          /\ old.request # Undefined =>
               /\ old.bound = TRUE /\ approvals[old.request] # Undefined
               /\ approvals[old.request].kind = "file_change" /\ approvals[old.request].item = i
          /\ accepted[i] # Undefined => old.request # Undefined /\ accepted[i] = old.changeSet
      BY <2>2, <2>3, InvParts DEF ItemIsSound
    <3> HIDE DEF old
    <3>2. approvals' = approvals /\ accepted' = accepted /\ latest' = latest
      BY <2>1
    <3> QED
      BY <2>3, <2>5, <2>6, <2>8, <3>1, <3>2 DEF ItemIsSound
  <2>16. ChangeIsKnown(i)' /\ EndIsKnown(i)'
    <3>1. ~IsUpdate(d, i) /\ IsCompletion(d, i)
      BY <2>11 DEF IsUpdate, IsCompletion
    <3> QED
      BY <2>1, <2>3, <2>5, <2>8, <2>11, <2>12, <3>1, InvParts, ChangeStaysKnown
  <2>17. RequestFollowsChange(i)'
    <3>1. /\ Len(events) \in Nat /\ Len(events') = Len(events) + 1
          /\ \A k \in 1..Len(events) : events'[k] = events[k]
          /\ events'[Len(events) + 1] = d
      BY <2>11, <2>12, InvParts, EventAppended DEF Typed
    <3>2. \A k \in 1..Len(events') :
            events'[k] = d \/ (k \in 1..Len(events) /\ events'[k] = events[k])
      BY <3>1
    <3>3. RequestFollowsChange(i)
      BY InvParts
    <3> QED
      BY <2>1, <2>3, <2>5, <2>8, <2>11, <3>2, <3>3 DEF RequestFollowsChange, IsUpdate, IsAbout
  <2>18. \A j \in Items : j # i => ChangeIsKnown(j)' /\ EndIsKnown(j)' /\ RequestFollowsChange(j)'
    BY <2>1, <2>8, <2>11, <2>12, InvParts, ItemKeepsEvents DEF IsUpdate
  <2>19. \A r \in RequestIds : ResolutionIsKnown(r)' /\ EndFollowsRequest(r)'
    BY <2>1, <2>11, <2>12, InvParts, RequestKeepsEvents DEF IsRequest
  <2>20. \A h \in Threads : QuietIsSound(h)'
    BY <2>1, <2>5, <2>8, InvParts DEF QuietIsSound
  <2>21. Typed'
    <3>1. quiet' \subseteq Threads /\ approvals' \in [RequestIds -> ApprovalBinding \cup {Undefined}]
          /\ latest' \in [Items -> Contents \cup {Empty, Undefined}]
      BY <2>1, InvParts DEF Typed
    <3> QED
      BY <2>1, <2>3, <2>4, <2>5, <2>6, <2>12, <3>1, TypedAfterItem
  <2>22. \A j \in Items : /\ ItemIsSound(j)' /\ ChangeIsKnown(j)' /\ EndIsKnown(j)'
                          /\ RequestFollowsChange(j)'
    BY <2>8, <2>15, <2>16, <2>17, <2>18
  <2> QED
    BY <2>8, <2>12, <2>14, <2>19, <2>20, <2>21, <2>22, Zenon DEF WireInv
<1> QED
  BY <1>1, <1>2

-----------------------------------------------------------------------------
(* The life of a request.                                                  *)

\* Nothing was said of an id that is bound to nothing.
LEMMA RequestIsUnknown ==
  ASSUME WireInv, NEW r \in RequestIds, approvals[r] = Undefined
  PROVE  /\ answers[r] = <<>> /\ view.request[r] = Undefined
         /\ \A k \in 1..Len(events) : ~IsRequest(events[k], r) /\ ~IsEnd(events[k], r)
<1>1. answers[r] = <<>> /\ view.request[r] = Undefined
  BY InvParts DEF RequestIsSound
<1>2. ASSUME NEW k \in 1..Len(events) PROVE ~IsRequest(events[k], r) /\ ~IsEnd(events[k], r)
  BY InvParts DEF EventIsSound, IsRequest, IsEnd
<1> QED
  BY <1>1, <1>2

\* An id is bound to a new request, and the event that says so comes last.
LEMMA RequestIsBound ==
  ASSUME WireInv, Kept, NEW r \in RequestIds, approvals[r] = Undefined,
         NEW new \in ApprovalBinding, new.resolved = FALSE,
         approvals' = [approvals EXCEPT ![r] = new], answers' = answers, view' = view,
         NEW e \in WireEvents, IsRequest(e, r), events' = Append(events, e)
  PROVE  /\ approvals' \in [RequestIds -> ApprovalBinding \cup {Undefined}]
         /\ approvals'[r] = new /\ new # Undefined
         /\ \A q \in RequestIds : q # r => approvals'[q] = approvals[q]
         /\ \A q \in RequestIds : q # r => RequestIsSound(q)'
         /\ \A q \in RequestIds : ResolutionIsKnown(q)' /\ EndFollowsRequest(q)'
<1>1. approvals \in [RequestIds -> ApprovalBinding \cup {Undefined}]
  BY InvParts DEF Typed
<1>2. /\ approvals' \in [RequestIds -> ApprovalBinding \cup {Undefined}]
      /\ approvals'[r] = new /\ \A q \in RequestIds : q # r => approvals'[q] = approvals[q]
  BY <1>1
<1>3. new # Undefined
  BY UndefinedAssumption
<1>4. \A q \in RequestIds : q # r => RequestIsSound(q)'
  BY <1>2, InvParts, RequestIsKept
<1>5. \A q \in RequestIds : q # r => ResolutionIsKnown(q)' /\ EndFollowsRequest(q)'
  <2> SUFFICES ASSUME NEW q \in RequestIds, q # r
               PROVE  ResolutionIsKnown(q)' /\ EndFollowsRequest(q)'
    OBVIOUS
  <2>1. ~IsRequest(e, q)
    BY DEF IsRequest
  <2> QED
    BY <1>2, <2>1, InvParts, RequestKeepsEvents
<1>6. /\ Len(events) \in Nat /\ Len(events') = Len(events) + 1
      /\ \A k \in 1..Len(events) : events'[k] = events[k]
      /\ events'[Len(events) + 1] = e
  BY InvParts, EventAppended DEF Typed
<1>7. /\ view.request[r] = Undefined
      /\ \A k \in 1..Len(events) : ~IsEnd(events[k], r)
  BY RequestIsUnknown
<1>8. ~IsEnd(e, r)
  BY DEF IsRequest, IsEnd
<1>9. \A k \in 1..Len(events') : ~IsEnd(events'[k], r)
  BY <1>6, <1>7, <1>8
<1>10. ResolutionIsKnown(r)'
  BY <1>2 DEF ResolutionIsKnown
<1>11. Undefined \notin Resolutions
  BY UndefinedAssumption DEF Resolutions, Decisions
<1>12. EndFollowsRequest(r)'
  BY <1>7, <1>9, <1>11 DEF EndFollowsRequest, IsEnd
<1> QED
  BY <1>2, <1>3, <1>4, <1>5, <1>10, <1>12

\* The types after a request is bound or resolved.
LEMMA TypedAfterRequest ==
  ASSUME WireInv, items' \in [Items -> TrackedItem \cup {Undefined}],
         \A j \in Items : items'[j] = Undefined \/ Cardinality(items'[j].seen) <= MaxTrackedSnapshots,
         approvals' \in [RequestIds -> ApprovalBinding \cup {Undefined}],
         events' \in Seq(WireEvents), sequenceByTurn' \in [Turns -> Nat], quiet' \subseteq Threads,
         UNCHANGED <<sessionState, compromised, disconnectEvent, passthroughResolutions>>,
         UNCHANGED <<ingestFailed, sending, view, answers, accepted, latest, final>>
  PROVE  Typed'
<1>1. \A j \in Items : items'[j] = Undefined \/ /\ items'[j] \in TrackedItem
                                                /\ Cardinality(items'[j].seen) <= MaxTrackedSnapshots
  OBVIOUS
<1>2. \A r \in RequestIds : approvals'[r] = Undefined \/ approvals'[r] \in ApprovalBinding
  OBVIOUS
<1> HIDE DEF RequestIds
<1> QED
  BY <1>1, <1>2, InvParts DEF Typed, TypeOK

\* The item that a request is about has no later change.
LEMMA RequestComesLast ==
  ASSUME WireInv, NEW i \in Items, NEW r \in RequestIds, approvals[r] = Undefined, view' = view,
         NEW e \in WireEvents, IsRequest(e, r), events' = Append(events, e),
         items'[i] # Undefined, items'[i].request = r
  PROVE  RequestFollowsChange(i)'
<1>1. /\ Len(events) \in Nat /\ Len(events') = Len(events) + 1
      /\ \A k \in 1..Len(events) : events'[k] = events[k]
      /\ events'[Len(events) + 1] = e
  BY InvParts, EventAppended DEF Typed
<1>2. /\ view.request[r] = Undefined
      /\ \A k \in 1..Len(events) : ~IsAbout(events[k], r)
  BY RequestIsUnknown DEF IsAbout, IsRequest, IsEnd
<1>3. ~IsUpdate(e, i)
  BY DEF IsUpdate, IsRequest
<1>4. ASSUME NEW n \in 1..Len(events'), NEW k \in 1..Len(events'),
             IsUpdate(events'[n], i), IsAbout(events'[k], r)
      PROVE  n < k
  <2>1. n \in 1..Len(events)
    BY <1>1, <1>3, <1>4
  <2>2. k = Len(events) + 1
    BY <1>1, <1>2, <1>4
  <2> QED
    BY <1>1, <2>1, <2>2
<1> QED
  BY <1>2, <1>4 DEF RequestFollowsChange, IsUpdate, IsAbout

LEMMA FileApprovalKeeps ==
  ASSUME WireInv, NEW w \in WireIds, NEW i \in Items, FileApproval(w, i)
  PROVE  WireInv'
<1>1. CASE Blocked
  BY <1>1, MessageIsRefused, LatestType DEF FileApproval
<1>2. CASE ~Blocked
  <2>0. PICK r \in RequestIds : r = CanonicalId[w]
    BY DEF RequestIds
  <2> DEFINE old == items[i]
             new == [old EXCEPT !.request = r]
             binding == [kind |-> "file_change", wireRequestId |-> w, turn |-> TurnOf[i],
                         item |-> i, offer |-> Undefined, requested |-> {},
                         sentDecision |-> Undefined, resolved |-> FALSE]
  <2>1. /\ Arrives /\ Trusted /\ PatchIsOpen(i) /\ items[i].bound /\ approvals[r] = Undefined
        /\ items' = [items EXCEPT ![i].request = r]
        /\ approvals' = [approvals EXCEPT ![r] = binding]
        /\ Emit(TurnOf[i], "approval_requested", i, r, Undefined)
        /\ quiet' = quiet \ {ThreadOf[TurnOf[i]]}
        /\ UNCHANGED <<sessionState, compromised, disconnectEvent, passthroughResolutions>>
        /\ UNCHANGED <<ingestFailed, sending, view, answers, accepted, latest, final>>
    BY <1>2, <2>0 DEF FileApproval, IdIsFree, adapterVars
  <2>2. disconnectEvent = FALSE /\ compromised = "no"
    BY <2>1, TrustedIsOpen
  <2>3. /\ old # Undefined /\ old \in TrackedItem /\ old.request = Undefined
        /\ old.completed = FALSE /\ old.bound = TRUE
        /\ Cardinality(old.seen) <= MaxTrackedSnapshots
    BY <2>1, InvParts DEF PatchIsOpen, Typed, TypeOK, TrackedItem
  <2>4. items' = [items EXCEPT ![i] = new]
    BY <2>1, InvParts DEF Typed
  <2>5. /\ new \in TrackedItem
        /\ new.changeSet = old.changeSet /\ new.raw = old.raw /\ new.seen = old.seen
        /\ new.bound = old.bound /\ new.request = r /\ new.completed = old.completed
    <3> HIDE DEF old
    <3> QED
      BY <2>3 DEF TrackedItem
  <2> HIDE DEF new
  <2>6. TurnOf[i] \in Turns /\ r # Undefined
    BY V2WireAssumption, UndefinedAssumption
  <2>7. /\ binding \in ApprovalBinding /\ binding.kind = "file_change" /\ binding.item = i
        /\ binding.sentDecision = Undefined /\ binding.resolved = FALSE /\ binding.turn = TurnOf[i]
    BY <2>6 DEF ApprovalBinding, Kinds
  <2> HIDE DEF binding
  <2>8. /\ items' \in [Items -> TrackedItem \cup {Undefined}] /\ items'[i] = new /\ new # Undefined
        /\ \A j \in Items : j # i => items'[j] = items[j]
    BY <2>4, <2>5, InvParts, UndefinedAssumption DEF Typed
  <2>9. Kept
    <3>1. \A q \in RequestIds : q # r => approvals'[q] = approvals[q]
      BY <2>1, InvParts DEF Typed
    <3> QED
      BY <2>1, <2>3, <2>8, <3>1 DEF Kept
  <2>10. PICK d : d = Event("approval_requested", TurnOf[i], i, r, Undefined)
    OBVIOUS
  <2>11. /\ d \in WireEvents /\ d.type = "approval_requested" /\ d.turn = TurnOf[i] /\ d.item = i
         /\ d.request = r /\ d.seq = sequenceByTurn[TurnOf[i]] + 1
    <3>1. sequenceByTurn[TurnOf[i]] \in Nat
      BY <2>6, InvParts DEF Typed, TypeOK
    <3> QED
      BY <2>6, <2>10, <3>1 DEF Event, WireEvents, EventTypes
  <2>12. /\ ~IsDisconnect(d) /\ IsRequest(d, r) /\ ~IsUpdate(d, i)
         /\ \A j \in Items : ~IsUpdate(d, j)
    BY <2>11 DEF IsDisconnect, IsRequest, IsUpdate
  <2>13. /\ events' = Append(events, d)
         /\ SessionIsSound' /\ \A s \in Turns : TurnIsSound(s)'
         /\ events' \in Seq(WireEvents) /\ sequenceByTurn' \in [Turns -> Nat]
    <3>1. /\ events' = Append(events, d)
          /\ sequenceByTurn' = [sequenceByTurn EXCEPT ![TurnOf[i]] = @ + 1]
      BY <2>1, <2>10 DEF Emit
    <3> QED
      BY <2>1, <2>2, <2>6, <2>11, <2>12, <3>1, EventIsEmitted
  <2>14. /\ approvals' \in [RequestIds -> ApprovalBinding \cup {Undefined}]
         /\ approvals'[r] = binding /\ binding # Undefined
         /\ \A q \in RequestIds : q # r => approvals'[q] = approvals[q]
         /\ \A q \in RequestIds : q # r => RequestIsSound(q)'
         /\ \A q \in RequestIds : ResolutionIsKnown(q)' /\ EndFollowsRequest(q)'
    BY <2>1, <2>7, <2>9, <2>11, <2>12, <2>13, RequestIsBound
  <2>15. EventIsSound(d)'
    BY <2>6, <2>11, <2>14 DEF EventIsSound, IsDisconnect
  <2>16. \A k \in 1..Len(events') : EventIsSound(events[k])'
    BY <2>9, <2>11, <2>13, <2>15, InvParts, EventsAreKept
  <2>17. RequestIsSound(r)'
    <3>1. answers[r] = <<>> /\ view.request[r] = Undefined
      BY <2>1, RequestIsUnknown
    <3>2. Undefined \notin Resolutions
      BY UndefinedAssumption DEF Resolutions, Decisions
    <3> QED
      BY <2>1, <2>5, <2>7, <2>8, <2>14, <3>1, <3>2 DEF RequestIsSound
  <2>18. ItemIsSound(i)'
    <3>1. /\ IsFiniteSet(old.seen) /\ old.raw[1] = old.changeSet.content
          /\ latest[i] = old.changeSet.content /\ accepted[i] = Undefined /\ final[i] = Undefined
      BY <2>2, <2>3, InvParts DEF ItemIsSound
    <3> HIDE DEF old
    <3>2. accepted' = accepted /\ latest' = latest /\ final' = final
      BY <2>1
    <3> QED
      BY <2>3, <2>5, <2>7, <2>8, <2>14, <3>1, <3>2 DEF ItemIsSound
  <2>19. \A j \in Items : j # i => ItemIsSound(j)'
    BY <2>1, <2>8, <2>9, InvParts, ItemIsKept
  <2>20. ChangeIsKnown(i)' /\ EndIsKnown(i)'
    BY <2>1, <2>3, <2>5, <2>8, <2>11, <2>12, <2>13, InvParts, ChangeStaysKnown
  <2>21. RequestFollowsChange(i)'
    BY <2>1, <2>5, <2>8, <2>11, <2>12, <2>13, RequestComesLast
  <2>22. \A j \in Items : j # i => ChangeIsKnown(j)' /\ EndIsKnown(j)' /\ RequestFollowsChange(j)'
    BY <2>1, <2>8, <2>11, <2>12, <2>13, InvParts, ItemKeepsEvents
  <2>23. \A h \in Threads : QuietIsSound(h)'
    <3> SUFFICES ASSUME NEW h \in Threads, h \in quiet', h # ThreadOf[TurnOf[i]], QuietIsSound(h)
                 PROVE  QuietIsSound(h)'
      BY <2>1, InvParts DEF QuietIsSound
    <3>1. h \in quiet
      BY <2>1
    <3> QED
      BY <2>7, <2>8, <2>14, <3>1 DEF QuietIsSound
  <2>24. Typed'
    <3>1. quiet' \subseteq Threads
      BY <2>1, InvParts DEF Typed
    <3>2. \A j \in Items : items'[j] = Undefined \/ Cardinality(items'[j].seen) <= MaxTrackedSnapshots
      BY <2>3, <2>5, <2>8, InvParts DEF Typed, TypeOK
    <3> QED
      BY <2>1, <2>8, <2>13, <2>14, <3>1, <3>2, TypedAfterRequest
  <2>25. \A j \in Items : /\ ItemIsSound(j)' /\ ChangeIsKnown(j)' /\ EndIsKnown(j)'
                          /\ RequestFollowsChange(j)'
    BY <2>18, <2>19, <2>20, <2>21, <2>22
  <2>26. \A q \in RequestIds : RequestIsSound(q)' /\ ResolutionIsKnown(q)' /\ EndFollowsRequest(q)'
    BY <2>14, <2>17
  <2> QED
    BY <2>13, <2>16, <2>23, <2>24, <2>25, <2>26, Zenon DEF WireInv
<1> QED
  BY <1>1, <1>2

LEMMA ManualApprovalKeeps ==
  ASSUME WireInv, NEW w \in WireIds, NEW t \in Turns, NEW kind \in {"command", "permission"},
         NEW offer \in Offers \cup {Undefined}, NEW requested \in SUBSET Entries,
         ManualApproval(w, t, kind, offer, requested)
  PROVE  WireInv'
<1>1. CASE Blocked
  BY <1>1, MessageIsRefused, LatestType DEF ManualApproval
<1>2. CASE ~Blocked
  <2>0. PICK r \in RequestIds : r = CanonicalId[w]
    BY DEF RequestIds
  <2> DEFINE binding == [kind |-> kind, wireRequestId |-> w, turn |-> t,
                         item |-> Undefined, offer |-> offer, requested |-> requested,
                         sentDecision |-> Undefined, resolved |-> FALSE]
  <2>1. /\ Arrives /\ Trusted /\ approvals[r] = Undefined
        /\ approvals' = [approvals EXCEPT ![r] = binding]
        /\ Emit(t, "approval_requested", Undefined, r, Undefined)
        /\ quiet' = quiet \ {ThreadOf[t]}
        /\ UNCHANGED <<sessionState, compromised, disconnectEvent, passthroughResolutions>>
        /\ UNCHANGED <<ingestFailed, sending, view, answers, accepted, latest, final>>
        /\ items' = items
    BY <1>2, <2>0 DEF ManualApproval, IdIsFree, adapterVars
  <2>2. disconnectEvent = FALSE /\ compromised = "no"
    BY <2>1, TrustedIsOpen
  <2>7. /\ binding \in ApprovalBinding /\ binding.kind # "file_change"
        /\ binding.sentDecision = Undefined /\ binding.resolved = FALSE /\ binding.turn = t
    BY DEF ApprovalBinding, Kinds
  <2> HIDE DEF binding
  <2>9. Kept
    <3>1. \A q \in RequestIds : q # r => approvals'[q] = approvals[q]
      BY <2>1, InvParts DEF Typed
    <3> QED
      BY <2>1, <3>1 DEF Kept
  <2>10. PICK d : d = Event("approval_requested", t, Undefined, r, Undefined)
    OBVIOUS
  <2>11. /\ d \in WireEvents /\ d.type = "approval_requested" /\ d.turn = t
         /\ d.request = r /\ d.seq = sequenceByTurn[t] + 1
    <3>1. sequenceByTurn[t] \in Nat
      BY InvParts DEF Typed, TypeOK
    <3> QED
      BY <2>10, <3>1 DEF Event, WireEvents, EventTypes
  <2>12. /\ ~IsDisconnect(d) /\ IsRequest(d, r)
         /\ \A j \in Items : ~IsUpdate(d, j)
    BY <2>11 DEF IsDisconnect, IsRequest, IsUpdate
  <2>13. /\ events' = Append(events, d)
         /\ SessionIsSound' /\ \A s \in Turns : TurnIsSound(s)'
         /\ events' \in Seq(WireEvents) /\ sequenceByTurn' \in [Turns -> Nat]
    <3>1. /\ events' = Append(events, d)
          /\ sequenceByTurn' = [sequenceByTurn EXCEPT ![t] = @ + 1]
      BY <2>1, <2>10 DEF Emit
    <3> QED
      BY <2>1, <2>2, <2>11, <2>12, <3>1, EventIsEmitted
  <2>14. /\ approvals' \in [RequestIds -> ApprovalBinding \cup {Undefined}]
         /\ approvals'[r] = binding /\ binding # Undefined
         /\ \A q \in RequestIds : q # r => approvals'[q] = approvals[q]
         /\ \A q \in RequestIds : q # r => RequestIsSound(q)'
         /\ \A q \in RequestIds : ResolutionIsKnown(q)' /\ EndFollowsRequest(q)'
    BY <2>1, <2>7, <2>9, <2>11, <2>12, <2>13, RequestIsBound
  <2>15. EventIsSound(d)'
    BY <2>11, <2>14 DEF EventIsSound, IsDisconnect
  <2>16. \A k \in 1..Len(events') : EventIsSound(events[k])'
    BY <2>9, <2>11, <2>13, <2>15, InvParts, EventsAreKept
  <2>17. RequestIsSound(r)'
    <3>1. answers[r] = <<>> /\ view.request[r] = Undefined
      BY <2>1, RequestIsUnknown
    <3>2. Undefined \notin Resolutions
      BY UndefinedAssumption DEF Resolutions, Decisions
    <3> QED
      BY <2>1, <2>7, <2>14, <3>1, <3>2 DEF RequestIsSound
  <2>19. \A j \in Items : ItemIsSound(j)'
    BY <2>1, <2>9, InvParts, ItemIsKept
  <2>22. \A j \in Items : ChangeIsKnown(j)' /\ EndIsKnown(j)' /\ RequestFollowsChange(j)'
    BY <2>1, <2>11, <2>12, <2>13, InvParts, ItemKeepsEvents
  <2>23. \A h \in Threads : QuietIsSound(h)'
    <3> SUFFICES ASSUME NEW h \in Threads, h \in quiet', h # ThreadOf[t], QuietIsSound(h)
                 PROVE  QuietIsSound(h)'
      BY <2>1, InvParts DEF QuietIsSound
    <3>1. h \in quiet
      BY <2>1
    <3> QED
      BY <2>1, <2>7, <2>14, <3>1 DEF QuietIsSound
  <2>24. Typed'
    <3>1. quiet' \subseteq Threads /\ items' \in [Items -> TrackedItem \cup {Undefined}]
      BY <2>1, InvParts DEF Typed
    <3>2. \A j \in Items : items'[j] = Undefined \/ Cardinality(items'[j].seen) <= MaxTrackedSnapshots
      BY <2>1, InvParts DEF Typed, TypeOK
    <3> QED
      BY <2>1, <2>13, <2>14, <3>1, <3>2, TypedAfterRequest
  <2>25. \A j \in Items : /\ ItemIsSound(j)' /\ ChangeIsKnown(j)' /\ EndIsKnown(j)'
                          /\ RequestFollowsChange(j)'
    BY <2>19, <2>22
  <2>26. \A q \in RequestIds : RequestIsSound(q)' /\ ResolutionIsKnown(q)' /\ EndFollowsRequest(q)'
    BY <2>14, <2>17
  <2> QED
    BY <2>13, <2>16, <2>23, <2>24, <2>25, <2>26, Zenon DEF WireInv
<1> QED
  BY <1>1, <1>2

LEMMA RequestResolvedKeeps ==
  ASSUME WireInv, NEW w \in WireIds, NEW h \in Threads, RequestResolved(w, h)
  PROVE  WireInv'
<1>0. PICK r \in RequestIds : r = CanonicalId[w]
  BY DEF RequestIds
<1>1. CASE Blocked
  BY <1>1, MessageIsRefused, LatestType DEF RequestResolved
<1>2. CASE ~Blocked /\ passthroughResolutions[r] # Undefined
  <2>1. /\ UNCHANGED <<sequenceByTurn, items, approvals, events, view>>
        /\ UNCHANGED <<disconnectEvent, answers, latest, accepted, final, quiet>>
        /\ UNCHANGED <<compromised, ingestFailed, sending, sessionState>>
        /\ passthroughResolutions' = [passthroughResolutions EXCEPT ![r] = Undefined]
    BY <1>0, <1>2 DEF RequestResolved, adapterVars
  <2>2. passthroughResolutions' \in [RequestIds -> Threads \cup {Undefined}]
    BY <2>1, InvParts DEF Typed
  <2>3. Typed'
    BY <2>1, <2>2, InvParts DEF Typed, TypeOK
  <2> QED
    BY <2>1, <2>3, NothingChanges
<1>3. CASE ~Blocked /\ passthroughResolutions[r] = Undefined
  <2> DEFINE old == approvals[r]
             new == [old EXCEPT !.resolved = TRUE]
  <2>1. /\ Arrives /\ Trusted /\ approvals[r] # Undefined /\ ~approvals[r].resolved
        /\ approvals' = [approvals EXCEPT ![r].resolved = TRUE]
        /\ Emit(approvals[r].turn, "request_resolved", approvals[r].item, r,
                Resolution(approvals[r]))
        /\ UNCHANGED <<sessionState, compromised, disconnectEvent, passthroughResolutions>>
        /\ UNCHANGED <<ingestFailed, sending, view, answers, accepted, latest, final>>
        /\ UNCHANGED <<items, quiet>>
    BY <1>0, <1>3 DEF RequestResolved, adapterVars
  <2>2. disconnectEvent = FALSE /\ compromised = "no"
    BY <2>1, TrustedIsOpen
  <2>3. old # Undefined /\ old \in ApprovalBinding /\ old.resolved = FALSE
    BY <2>1, InvParts DEF Typed, ApprovalBinding
  <2>4. approvals' = [approvals EXCEPT ![r] = new]
    BY <2>1, InvParts DEF Typed
  <2>5. /\ new \in ApprovalBinding
        /\ new.kind = old.kind /\ new.wireRequestId = old.wireRequestId /\ new.turn = old.turn
        /\ new.item = old.item /\ new.offer = old.offer /\ new.requested = old.requested
        /\ new.sentDecision = old.sentDecision /\ new.resolved = TRUE
    <3> HIDE DEF old
    <3> QED
      BY <2>3 DEF ApprovalBinding
  <2> HIDE DEF new
  <2>6. /\ approvals' \in [RequestIds -> ApprovalBinding \cup {Undefined}]
        /\ approvals'[r] = new /\ new # Undefined
        /\ \A q \in RequestIds : q # r => approvals'[q] = approvals[q]
    BY <2>4, <2>5, InvParts, UndefinedAssumption DEF Typed
  <2>7. Kept
    BY <2>1, <2>3, <2>5, <2>6 DEF Kept
  <2>8. PICK t, x, z : t = old.turn /\ x = old.item /\ z = Resolution(old)
    OBVIOUS
  <2>9. /\ t \in Turns /\ x \in Items \cup {Undefined} /\ z \in Resolutions
        /\ z = Resolution(new)
    <3> HIDE DEF old
    <3> QED
      BY <2>3, <2>5, <2>8 DEF ApprovalBinding, Resolution, Resolutions, Decisions
  <2>10. PICK d : d = Event("request_resolved", t, x, r, z)
    OBVIOUS
  <2>11. /\ d \in WireEvents /\ d.type = "request_resolved" /\ d.turn = t
         /\ d.request = r /\ d.data = z /\ d.seq = sequenceByTurn[t] + 1
    <3>1. sequenceByTurn[t] \in Nat
      BY <2>9, InvParts DEF Typed, TypeOK
    <3> QED
      BY <2>9, <2>10, <3>1 DEF Event, WireEvents, EventTypes
  <2>12. /\ ~IsDisconnect(d) /\ IsEnd(d, r)
         /\ \A j \in Items : ~IsUpdate(d, j)
         /\ \A q \in RequestIds : ~IsRequest(d, q)
    BY <2>11 DEF IsDisconnect, IsRequest, IsUpdate, IsEnd
  <2>13. /\ events' = Append(events, d)
         /\ SessionIsSound' /\ \A s \in Turns : TurnIsSound(s)'
         /\ events' \in Seq(WireEvents) /\ sequenceByTurn' \in [Turns -> Nat]
    <3>1. /\ events' = Append(events, d)
          /\ sequenceByTurn' = [sequenceByTurn EXCEPT ![t] = @ + 1]
      BY <2>1, <2>8, <2>10 DEF Emit
    <3> QED
      BY <2>1, <2>2, <2>9, <2>11, <2>12, <3>1, EventIsEmitted
  <2>14. EventIsSound(d)'
    BY <2>5, <2>6, <2>9, <2>11 DEF EventIsSound, IsDisconnect, Resolution
  <2>15. \A k \in 1..Len(events') : EventIsSound(events[k])'
    BY <2>7, <2>11, <2>13, <2>14, InvParts, EventsAreKept
  <2>16. \A q \in RequestIds : ResolutionIsKnown(q)' /\ EndFollowsRequest(q)'
    BY <2>1, <2>6, <2>11, <2>12, <2>13, InvParts, RequestKeepsEvents
  <2>17. RequestIsSound(r)'
    <3>1. /\ old.kind = "file_change" =>
               /\ old.item \in Items /\ items[old.item] # Undefined /\ items[old.item].request = r
          /\ old.sentDecision = Undefined => answers[r] = <<>>
          /\ old.sentDecision # Undefined => Len(answers[r]) = 1 /\ AnswerIsSound(old, answers[r][1])
          /\ view.request[r] \notin Resolutions
      BY <2>3, InvParts DEF RequestIsSound
    <3>2. PICK a, b : a = answers[r][1] /\ b = new
      OBVIOUS
    <3> HIDE DEF old
    <3>3. old.sentDecision # Undefined => AnswerIsSound(b, a)'
      BY <2>5, <3>1, <3>2 DEF AnswerIsSound
    <3>4. answers' = answers /\ view' = view /\ items' = items
      BY <2>1
    <3>5. new.sentDecision # Undefined => AnswerIsSound(approvals[r], answers[r][1])'
      BY <2>5, <2>6, <3>2, <3>3, <3>4
    <3> QED
      BY <2>5, <2>6, <3>1, <3>4, <3>5 DEF RequestIsSound
  <2>18. \A q \in RequestIds : q # r => RequestIsSound(q)'
    BY <2>1, <2>6, <2>7, InvParts, RequestIsKept
  <2>19. \A j \in Items : ItemIsSound(j)'
    BY <2>1, <2>7, InvParts, ItemIsKept
  <2>20. \A j \in Items : ChangeIsKnown(j)' /\ EndIsKnown(j)' /\ RequestFollowsChange(j)'
    BY <2>1, <2>11, <2>12, <2>13, InvParts, ItemKeepsEvents
  <2>21. \A g \in Threads : QuietIsSound(g)'
    BY <2>1, <2>3, <2>5, <2>6, InvParts DEF QuietIsSound
  <2>22. Typed'
    <3>1. quiet' \subseteq Threads /\ items' \in [Items -> TrackedItem \cup {Undefined}]
      BY <2>1, InvParts DEF Typed
    <3>2. \A j \in Items : items'[j] = Undefined \/ Cardinality(items'[j].seen) <= MaxTrackedSnapshots
      BY <2>1, InvParts DEF Typed, TypeOK
    <3> QED
      BY <2>1, <2>6, <2>13, <3>1, <3>2, TypedAfterRequest
  <2>23. \A j \in Items : /\ ItemIsSound(j)' /\ ChangeIsKnown(j)' /\ EndIsKnown(j)'
                          /\ RequestFollowsChange(j)'
    BY <2>19, <2>20
  <2>24. \A q \in RequestIds : RequestIsSound(q)' /\ ResolutionIsKnown(q)' /\ EndFollowsRequest(q)'
    BY <2>16, <2>17, <2>18
  <2> QED
    BY <2>13, <2>15, <2>21, <2>22, <2>23, <2>24, Zenon DEF WireInv
<1> QED
  BY <1>1, <1>2, <1>3

-----------------------------------------------------------------------------
(* Answers.                                                                *)

LEMMA NothingIsGranted ==
  ASSUME NEW requested
  PROVE  Effective({}) \subseteq Effective(requested)
BY DEF Effective

\* isPermissionGrantSubset: a grant that passes it lets a process do nothing
\* that the requested profile does not, whichever entries it leaves out.
THEOREM GrantIsWithinRequest ==
  ASSUME NEW requested, NEW granted, IsPermissionGrantSubset(requested, granted)
  PROVE  Effective(granted) \subseteq Effective(requested)
<1>1. CASE granted = {}
  BY <1>1, NothingIsGranted
<1>2. CASE granted # {}
  <2>1. "write" \in granted => "write" \in requested
    BY <1>2 DEF IsPermissionGrantSubset
  <2>2. "read_below" \in granted => "read_below" \in requested
    BY <1>2 DEF IsPermissionGrantSubset
  <2>3. "deny_below" \in requested => "deny_below" \in granted
    BY <1>2 DEF IsPermissionGrantSubset
  <2>4. "write" \in granted /\ "read_below" \in requested => "read_below" \in granted
    BY <1>2 DEF IsPermissionGrantSubset
  <2> QED
    BY <2>1, <2>2, <2>3, <2>4 DEF Effective
<1> QED
  BY <1>1, <1>2

\* A result that does what was decided, within what the request offered.
ResultFits(b, decision, result) ==
  /\ result \in CommandDecisions \cup SUBSET Entries
  /\ b.kind = "file_change" => result = decision
  /\ b.kind = "command" =>
       Disposition(result) = decision /\ (b.offer # Undefined => result \in b.offer)
  /\ b.kind = "permission" =>
       /\ Effective(result) \subseteq Effective(b.requested)
       /\ decision = "decline" => result = {}

\* encodeApprovalResponse: an answer that fits is within what was offered.
LEMMA FittingAnswerIsSound ==
  ASSUME NEW b \in ApprovalBinding, NEW decision \in Decisions,
         NEW named \in CommandDecisions \cup {Undefined},
         NEW grant \in (SUBSET Entries) \cup {Undefined}, AnswerFits(b, decision, named, grant)
  PROVE  ResultFits(b, decision, EncodedResult(b, decision, named, grant))
<1> DEFINE result == EncodedResult(b, decision, named, grant)
<1>1. b.kind \in Kinds
  BY DEF ApprovalBinding
<1>2. CASE b.kind = "file_change"
  BY <1>2 DEF ResultFits, EncodedResult, Decisions, CommandDecisions
<1>3. CASE b.kind = "command"
  <2>1. result = CommandDecision(decision, named)
    BY <1>3 DEF EncodedResult
  <2>2. Disposition(result) = decision /\ (b.offer # Undefined => result \in b.offer)
    BY <1>3, <2>1 DEF AnswerFits
  <2>3. result \in CommandDecisions
    BY <2>1 DEF CommandDecision, CommandDecisions, Decisions
  <2> QED
    BY <1>3, <2>2, <2>3 DEF ResultFits
<1>4. CASE b.kind = "permission"
  <2>1. CASE decision = "accept"
    <3>1. result = grant /\ grant # Undefined /\ IsPermissionGrantSubset(b.requested, grant)
      BY <1>4, <2>1 DEF EncodedResult, AnswerFits
    <3>2. Effective(result) \subseteq Effective(b.requested)
      BY <3>1, GrantIsWithinRequest
    <3> QED
      BY <1>4, <2>1, <3>1, <3>2 DEF ResultFits
  <2>2. CASE decision = "decline"
    <3>1. result = {}
      BY <1>4, <2>2 DEF EncodedResult
    <3>2. Effective(result) \subseteq Effective(b.requested)
      BY <3>1, NothingIsGranted
    <3> QED
      BY <1>4, <3>1, <3>2 DEF ResultFits
  <2> QED
    BY <2>1, <2>2 DEF Decisions
<1> QED
  BY <1>1, <1>2, <1>3, <1>4 DEF Kinds

\* The adapter that was told of a file-change request knows the item's change.
LEMMA ToldRequestIsCurrent ==
  ASSUME WireInv, NEW r \in RequestIds, approvals[r] # Undefined,
         approvals[r].kind = "file_change", view.request[r] # Undefined,
         NEW i, i = approvals[r].item
  PROVE  /\ i \in Items /\ items[i] # Undefined /\ items[i].request = r
         /\ view.change[i] = items[i].changeSet
<1>1. i \in Items /\ items[i] # Undefined /\ items[i].request = r
  BY InvParts DEF RequestIsSound
<1>2. r # Undefined
  BY UndefinedAssumption
<1>3. \A n \in 1..Len(events) : ~IsUpdate(events[n], i)
  BY <1>1, <1>2, InvParts DEF RequestFollowsChange
<1>4. view.change[i] = items[i].changeSet
  BY <1>1, <1>3, InvParts DEF ChangeIsKnown
<1> QED
  BY <1>1, <1>4

\* What Send does, with the binding and the answer named.
Answers(r, new, a) ==
  /\ approvals[r] # Undefined /\ approvals[r].resolved = FALSE
  /\ approvals[r].sentDecision = Undefined
  /\ new \in ApprovalBinding /\ new.sentDecision \in Decisions
  /\ new.kind = approvals[r].kind /\ new.turn = approvals[r].turn /\ new.item = approvals[r].item
  /\ new.resolved = FALSE
  /\ a \in WireAnswers /\ AnswerIsSound(new, a)
  /\ approvals' = [approvals EXCEPT ![r] = new]
  /\ answers' = [answers EXCEPT ![r] = Append(@, a)]

LEMMA AnswerIsMade ==
  ASSUME WireInv, NEW r \in RequestIds, NEW decision \in Decisions,
         NEW named \in CommandDecisions \cup {Undefined},
         NEW grant \in (SUBSET Entries) \cup {Undefined}, Send(r, decision, named, grant)
  PROVE  \E new, a : Answers(r, new, a)
<1>0. PICK old, result : /\ old = approvals[r]
                         /\ result = EncodedResult(approvals[r], decision, named, grant)
  OBVIOUS
<1>1. /\ old # Undefined /\ ~old.resolved /\ old.sentDecision = Undefined
      /\ AnswerFits(old, decision, named, grant)
      /\ approvals' = [approvals EXCEPT ![r].sentDecision = decision]
      /\ answers' = [answers EXCEPT ![r] = Append(@,
           [id |-> old.wireRequestId, decision |-> decision, result |-> result])]
  BY <1>0 DEF Send, Answerable
<1>2. old \in ApprovalBinding /\ old.resolved = FALSE
  BY <1>0, <1>1, InvParts DEF Typed, ApprovalBinding
<1>3. PICK made : made = [old EXCEPT !.sentDecision = decision]
  OBVIOUS
<1>4. approvals' = [approvals EXCEPT ![r] = made]
  BY <1>0, <1>1, <1>3, InvParts DEF Typed
<1>5. /\ made \in ApprovalBinding
      /\ made.kind = old.kind /\ made.wireRequestId = old.wireRequestId /\ made.turn = old.turn
      /\ made.item = old.item /\ made.offer = old.offer /\ made.requested = old.requested
      /\ made.sentDecision = decision /\ made.resolved = FALSE
  BY <1>2, <1>3 DEF ApprovalBinding
<1>6. ResultFits(old, decision, result)
  BY <1>0, <1>1, <1>2, FittingAnswerIsSound
<1>7. PICK a : a = [id |-> old.wireRequestId, decision |-> decision, result |-> result]
  OBVIOUS
<1>8. /\ a \in WireAnswers /\ a.id = old.wireRequestId /\ a.decision = decision
      /\ a.result = result
  BY <1>2, <1>6, <1>7 DEF WireAnswers, ApprovalBinding, ResultFits
<1>9. AnswerIsSound(made, a)
  BY <1>5, <1>6, <1>8 DEF AnswerIsSound, ResultFits
<1>10. answers' = [answers EXCEPT ![r] = Append(@, a)]
  BY <1>1, <1>7
<1>11. Answers(r, made, a)
  BY <1>0, <1>1, <1>2, <1>4, <1>5, <1>8, <1>9, <1>10 DEF Answers
<1> QED
  BY <1>11

LEMMA SendKeeps ==
  ASSUME WireInv, NEW r \in RequestIds, NEW decision \in Decisions,
         NEW named \in CommandDecisions \cup {Undefined},
         NEW grant \in (SUBSET Entries) \cup {Undefined}, Send(r, decision, named, grant)
  PROVE  WireInv'
<1>1. PICK new, a : Answers(r, new, a)
  BY AnswerIsMade
<1>2. /\ view.request[r] # Undefined /\ sending' = r
      /\ accepted' = IF approvals[r].kind = "file_change" /\ decision = "accept"
                     THEN [accepted EXCEPT ![approvals[r].item] = view.change[approvals[r].item]]
                     ELSE accepted
      /\ UNCHANGED <<sessionState, compromised, disconnectEvent, sequenceByTurn>>
      /\ UNCHANGED <<items, passthroughResolutions, ingestFailed, view, events>>
      /\ UNCHANGED <<latest, final, quiet>>
  BY DEF Send, observed
<1>3. /\ approvals[r] # Undefined /\ approvals[r].resolved = FALSE
      /\ approvals[r].sentDecision = Undefined
      /\ new \in ApprovalBinding /\ new.sentDecision \in Decisions
      /\ new.kind = approvals[r].kind /\ new.turn = approvals[r].turn
      /\ new.item = approvals[r].item /\ new.resolved = FALSE
      /\ a \in WireAnswers /\ AnswerIsSound(new, a)
      /\ approvals' = [approvals EXCEPT ![r] = new]
      /\ answers' = [answers EXCEPT ![r] = Append(@, a)]
  BY <1>1 DEF Answers
<1>4. /\ approvals' \in [RequestIds -> ApprovalBinding \cup {Undefined}]
      /\ approvals'[r] = new /\ new # Undefined
      /\ \A q \in RequestIds : q # r => approvals'[q] = approvals[q]
  BY <1>3, InvParts, UndefinedAssumption DEF Typed
<1>5. /\ answers' \in [RequestIds -> Seq(WireAnswers)] /\ answers'[r] = <<a>>
      /\ \A q \in RequestIds : q # r => answers'[q] = answers[q]
  <2>1. answers[r] = <<>> /\ answers \in [RequestIds -> Seq(WireAnswers)]
    BY <1>3, InvParts DEF RequestIsSound, Typed
  <2>2. Append(<<>>, a) = <<a>> /\ <<a>> \in Seq(WireAnswers)
    BY <1>3
  <2>3. answers' = [answers EXCEPT ![r] = <<a>>]
    BY <1>3, <2>1, <2>2
  <2> QED
    BY <2>1, <2>2, <2>3
<1>6. Kept
  BY <1>2, <1>3, <1>4 DEF Kept
<1>7. \A i \in Items : \/ accepted'[i] = accepted[i]
                       \/ /\ items[i] # Undefined /\ items[i].request = r
                          /\ accepted'[i] = items[i].changeSet
  <2>1. CASE approvals[r].kind = "file_change" /\ decision = "accept"
    <3>1. PICK x : x = approvals[r].item
      OBVIOUS
    <3>2. /\ x \in Items /\ items[x] # Undefined /\ items[x].request = r
          /\ view.change[x] = items[x].changeSet
      BY <1>2, <1>3, <2>1, <3>1, ToldRequestIsCurrent
    <3>3. accepted' = [accepted EXCEPT ![x] = view.change[x]]
      BY <1>2, <2>1, <3>1
    <3> QED
      BY <3>2, <3>3, InvParts DEF Typed
  <2> QED
    BY <1>2, <2>1
<1>8. accepted' \in [Items -> ChangeSets \cup {Undefined}]
  <2>1. CASE approvals[r].kind = "file_change" /\ decision = "accept"
    <3>1. PICK x : x = approvals[r].item
      OBVIOUS
    <3>2. x \in Items
      BY <1>2, <1>3, <2>1, <3>1, ToldRequestIsCurrent
    <3>3. accepted' = [accepted EXCEPT ![x] = view.change[x]]
      BY <1>2, <2>1, <3>1
    <3> QED
      BY <3>2, <3>3, InvParts DEF Typed
  <2> QED
    BY <1>2, <2>1, InvParts DEF Typed
<1>9. ASSUME NEW i \in Items PROVE ItemIsSound(i)'
  <2>1. CASE accepted'[i] = accepted[i]
    BY <1>2, <1>6, <2>1, InvParts, ItemIsKept
  <2>2. CASE items[i] # Undefined /\ items[i].request = r /\ accepted'[i] = items[i].changeSet
    <3>1. r # Undefined
      BY UndefinedAssumption
    <3>2. ItemIsSound(i)
      BY InvParts
    <3> QED
      BY <1>2, <1>3, <1>4, <2>2, <3>1, <3>2 DEF ItemIsSound
  <2> QED
    BY <1>7, <2>1, <2>2
<1>10. \A q \in RequestIds : q # r => RequestIsSound(q)'
  BY <1>2, <1>4, <1>5, <1>6, InvParts, RequestIsKept
<1>11. RequestIsSound(r)'
  <2>1. Undefined \notin Decisions
    BY UndefinedAssumption
  <2>2. AnswerIsSound(new, a)'
    BY <1>3 DEF AnswerIsSound
  <2>3. Len(answers'[r]) = 1 /\ answers'[r][1] = a
    BY <1>5
  <2>4. AnswerIsSound(approvals[r], answers[r][1])'
    BY <1>4, <2>2, <2>3
  <2>5. view.request[r] \notin Resolutions
    BY <1>3, InvParts DEF RequestIsSound
  <2>6. approvals[r].kind = "file_change" =>
          /\ approvals[r].item \in Items /\ items[approvals[r].item] # Undefined
          /\ items[approvals[r].item].request = r
    BY <1>3, InvParts DEF RequestIsSound
  <2> QED
    BY <1>2, <1>3, <1>4, <2>1, <2>3, <2>4, <2>5, <2>6 DEF RequestIsSound
<1>12. \A i \in Items : ChangeIsKnown(i)' /\ EndIsKnown(i)' /\ RequestFollowsChange(i)'
  BY <1>2, InvParts, ItemStreamStays
<1>13. \A q \in RequestIds : ResolutionIsKnown(q)' /\ EndFollowsRequest(q)'
  BY <1>2, <1>3, <1>4, InvParts, RequestStreamStays
<1>14. SessionIsSound'
  BY <1>2, InvParts DEF SessionIsSound, IsDisconnect
<1>15. \A t \in Turns : TurnIsSound(t)'
  BY <1>2, InvParts DEF TurnIsSound
<1>16. \A k \in 1..Len(events') : EventIsSound(events[k])'
  <2> SUFFICES ASSUME NEW k \in 1..Len(events) PROVE EventIsSound(events[k])'
    BY <1>2
  <2>1. PICK d : d = events[k]
    OBVIOUS
  <2>2. EventIsSound(d)'
    BY <1>6, <2>1, InvParts, EventIsKept
  <2> QED
    BY <1>2, <2>1, <2>2
<1>17. \A h \in Threads : QuietIsSound(h)'
  BY <1>2, <1>3, <1>4, InvParts DEF QuietIsSound
<1>18. Typed'
  <2>1. \A q \in RequestIds : approvals'[q] = Undefined \/ approvals'[q] \in ApprovalBinding
    BY <1>4
  <2> HIDE DEF RequestIds
  <2> QED
    BY <1>2, <1>4, <1>5, <1>8, <2>1, InvParts DEF Typed, TypeOK
<1>19. \A j \in Items : /\ ItemIsSound(j)' /\ ChangeIsKnown(j)' /\ EndIsKnown(j)'
                        /\ RequestFollowsChange(j)'
  BY <1>9, <1>12
<1>20. \A q \in RequestIds : RequestIsSound(q)' /\ ResolutionIsKnown(q)' /\ EndFollowsRequest(q)'
  BY <1>10, <1>11, <1>13
<1> QED
  BY <1>14, <1>15, <1>16, <1>17, <1>18, <1>19, <1>20, Zenon DEF WireInv

-----------------------------------------------------------------------------
(* The adapter takes an event.                                             *)

\* What the adapter knows after an event, field by field.
Learns(e) ==
  /\ view' \in [last : [Turns -> Nat], change : [Items -> ChangeSets \cup {Undefined}],
                done : SUBSET Items,
                request : [RequestIds -> Resolutions \cup {"open", Undefined}], told : BOOLEAN]
  /\ view'.told = IF IsDisconnect(e) THEN TRUE ELSE view.told
  /\ \A s \in Turns : view'.last[s] = IF e.turn = s THEN e.seq ELSE view.last[s]
  /\ \A i \in Items : view'.change[i] = IF IsUpdate(e, i) THEN e.data ELSE view.change[i]
  /\ \A i \in Items : i \in view'.done <=> i \in view.done \/ IsCompletion(e, i)
  /\ \A r \in RequestIds : view'.request[r] = IF IsRequest(e, r) THEN "open"
                                              ELSE IF IsEnd(e, r) THEN e.data
                                              ELSE view.request[r]

LEMMA EventIsLearned ==
  ASSUME Typed, NEW e \in WireEvents, EventIsSound(e), view' = Learn(view, e)
  PROVE  Learns(e)
<1>1. PICK v : v = view
  OBVIOUS
<1>2. /\ v \in [last : [Turns -> Nat], change : [Items -> ChangeSets \cup {Undefined}],
                done : SUBSET Items,
                request : [RequestIds -> Resolutions \cup {"open", Undefined}], told : BOOLEAN]
      /\ view' = Learn(v, e)
  BY <1>1 DEF Typed
<1>3. e.type \in EventTypes /\ e.seq \in Nat
  BY DEF WireEvents
<1>4. CASE e.type = "transport_disconnected"
  <2> DEFINE new == [v EXCEPT !.told = TRUE]
  <2>1. view' = new
    BY <1>2, <1>4 DEF Learn
  <2>2. /\ new \in [last : [Turns -> Nat], change : [Items -> ChangeSets \cup {Undefined}],
                    done : SUBSET Items,
                    request : [RequestIds -> Resolutions \cup {"open", Undefined}], told : BOOLEAN]
        /\ new.told = TRUE /\ new.last = v.last /\ new.change = v.change
        /\ new.done = v.done /\ new.request = v.request
    BY <1>2
  <2> HIDE DEF new
  <2>3. e.turn \notin Turns
    BY <1>4, UndefinedAssumption DEF EventIsSound, IsDisconnect
  <2> QED
    BY <1>1, <1>4, <2>1, <2>2, <2>3
       DEF Learns, IsDisconnect, IsUpdate, IsCompletion, IsRequest, IsEnd
<1>5. CASE e.type # "transport_disconnected"
  <2>0. e.turn \in Turns
    BY <1>5 DEF EventIsSound, IsDisconnect
  <2>1. CASE e.type \in {"item_started", "item_updated"}
    <3> DEFINE new == [v EXCEPT !.last[e.turn] = e.seq, !.change[e.item] = e.data]
    <3>1. view' = new
      BY <1>2, <2>1 DEF Learn
    <3>2. e.item \in Items /\ e.data \in ChangeSets
      BY <2>1 DEF EventIsSound
    <3>3. /\ new \in [last : [Turns -> Nat], change : [Items -> ChangeSets \cup {Undefined}],
                      done : SUBSET Items,
                      request : [RequestIds -> Resolutions \cup {"open", Undefined}], told : BOOLEAN]
          /\ new.told = v.told /\ new.last = [v.last EXCEPT ![e.turn] = e.seq]
          /\ new.change = [v.change EXCEPT ![e.item] = e.data]
          /\ new.done = v.done /\ new.request = v.request
      BY <1>2, <1>3, <2>0, <3>2
    <3> HIDE DEF new
    <3> QED
      BY <1>1, <1>2, <1>5, <2>0, <2>1, <3>1, <3>2, <3>3
         DEF Learns, IsDisconnect, IsUpdate, IsCompletion, IsRequest, IsEnd
  <2>2. CASE e.type = "item_completed"
    <3> DEFINE new == [v EXCEPT !.last[e.turn] = e.seq, !.done = @ \cup {e.item}]
    <3>1. view' = new
      BY <1>2, <2>2 DEF Learn
    <3>2. e.item \in Items
      BY <2>2 DEF EventIsSound
    <3>3. /\ new \in [last : [Turns -> Nat], change : [Items -> ChangeSets \cup {Undefined}],
                      done : SUBSET Items,
                      request : [RequestIds -> Resolutions \cup {"open", Undefined}], told : BOOLEAN]
          /\ new.told = v.told /\ new.last = [v.last EXCEPT ![e.turn] = e.seq]
          /\ new.change = v.change /\ new.done = v.done \cup {e.item} /\ new.request = v.request
      BY <1>2, <1>3, <2>0, <3>2
    <3> HIDE DEF new
    <3> QED
      BY <1>1, <1>2, <1>5, <2>0, <2>2, <3>1, <3>2, <3>3
         DEF Learns, IsDisconnect, IsUpdate, IsCompletion, IsRequest, IsEnd
  <2>3. CASE e.type = "approval_requested"
    <3> DEFINE new == [v EXCEPT !.last[e.turn] = e.seq, !.request[e.request] = "open"]
    <3>1. view' = new
      BY <1>2, <2>3 DEF Learn
    <3>2. e.request \in RequestIds
      BY <2>3 DEF EventIsSound
    <3>3. /\ new \in [last : [Turns -> Nat], change : [Items -> ChangeSets \cup {Undefined}],
                      done : SUBSET Items,
                      request : [RequestIds -> Resolutions \cup {"open", Undefined}], told : BOOLEAN]
          /\ new.told = v.told /\ new.last = [v.last EXCEPT ![e.turn] = e.seq]
          /\ new.change = v.change /\ new.done = v.done
          /\ new.request = [v.request EXCEPT ![e.request] = "open"]
      BY <1>2, <1>3, <2>0, <3>2
    <3> HIDE DEF new
    <3> QED
      BY <1>1, <1>2, <1>5, <2>0, <2>3, <3>1, <3>2, <3>3
         DEF Learns, IsDisconnect, IsUpdate, IsCompletion, IsRequest, IsEnd
  <2>4. CASE e.type = "request_resolved"
    <3> DEFINE new == [v EXCEPT !.last[e.turn] = e.seq, !.request[e.request] = e.data]
    <3>1. view' = new
      BY <1>2, <2>4 DEF Learn
    <3>2. e.request \in RequestIds /\ e.data \in Resolutions
      <4>1. e.request \in RequestIds /\ approvals[e.request] \in ApprovalBinding
            /\ e.data = Resolution(approvals[e.request])
        BY <2>4 DEF EventIsSound, Typed
      <4> QED
        BY <4>1 DEF Resolution, Resolutions, ApprovalBinding, Decisions
    <3>3. /\ new \in [last : [Turns -> Nat], change : [Items -> ChangeSets \cup {Undefined}],
                      done : SUBSET Items,
                      request : [RequestIds -> Resolutions \cup {"open", Undefined}], told : BOOLEAN]
          /\ new.told = v.told /\ new.last = [v.last EXCEPT ![e.turn] = e.seq]
          /\ new.change = v.change /\ new.done = v.done
          /\ new.request = [v.request EXCEPT ![e.request] = e.data]
      BY <1>2, <1>3, <2>0, <3>2
    <3> HIDE DEF new
    <3> QED
      BY <1>1, <1>2, <1>5, <2>0, <2>4, <3>1, <3>2, <3>3
         DEF Learns, IsDisconnect, IsUpdate, IsCompletion, IsRequest, IsEnd
  <2> QED
    BY <1>3, <1>5, <2>1, <2>2, <2>3, <2>4 DEF EventTypes
<1> QED
  BY <1>4, <1>5

\* Every event but the first moves up by one.
LEMMA EventsMoveUp ==
  ASSUME Typed, events # <<>>, events' = Tail(events)
  PROVE  /\ Len(events) \in Nat /\ Len(events) # 0 /\ Len(events') = Len(events) - 1
         /\ Len(events') \in Nat /\ 1 \in 1..Len(events) /\ Head(events) = events[1]
         /\ events' \in Seq(WireEvents) /\ events[1] \in WireEvents
         /\ \A k \in 1..Len(events') : k + 1 \in 2..Len(events) /\ events'[k] = events[k + 1]
         /\ \A n \in 2..Len(events) : n - 1 \in 1..Len(events') /\ events[n] = events'[n - 1]
<1>1. events \in Seq(WireEvents)
  BY DEF Typed
<1>2. /\ events' \in Seq(WireEvents) /\ Len(events) \in Nat /\ Len(events) # 0
      /\ Len(events') = Len(events) - 1 /\ Head(events) = events[1]
      /\ \A k \in 1..Len(events') : events'[k] = events[k + 1]
  BY <1>1, EventTaken
<1>3. 1 \in 1..Len(events) /\ events[1] \in WireEvents
  BY <1>1, <1>2
<1>4. \A n \in 2..Len(events) : n - 1 \in 1..Len(events') /\ events[n] = events'[n - 1]
  <2> SUFFICES ASSUME NEW n \in 2..Len(events)
               PROVE  n - 1 \in 1..Len(events') /\ events[n] = events'[n - 1]
    OBVIOUS
  <2>1. n - 1 \in 1..Len(events') /\ (n - 1) + 1 = n
    BY <1>2
  <2> QED
    BY <1>2, <2>1
<1> QED
  BY <1>2, <1>3, <1>4

\* What is known and what is still to come, per item and per request, once
\* the first event is taken.
LEMMA ItemIsLearned ==
  ASSUME Typed, events # <<>>, events' = Tail(events), Learns(events[1]), items' = items,
         NEW i \in Items, ChangeIsKnown(i), EndIsKnown(i), RequestFollowsChange(i)
  PROVE  ChangeIsKnown(i)' /\ EndIsKnown(i)' /\ RequestFollowsChange(i)'
<1>1. /\ Len(events) \in Nat /\ Len(events) # 0 /\ Len(events') = Len(events) - 1
      /\ Len(events') \in Nat /\ 1 \in 1..Len(events)
      /\ \A k \in 1..Len(events') : k + 1 \in 2..Len(events) /\ events'[k] = events[k + 1]
      /\ \A n \in 2..Len(events) : n - 1 \in 1..Len(events') /\ events[n] = events'[n - 1]
  BY EventsMoveUp
<1>2. /\ view'.change[i] = IF IsUpdate(events[1], i) THEN events[1].data ELSE view.change[i]
      /\ i \in view'.done <=> i \in view.done \/ IsCompletion(events[1], i)
      /\ \A r \in RequestIds : view'.request[r] = IF IsRequest(events[1], r) THEN "open"
                                                  ELSE IF IsEnd(events[1], r) THEN events[1].data
                                                  ELSE view.request[r]
  BY DEF Learns
<1> DEFINE rest == events'
<1>3. ChangeIsKnown(i)'
  <2> SUFFICES ASSUME items[i] # Undefined
               PROVE  /\ (\A n \in 1..Len(rest) : ~IsUpdate(rest[n], i)) =>
                           view'.change[i] = items[i].changeSet
                      /\ \A k \in 1..Len(rest) :
                           (/\ IsUpdate(rest[k], i)
                            /\ \A n \in (k + 1)..Len(rest) : ~IsUpdate(rest[n], i)) =>
                             rest[k].data = items[i].changeSet
    BY DEF ChangeIsKnown, IsUpdate
  <2>1. /\ (\A n \in 1..Len(events) : ~IsUpdate(events[n], i)) => view.change[i] = items[i].changeSet
        /\ \A k \in 1..Len(events) :
             IsUpdate(events[k], i) /\ (\A n \in (k + 1)..Len(events) : ~IsUpdate(events[n], i)) =>
               events[k].data = items[i].changeSet
    BY DEF ChangeIsKnown
  <2>2. ASSUME \A n \in 1..Len(rest) : ~IsUpdate(rest[n], i)
        PROVE  view'.change[i] = items[i].changeSet
    <3>1. \A n \in 2..Len(events) : ~IsUpdate(events[n], i)
      BY <1>1, <2>2
    <3>2. CASE IsUpdate(events[1], i)
      <4>1. 1 + 1 = 2
        OBVIOUS
      <4>2. events[1].data = items[i].changeSet
        BY <1>1, <2>1, <3>1, <3>2, <4>1
      <4> QED
        BY <1>2, <3>2, <4>2
    <3>3. CASE ~IsUpdate(events[1], i)
      <4>1. \A n \in 1..Len(events) : ~IsUpdate(events[n], i)
        BY <1>1, <3>1, <3>3
      <4> QED
        BY <1>2, <2>1, <3>3, <4>1
    <3> QED
      BY <3>2, <3>3
  <2>3. ASSUME NEW k \in 1..Len(rest), IsUpdate(rest[k], i),
               \A n \in (k + 1)..Len(rest) : ~IsUpdate(rest[n], i)
        PROVE  rest[k].data = items[i].changeSet
    <3>1. PICK m \in 2..Len(events) : m = k + 1 /\ rest[k] = events[m]
      BY <1>1
    <3>2. \A n \in (m + 1)..Len(events) : ~IsUpdate(events[n], i)
      <4> SUFFICES ASSUME NEW n \in (m + 1)..Len(events) PROVE ~IsUpdate(events[n], i)
        OBVIOUS
      <4>1. n \in 2..Len(events) /\ n - 1 \in (k + 1)..Len(rest)
        BY <1>1, <3>1
      <4> QED
        BY <1>1, <2>3, <4>1
    <3>3. m \in 1..Len(events) /\ IsUpdate(events[m], i)
      BY <1>1, <2>3, <3>1
    <3> QED
      BY <2>1, <3>1, <3>2, <3>3
  <2> QED
    BY <2>2, <2>3
<1>4. EndIsKnown(i)'
  <2> SUFFICES ASSUME items[i] # Undefined, items[i].completed = TRUE
               PROVE  i \in view'.done \/ \E k \in 1..Len(rest) : IsCompletion(rest[k], i)
    BY DEF EndIsKnown, IsCompletion
  <2>1. CASE i \in view.done
    BY <1>2, <2>1
  <2>2. CASE \E k \in 1..Len(events) : IsCompletion(events[k], i)
    <3>1. PICK k \in 1..Len(events) : IsCompletion(events[k], i)
      BY <2>2
    <3>2. CASE k = 1
      BY <1>2, <3>1, <3>2
    <3>3. CASE k # 1
      <4>1. k \in 2..Len(events)
        BY <1>1, <3>3
      <4> QED
        BY <1>1, <3>1, <4>1
    <3> QED
      BY <3>2, <3>3
  <2> QED
    BY <2>1, <2>2 DEF EndIsKnown
<1>5. RequestFollowsChange(i)'
  <2> SUFFICES ASSUME items[i] # Undefined, items[i].request # Undefined
               PROVE  /\ \A n, k \in 1..Len(rest) :
                           IsUpdate(rest[n], i) /\ IsAbout(rest[k], items[i].request) => n < k
                      /\ view'.request[items[i].request] # Undefined =>
                           \A n \in 1..Len(rest) : ~IsUpdate(rest[n], i)
    BY DEF RequestFollowsChange, IsUpdate, IsAbout
  <2>0. PICK r \in RequestIds : r = items[i].request
    BY DEF Typed, TrackedItem
  <2>1. /\ \A n, k \in 1..Len(events) : IsUpdate(events[n], i) /\ IsAbout(events[k], r) => n < k
        /\ view.request[r] # Undefined => \A n \in 1..Len(events) : ~IsUpdate(events[n], i)
    BY <2>0 DEF RequestFollowsChange
  <2>2. ASSUME NEW n \in 1..Len(rest), NEW k \in 1..Len(rest), IsUpdate(rest[n], i),
               IsAbout(rest[k], r)
        PROVE  n < k
    <3>1. PICK m \in 1..Len(events) : m = n + 1 /\ rest[n] = events[m]
      BY <1>1
    <3>2. PICK l \in 1..Len(events) : l = k + 1 /\ rest[k] = events[l]
      BY <1>1
    <3>3. m < l
      BY <2>1, <2>2, <3>1, <3>2
    <3> QED
      BY <3>1, <3>2, <3>3
  <2>3. ASSUME view'.request[r] # Undefined, NEW n \in 1..Len(rest) PROVE ~IsUpdate(rest[n], i)
    <3>1. PICK m \in 2..Len(events) : m = n + 1 /\ rest[n] = events[m]
      BY <1>1
    <3>2. m \in 1..Len(events) /\ ~(m < 1)
      BY <1>1, <3>1
    <3>3. CASE IsAbout(events[1], r)
      BY <1>1, <2>1, <3>1, <3>2, <3>3
    <3>4. CASE view.request[r] # Undefined
      BY <2>1, <3>1, <3>2, <3>4
    <3> QED
      BY <1>2, <2>3, <3>3, <3>4 DEF IsAbout, IsRequest, IsEnd
  <2> QED
    BY <2>0, <2>2, <2>3
<1> QED
  BY <1>3, <1>4, <1>5

LEMMA RequestIsLearned ==
  ASSUME Typed, events # <<>>, events' = Tail(events), Learns(events[1]), EventIsSound(events[1]),
         approvals' = approvals, answers' = answers, items' = items,
         NEW r \in RequestIds, RequestIsSound(r), ResolutionIsKnown(r), EndFollowsRequest(r)
  PROVE  RequestIsSound(r)' /\ ResolutionIsKnown(r)' /\ EndFollowsRequest(r)'
<1>1. /\ Len(events) \in Nat /\ Len(events) # 0 /\ Len(events') = Len(events) - 1
      /\ Len(events') \in Nat /\ 1 \in 1..Len(events)
      /\ \A k \in 1..Len(events') : k + 1 \in 2..Len(events) /\ events'[k] = events[k + 1]
      /\ \A n \in 2..Len(events) : n - 1 \in 1..Len(events') /\ events[n] = events'[n - 1]
  BY EventsMoveUp
<1>2. view'.request[r] = IF IsRequest(events[1], r) THEN "open"
                         ELSE IF IsEnd(events[1], r) THEN events[1].data
                         ELSE view.request[r]
  BY DEF Learns
<1>3. "open" \notin Resolutions
  BY DEF Resolutions
<1>4. IsRequest(events[1], r) => approvals[r] # Undefined
  BY DEF EventIsSound, IsRequest
<1>5. IsEnd(events[1], r) =>
        /\ approvals[r] # Undefined /\ approvals[r].resolved = TRUE
        /\ events[1].data = Resolution(approvals[r]) /\ events[1].data \in Resolutions
  <2> SUFFICES ASSUME IsEnd(events[1], r)
               PROVE  /\ approvals[r] # Undefined /\ approvals[r].resolved = TRUE
                      /\ events[1].data = Resolution(approvals[r])
                      /\ events[1].data \in Resolutions
    OBVIOUS
  <2>1. /\ approvals[r] # Undefined /\ approvals[r].resolved = TRUE
        /\ events[1].data = Resolution(approvals[r])
    BY DEF EventIsSound, IsEnd
  <2>2. approvals[r] \in ApprovalBinding
    BY <2>1 DEF Typed
  <2> QED
    BY <2>1, <2>2 DEF Resolution, Resolutions, ApprovalBinding, Decisions
<1> DEFINE rest == events'
<1>6. RequestIsSound(r)'
  <2>1. approvals[r] = Undefined => answers[r] = <<>> /\ view'.request[r] = Undefined
    BY <1>2, <1>4, <1>5 DEF RequestIsSound
  <2>2. approvals[r] # Undefined =>
          /\ approvals[r].kind = "file_change" =>
               /\ approvals[r].item \in Items /\ items[approvals[r].item] # Undefined
               /\ items[approvals[r].item].request = r
          /\ approvals[r].sentDecision = Undefined => answers[r] = <<>>
          /\ approvals[r].sentDecision # Undefined =>
               Len(answers[r]) = 1 /\ AnswerIsSound(approvals[r], answers[r][1])
    BY DEF RequestIsSound
  <2>3. approvals[r] # Undefined /\ view'.request[r] \in Resolutions =>
          approvals[r].resolved = TRUE /\ view'.request[r] = Resolution(approvals[r])
    BY <1>2, <1>3, <1>5 DEF RequestIsSound
  <2>4. PICK b, a : b = approvals[r] /\ a = answers[r][1]
    OBVIOUS
  <2>5. AnswerIsSound(b, a) => AnswerIsSound(b, a)'
    BY DEF AnswerIsSound
  <2>6. approvals[r] # Undefined /\ approvals[r].sentDecision # Undefined =>
          AnswerIsSound(approvals[r], answers[r][1])'
    BY <2>2, <2>4, <2>5
  <2>7. approvals[r] # Undefined /\ view'.request[r] \in Resolutions =>
          approvals[r].resolved = TRUE /\ view'.request[r] = Resolution(approvals[r])'
    BY <2>3 DEF Resolution
  <2> QED
    BY <2>1, <2>2, <2>6, <2>7 DEF RequestIsSound
<1>7. ResolutionIsKnown(r)'
  <2> SUFFICES ASSUME approvals[r] # Undefined, approvals[r].resolved = TRUE
               PROVE  view'.request[r] \in Resolutions \/ \E k \in 1..Len(rest) : IsEnd(rest[k], r)
    BY DEF ResolutionIsKnown, IsEnd
  <2>1. CASE view.request[r] \in Resolutions
    <3>1. ~IsRequest(events[1], r)
      BY <1>1, <2>1 DEF EndFollowsRequest
    <3> QED
      BY <1>2, <1>5, <2>1, <3>1
  <2>2. CASE \E k \in 1..Len(events) : IsEnd(events[k], r)
    <3>1. PICK k \in 1..Len(events) : IsEnd(events[k], r)
      BY <2>2
    <3>2. CASE k = 1
      <4>1. ~IsRequest(events[1], r)
        BY <3>1, <3>2 DEF IsRequest, IsEnd
      <4> QED
        BY <1>2, <1>5, <3>1, <3>2, <4>1
    <3>3. CASE k # 1
      <4>1. k \in 2..Len(events)
        BY <1>1, <3>3
      <4> QED
        BY <1>1, <3>1, <4>1
    <3> QED
      BY <3>2, <3>3
  <2> QED
    BY <2>1, <2>2 DEF ResolutionIsKnown
<1>8. EndFollowsRequest(r)'
  <2>1. /\ \A n, k \in 1..Len(events) : IsRequest(events[n], r) /\ IsEnd(events[k], r) => n < k
        /\ view.request[r] \in Resolutions => \A n \in 1..Len(events) : ~IsRequest(events[n], r)
    BY DEF EndFollowsRequest
  <2>2. ASSUME NEW n \in 1..Len(rest), NEW k \in 1..Len(rest), IsRequest(rest[n], r),
               IsEnd(rest[k], r)
        PROVE  n < k
    <3>1. PICK m \in 1..Len(events) : m = n + 1 /\ rest[n] = events[m]
      BY <1>1
    <3>2. PICK l \in 1..Len(events) : l = k + 1 /\ rest[k] = events[l]
      BY <1>1
    <3>3. m < l
      BY <2>1, <2>2, <3>1, <3>2
    <3> QED
      BY <3>1, <3>2, <3>3
  <2>3. ASSUME view'.request[r] \in Resolutions, NEW n \in 1..Len(rest)
        PROVE  ~IsRequest(rest[n], r)
    <3>1. PICK m \in 2..Len(events) : m = n + 1 /\ rest[n] = events[m]
      BY <1>1
    <3>2. m \in 1..Len(events) /\ ~(m < 1)
      BY <1>1, <3>1
    <3>3. CASE IsEnd(events[1], r)
      BY <1>1, <2>1, <3>1, <3>2, <3>3
    <3>4. CASE ~IsEnd(events[1], r)
      <4>1. view.request[r] \in Resolutions
        BY <1>2, <1>3, <2>3, <3>4
      <4> QED
        BY <2>1, <3>1, <3>2, <4>1
    <3> QED
      BY <3>3, <3>4
  <2> QED
    BY <2>2, <2>3 DEF EndFollowsRequest, IsRequest, IsEnd
<1> QED
  BY <1>6, <1>7, <1>8

LEMMA AdapterTakesKeeps ==
  ASSUME WireInv, NEW throws \in BOOLEAN, AdapterTakes(throws)
  PROVE  WireInv'
<1>1. /\ events # <<>> /\ events' = Tail(events) /\ view' = Learn(view, Head(events))
      /\ ingestFailed' \in BOOLEAN
      /\ UNCHANGED <<sessionState, compromised, disconnectEvent, sequenceByTurn>>
      /\ UNCHANGED <<items, approvals, passthroughResolutions, sending>>
      /\ UNCHANGED <<answers, accepted, latest, final, quiet>>
  BY InvParts DEF AdapterTakes, normalizer, observed, Typed, TypeOK
<1>2. /\ Len(events) \in Nat /\ Len(events) # 0 /\ Len(events') = Len(events) - 1
      /\ Len(events') \in Nat /\ 1 \in 1..Len(events) /\ Head(events) = events[1]
      /\ events' \in Seq(WireEvents) /\ events[1] \in WireEvents
      /\ \A k \in 1..Len(events') : k + 1 \in 2..Len(events) /\ events'[k] = events[k + 1]
      /\ \A n \in 2..Len(events) : n - 1 \in 1..Len(events') /\ events[n] = events'[n - 1]
  BY <1>1, InvParts, EventsMoveUp
<1>3. EventIsSound(events[1])
  BY <1>2, InvParts
<1>4. Learns(events[1])
  BY <1>1, <1>2, <1>3, InvParts, EventIsLearned
<1>5. Kept
  BY <1>1 DEF Kept
<1>6. \A i \in Items : ItemIsSound(i)'
  BY <1>1, <1>5, InvParts, ItemIsKept
<1>7. \A i \in Items : ChangeIsKnown(i)' /\ EndIsKnown(i)' /\ RequestFollowsChange(i)'
  BY <1>1, <1>4, InvParts, ItemIsLearned
<1>8. \A r \in RequestIds : RequestIsSound(r)' /\ ResolutionIsKnown(r)' /\ EndFollowsRequest(r)'
  BY <1>1, <1>3, <1>4, InvParts, RequestIsLearned
<1>9. \A t \in Turns : TurnIsSound(t)'
  <2>1. \A s \in Turns : view'.last[s] = IF events[1].turn = s THEN events[1].seq ELSE view.last[s]
    BY <1>4 DEF Learns
  <2> QED
    BY <1>1, <2>1, InvParts, TurnsAreTaken
<1>10. \A k \in 1..Len(events') : EventIsSound(events[k])'
  <2> SUFFICES ASSUME NEW k \in 1..Len(events') PROVE EventIsSound(events[k])'
    OBVIOUS
  <2>1. PICK d : d = events[k + 1]
    OBVIOUS
  <2>2. k + 1 \in 1..Len(events) /\ events'[k] = d
    BY <1>2, <2>1
  <2>3. EventIsSound(d)'
    BY <1>5, <2>1, <2>2, InvParts, EventIsKept
  <2> QED
    BY <2>2, <2>3
<1>11. \A h \in Threads : QuietIsSound(h)'
  BY <1>1, InvParts DEF QuietIsSound
<1>12. SessionIsSound'
  <2>1. view'.told = IF IsDisconnect(events[1]) THEN TRUE ELSE view.told
    BY <1>4 DEF Learns
  <2>2. /\ compromised = "wire" => disconnectEvent = TRUE
        /\ disconnectEvent = TRUE =>
             view.told = TRUE \/ \E k \in 1..Len(events) : IsDisconnect(events[k])
        /\ \A k \in 1..Len(events) :
             IsDisconnect(events[k]) => k = Len(events) /\ view.told = FALSE /\ disconnectEvent = TRUE
        /\ view.told = FALSE
    BY <1>1, InvParts DEF SessionIsSound, Typed
  <2> DEFINE rest == events'
  <2>3. CASE IsDisconnect(events[1])
    <3>1. Len(events) = 1 /\ disconnectEvent = TRUE
      BY <1>2, <2>2, <2>3
    <3>2. events' = <<>> /\ Len(events') = 0
      BY <1>2, <3>1
    <3>3. view'.told = TRUE
      BY <2>1, <2>3
    <3>4. \A k \in 1..Len(events') : FALSE
      BY <3>2
    <3> QED
      BY <1>1, <3>1, <3>2, <3>3, <3>4 DEF SessionIsSound
  <2>4. CASE ~IsDisconnect(events[1])
    <3>1. view'.told = FALSE
      BY <2>1, <2>2, <2>4
    <3>2. disconnectEvent = TRUE => \E k \in 1..Len(rest) : IsDisconnect(rest[k])
      <4> SUFFICES ASSUME disconnectEvent = TRUE PROVE \E k \in 1..Len(rest) : IsDisconnect(rest[k])
        OBVIOUS
      <4>1. PICK k \in 1..Len(events) : IsDisconnect(events[k])
        BY <2>2
      <4>2. k \in 2..Len(events)
        BY <1>2, <2>4, <4>1
      <4> QED
        BY <1>2, <4>1, <4>2
    <3>3. ASSUME NEW k \in 1..Len(rest), IsDisconnect(rest[k])
          PROVE  k = Len(rest) /\ disconnectEvent = TRUE
      <4>1. PICK m \in 1..Len(events) : m = k + 1 /\ rest[k] = events[m]
        BY <1>2
      <4>2. m = Len(events) /\ disconnectEvent = TRUE
        BY <2>2, <3>3, <4>1
      <4> QED
        BY <1>2, <4>1, <4>2
    <3> QED
      BY <1>1, <2>2, <3>1, <3>2, <3>3 DEF SessionIsSound, IsDisconnect
  <2> QED
    BY <2>3, <2>4
<1>13. Typed'
  <2>1. view' \in [last : [Turns -> Nat], change : [Items -> ChangeSets \cup {Undefined}],
                   done : SUBSET Items,
                   request : [RequestIds -> Resolutions \cup {"open", Undefined}], told : BOOLEAN]
    BY <1>4 DEF Learns
  <2> QED
    BY <1>1, <1>2, <2>1, InvParts DEF Typed, TypeOK
<1> QED
  BY <1>6, <1>7, <1>8, <1>9, <1>10, <1>11, <1>12, <1>13, Zenon DEF WireInv

-----------------------------------------------------------------------------
(* The invariant and what follows from it.                                 *)

LEMMA InitIsSound == Init => WireInv
<1> SUFFICES ASSUME Init PROVE WireInv
  OBVIOUS
<1>1. Len(events) = 0 /\ events \in Seq(WireEvents) /\ \A k \in 1..Len(events) : FALSE
  BY DEF Init
<1>2. answers \in [RequestIds -> Seq(WireAnswers)]
  BY DEF Init
<1>3. Typed
  <2>1. TypeOK
    BY DEF Init, TypeOK
  <2>2. view \in [last : [Turns -> Nat], change : [Items -> ChangeSets \cup {Undefined}],
                  done : SUBSET Items,
                  request : [RequestIds -> Resolutions \cup {"open", Undefined}], told : BOOLEAN]
    BY DEF Init
  <2> QED
    BY <1>1, <1>2, <2>1, <2>2 DEF Init, Typed
<1>4. SessionIsSound
  BY <1>1 DEF Init, SessionIsSound
<1>5. \A t \in Turns : TurnIsSound(t)
  BY <1>1 DEF Init, TurnIsSound
<1>6. \A k \in 1..Len(events) : EventIsSound(events[k])
  BY <1>1
<1>7. \A i \in Items : ItemIsSound(i) /\ ChangeIsKnown(i) /\ EndIsKnown(i) /\ RequestFollowsChange(i)
  BY DEF Init, ItemIsSound, ChangeIsKnown, EndIsKnown, RequestFollowsChange
<1>8. \A r \in RequestIds : RequestIsSound(r) /\ ResolutionIsKnown(r) /\ EndFollowsRequest(r)
  BY <1>1 DEF Init, RequestIsSound, ResolutionIsKnown, EndFollowsRequest
<1>9. \A h \in Threads : QuietIsSound(h)
  BY DEF Init, QuietIsSound
<1> QED
  BY <1>3, <1>4, <1>5, <1>6, <1>7, <1>8, <1>9 DEF WireInv

LEMMA NextKeeps == WireInv /\ [Next]_vars => WireInv'
<1> SUFFICES ASSUME WireInv, [Next]_vars PROVE WireInv'
  OBVIOUS
<1>1. CASE Handshake
  BY <1>1, HandshakeKeeps DEF Handshake
<1>2. CASE ItemMessage
  <2>1. PICK i \in Items :
          \/ \E c \in Contents, f \in RawForms, e \in Evidence : ItemStarted(i, c, f, e)
          \/ \E c \in Contents \cup {Empty}, f \in RawForms, e \in Evidence :
               FileChangePatchUpdated(i, c, f, e)
          \/ \E c \in Contents, outcome \in {"applied", "not_applied"} : ItemCompleted(i, c, outcome)
    BY <1>2 DEF ItemMessage
  <2>2. CASE \E c \in Contents, f \in RawForms, e \in Evidence : ItemStarted(i, c, f, e)
    BY <2>2, ItemStartedKeeps
  <2>3. CASE \E c \in Contents \cup {Empty}, f \in RawForms, e \in Evidence :
               FileChangePatchUpdated(i, c, f, e)
    BY <2>3, FileChangePatchUpdatedKeeps
  <2>4. CASE \E c \in Contents, outcome \in {"applied", "not_applied"} : ItemCompleted(i, c, outcome)
    BY <2>4, ItemCompletedKeeps
  <2> QED
    BY <2>1, <2>2, <2>3, <2>4
<1>3. CASE RequestMessage
  <2>1. PICK w \in WireIds :
          \/ \E i \in Items : FileApproval(w, i)
          \/ \E t \in Turns, offer \in Offers \cup {Undefined} :
               ManualApproval(w, t, "command", offer, {})
          \/ \E t \in Turns, requested \in Profiles :
               ManualApproval(w, t, "permission", Undefined, requested)
          \/ \E h \in Threads : PassthroughRequest(w, h) \/ RequestResolved(w, h)
    BY <1>3 DEF RequestMessage
  <2>2. CASE \E i \in Items : FileApproval(w, i)
    BY <2>2, FileApprovalKeeps
  <2>3. CASE \E t \in Turns, offer \in Offers \cup {Undefined} :
               ManualApproval(w, t, "command", offer, {})
    BY <2>3, ManualApprovalKeeps
  <2>4. CASE \E t \in Turns, requested \in Profiles :
               ManualApproval(w, t, "permission", Undefined, requested)
    <3>1. PICK t \in Turns, requested \in Profiles :
            ManualApproval(w, t, "permission", Undefined, requested)
      BY <2>4
    <3>2. requested \in SUBSET Entries
      BY V2WireAssumption
    <3> QED
      BY <3>1, <3>2, ManualApprovalKeeps
  <2>5. CASE \E h \in Threads : PassthroughRequest(w, h) \/ RequestResolved(w, h)
    BY <2>5, PassthroughRequestKeeps, RequestResolvedKeeps
  <2> QED
    BY <2>1, <2>2, <2>3, <2>4, <2>5
<1>4. CASE InvalidMessage
  BY <1>4, MessageIsRefused, LatestType DEF InvalidMessage
<1>5. CASE OtherResponse
  BY <1>5, OtherResponseKeeps
<1>6. CASE \E h \in Threads : ThreadClosed(h)
  BY <1>6, ThreadClosedKeeps
<1>7. CASE Disconnect
  <2>1. ingestFailed' \in BOOLEAN /\ latest' \in [Items -> Contents \cup {Empty, Undefined}]
    BY <1>7, InvParts DEF Disconnect, adapterVars, observed, Typed, TypeOK
  <2> QED
    BY <1>7, <2>1, SessionEnds DEF Disconnect, adapterVars, observed
<1>8. CASE Answer
  BY <1>8, SendKeeps DEF Answer
<1>9. CASE \E delivered \in BOOLEAN : SendSettles(delivered)
  BY <1>9, SendSettlesKeeps
<1>10. CASE \E throws \in BOOLEAN : AdapterTakes(throws)
  BY <1>10, AdapterTakesKeeps
<1>11. CASE ReportIngestFailure
  <2>1. ingestFailed' \in BOOLEAN /\ latest' \in [Items -> Contents \cup {Empty, Undefined}]
    BY <1>11, InvParts DEF ReportIngestFailure, observed, Typed
  <2> QED
    BY <1>11, <2>1, SessionEnds DEF ReportIngestFailure, observed
<1>12. CASE UNCHANGED vars
  <2>1. /\ UNCHANGED <<sequenceByTurn, items, approvals, events, view>>
        /\ UNCHANGED <<disconnectEvent, answers, latest, accepted, final, quiet>>
        /\ UNCHANGED <<compromised, passthroughResolutions, ingestFailed, sending, sessionState>>
    BY <1>12 DEF vars, normalizer, adapterVars, observed
  <2>2. Typed'
    BY <2>1, InvParts DEF Typed, TypeOK
  <2> QED
    BY <2>1, <2>2, NothingChanges
<1> QED
  BY <1>1, <1>2, <1>3, <1>4, <1>5, <1>6, <1>7, <1>8, <1>9, <1>10, <1>11, <1>12 DEF Next

\* Whatever arrives on the wire, in whatever order: what the adapter knows and
\* the events it has not taken make up what the normalizer knows.
THEOREM WireInvariant == Spec => []WireInv
BY InitIsSound, NextKeeps, PTL DEF Spec

\* encodeApprovalResponse: a request gets at most one answer, under the id it
\* came with, and one that the request offered and that does what the adapter
\* decided.
THEOREM WireAnswersAreSound == Spec => []AnswersAreSound
<1>1. WireInv => AnswersAreSound
  <2> SUFFICES ASSUME WireInv PROVE AnswersAreSound
    OBVIOUS
  <2>1. TypeOK
    BY InvParts DEF Typed
  <2>2. ASSUME NEW r \in RequestIds, answers[r] # <<>>
        PROVE  /\ approvals[r] # Undefined /\ Len(answers[r]) = 1
               /\ AnswerIsSound(approvals[r], answers[r][1])
    BY <2>2, InvParts DEF RequestIsSound
  <2>3. OneAnswerPerRequest
    <3> SUFFICES ASSUME NEW r \in RequestIds
                 PROVE  /\ Len(answers[r]) <= 1
                        /\ answers[r] # <<>> => answers[r][1].id = approvals[r].wireRequestId
      BY DEF OneAnswerPerRequest
    <3>1. CASE answers[r] = <<>>
      BY <3>1
    <3>2. CASE answers[r] # <<>>
      <4>1. Len(answers[r]) = 1 /\ AnswerIsSound(approvals[r], answers[r][1])
        BY <2>2, <3>2
      <4>2. answers[r][1].id = approvals[r].wireRequestId
        BY <4>1 DEF AnswerIsSound
      <4> QED
        BY <4>1, <4>2
    <3> QED
      BY <3>1, <3>2
  <2>4. AnswersAreOffered
    <3> SUFFICES ASSUME NEW r \in RequestIds, NEW k \in 1..Len(answers[r]), NEW a, a = answers[r][k]
                 PROVE  CASE approvals[r].kind = "file_change" -> a.result = a.decision
                          [] approvals[r].kind = "command" ->
                               /\ Disposition(a.result) = a.decision
                               /\ approvals[r].offer # Undefined => a.result \in approvals[r].offer
                          [] approvals[r].kind = "permission" ->
                               /\ Effective(a.result) \subseteq Effective(approvals[r].requested)
                               /\ a.decision = "decline" => a.result = {}
      BY DEF AnswersAreOffered
    <3>1. answers[r] # <<>>
      OBVIOUS
    <3>2. approvals[r] # Undefined /\ k = 1 /\ AnswerIsSound(approvals[r], a)
      BY <2>2, <3>1
    <3>3. approvals[r].kind \in Kinds
      BY <3>2, InvParts DEF Typed, ApprovalBinding
    <3> QED
      BY <3>2, <3>3 DEF AnswerIsSound, Kinds
  <2> QED
    BY <2>1, <2>3, <2>4 DEF AnswersAreSound
<1> QED
  BY <1>1, WireInvariant, PTL

\* What the adapter is told of the end of a request, an item or a thread is
\* what became of it: a request reported cancelled has no answer, a completion
\* is of the accepted content, and a thread that ended quietly left nothing open.
THEOREM WireEndsAreReportedTruly == Spec => []EndsAreReportedTruly
<1>1. WireInv => EndsAreReportedTruly
  <2> SUFFICES ASSUME WireInv PROVE EndsAreReportedTruly
    OBVIOUS
  <2>1. ASSUME NEW r \in RequestIds, NEW resolution \in Resolutions, resolution \in Reported(r)
        PROVE  /\ approvals[r] # Undefined /\ approvals[r] \in ApprovalBinding
               /\ resolution = Resolution(approvals[r])
    <3>1. CASE \E n \in 1..Len(events) : /\ events[n].type = "request_resolved"
                                         /\ events[n].request = r /\ resolution = events[n].data
      BY <3>1, InvParts DEF EventIsSound, Typed
    <3>2. CASE resolution = view.request[r]
      <4>1. resolution # Undefined
        BY UndefinedAssumption DEF Resolutions, Decisions
      <4>2. RequestIsSound(r)
        BY InvParts
      <4>3. approvals[r] # Undefined /\ resolution = Resolution(approvals[r])
        BY <3>2, <4>1, <4>2 DEF RequestIsSound
      <4> QED
        BY <4>3, InvParts DEF Typed
    <3> QED
      BY <2>1, <3>1, <3>2 DEF Reported
  <2>2. ReportedResolutionIsTrue
    <3> SUFFICES ASSUME NEW r \in RequestIds, NEW resolution \in Resolutions,
                        resolution \in Reported(r)
                 PROVE  IF resolution = "cancelled" THEN answers[r] = <<>>
                        ELSE \E k \in 1..Len(answers[r]) : answers[r][k].decision = resolution
      BY DEF ReportedResolutionIsTrue, Resolutions
    <3>1. /\ approvals[r] # Undefined /\ approvals[r] \in ApprovalBinding
          /\ resolution = Resolution(approvals[r])
      BY <2>1
    <3>2. CASE approvals[r].sentDecision = Undefined
      <4>1. answers[r] = <<>> /\ resolution = "cancelled"
        BY <3>1, <3>2, InvParts DEF RequestIsSound, Resolution
      <4> QED
        BY <4>1
    <3>3. CASE approvals[r].sentDecision # Undefined
      <4>1. resolution = approvals[r].sentDecision /\ resolution # "cancelled"
        BY <3>1, <3>3 DEF Resolution, ApprovalBinding, Decisions
      <4>2. Len(answers[r]) = 1 /\ answers[r][1].decision = resolution
        BY <3>1, <3>3, <4>1, InvParts DEF RequestIsSound, AnswerIsSound
      <4> QED
        BY <4>1, <4>2
    <3> QED
      BY <3>2, <3>3
  <2>3. CompletedIsAccepted
    BY InvParts DEF CompletedIsAccepted, ItemIsSound
  <2>4. QuietThreadIsDone
    <3> SUFFICES ASSUME NEW h \in quiet
                 PROVE  /\ \A i \in Items :
                             (ThreadOf[TurnOf[i]] = h /\ latest[i] # Undefined /\ compromised = "no") =>
                               \/ i \in view.done
                               \/ \E k \in 1..Len(events) :
                                    events[k].type = "item_completed" /\ events[k].item = i
                        /\ \A r \in RequestIds :
                             (approvals[r] # Undefined /\ ThreadOf[approvals[r].turn] = h) =>
                               Reported(r) # {}
      BY DEF QuietThreadIsDone
    <3>1. QuietIsSound(h)
      BY InvParts DEF Typed
    <3>2. ASSUME NEW i \in Items, ThreadOf[TurnOf[i]] = h, latest[i] # Undefined, compromised = "no"
          PROVE  \/ i \in view.done
                 \/ \E k \in 1..Len(events) : events[k].type = "item_completed" /\ events[k].item = i
      <4>1. items[i] # Undefined
        BY <3>2, InvParts DEF ItemIsSound
      <4>2. items[i].completed = TRUE
        BY <3>1, <3>2, <4>1 DEF QuietIsSound
      <4> QED
        BY <4>1, <4>2, InvParts DEF EndIsKnown, IsCompletion
    <3>3. ASSUME NEW r \in RequestIds, approvals[r] # Undefined, ThreadOf[approvals[r].turn] = h
          PROVE  Reported(r) # {}
      <4>1. approvals[r].resolved = TRUE
        BY <3>1, <3>3 DEF QuietIsSound
      <4>2. view.request[r] \in Resolutions \/ \E k \in 1..Len(events) : IsEnd(events[k], r)
        BY <3>3, <4>1, InvParts DEF ResolutionIsKnown
      <4>3. Undefined \notin Resolutions /\ "open" \notin Resolutions
        BY UndefinedAssumption DEF Resolutions, Decisions
      <4>4. CASE view.request[r] \in Resolutions
        BY <4>3, <4>4 DEF Reported
      <4>5. CASE \E k \in 1..Len(events) : IsEnd(events[k], r)
        BY <4>5 DEF Reported, IsEnd
      <4> QED
        BY <4>2, <4>4, <4>5
    <3> QED
      BY <3>2, <3>3
  <2> QED
    BY <2>2, <2>3, <2>4 DEF EndsAreReportedTruly
<1> QED
  BY <1>1, WireInvariant, PTL

\* nextSequence and disconnect: each turn's events reach the adapter without a
\* gap, and a quarantined session is reported once and as the last event.
THEOREM WireEventStreamIsWhole == Spec => []EventStreamIsWhole
<1>1. WireInv => EventStreamIsWhole
  <2> SUFFICES ASSUME WireInv PROVE EventStreamIsWhole
    OBVIOUS
  <2>1. EventsAreConsecutive
    BY InvParts DEF EventsAreConsecutive, TurnIsSound
  <2>2. DisconnectIsReportedOnceAndLast
    <3> DEFINE at == {k \in 1..Len(events) : events[k].type = "transport_disconnected"}
    <3>1. /\ compromised = "wire" => disconnectEvent = TRUE
          /\ disconnectEvent = TRUE =>
               view.told = TRUE \/ \E k \in 1..Len(events) : IsDisconnect(events[k])
          /\ \A k \in 1..Len(events) : IsDisconnect(events[k]) => k = Len(events) /\ view.told = FALSE
          /\ view.told = TRUE => events = <<>>
          /\ view.told \in BOOLEAN /\ disconnectEvent \in BOOLEAN
      BY InvParts DEF SessionIsSound, Typed, TypeOK
    <3>2. \A k : k \in at <=> k \in 1..Len(events) /\ IsDisconnect(events[k])
      BY DEF IsDisconnect
    <3> HIDE DEF at
    <3>3. compromised = "wire" \/ disconnectEvent => view.told \/ at # {}
      BY <3>1, <3>2
    <3>4. at # {} => at = {Len(events)} /\ ~view.told
      BY <3>1, <3>2
    <3>5. view.told => events = <<>>
      BY <3>1
    <3> QED
      BY <3>3, <3>4, <3>5 DEF DisconnectIsReportedOnceAndLast, at
  <2> QED
    BY <2>1, <2>2 DEF EventStreamIsWhole
<1> QED
  BY <1>1, WireInvariant, PTL

LEMMA OnlyAnswersAccept ==
  ASSUME Next, ~Answer
  PROVE  accepted' = accepted
<1>1. CASE Handshake
  BY <1>1 DEF Handshake, AcceptInitializeResponse, AcceptInitializedNotification, adapterVars
<1>2. CASE ItemMessage
  <2>1. ASSUME NEW i, NEW c, NEW f, NEW e,
               ItemStarted(i, c, f, e) \/ FileChangePatchUpdated(i, c, f, e) \/ ItemCompleted(i, c, f)
        PROVE  accepted' = accepted
    <3>1. CASE ItemStarted(i, c, f, e)
      BY <3>1 DEF ItemStarted, adapterVars
    <3>2. CASE FileChangePatchUpdated(i, c, f, e)
      <4>1. UNCHANGED adapterVars
        BY <3>2, Zenon DEF FileChangePatchUpdated
      <4> QED
        BY <4>1 DEF adapterVars
    <3>3. CASE ItemCompleted(i, c, f)
      BY <3>3 DEF ItemCompleted, adapterVars
    <3> QED
      BY <2>1, <3>1, <3>2, <3>3
  <2> QED
    BY <1>2, <2>1 DEF ItemMessage
<1>3. CASE RequestMessage
  <2>1. UNCHANGED <<adapterVars, latest>>
    BY <1>3, Zenon DEF RequestMessage, FileApproval, ManualApproval, PassthroughRequest, RequestResolved
  <2> QED
    BY <2>1 DEF adapterVars
<1>4. CASE InvalidMessage \/ OtherResponse \/ \E h \in Threads : ThreadClosed(h)
  BY <1>4 DEF InvalidMessage, OtherResponse, ThreadClosed, adapterVars
<1>5. CASE \/ Disconnect \/ ReportIngestFailure
           \/ \E delivered \in BOOLEAN : SendSettles(delivered)
           \/ \E throws \in BOOLEAN : AdapterTakes(throws)
  BY <1>5 DEF Disconnect, ReportIngestFailure, SendSettles, AdapterTakes, adapterVars
<1> QED
  BY <1>1, <1>2, <1>3, <1>4, <1>5 DEF Next

\* An accept goes out only for the content the wire showed last for the item,
\* although the adapter decides from what it was told and may be behind.
THEOREM WireAcceptCoversLatest == Spec => AcceptCoversLatest
<1>1. WireInv /\ [Next]_vars =>
        [\A i \in Items : accepted'[i] # accepted[i] =>
           /\ accepted'[i] # Undefined /\ accepted'[i].content = latest[i]
           /\ accepted'[i] = items[i].changeSet]_vars
  <2> SUFFICES ASSUME WireInv, Next, NEW i \in Items, accepted'[i] # accepted[i]
               PROVE  /\ accepted'[i] # Undefined /\ accepted'[i].content = latest[i]
                      /\ accepted'[i] = items[i].changeSet
    OBVIOUS
  <2>1. Answer
    BY OnlyAnswersAccept
  <2>2. PICK r \in RequestIds, decision \in Decisions, named \in CommandDecisions \cup {Undefined},
             grant \in (SUBSET Entries) \cup {Undefined} : Send(r, decision, named, grant)
    BY <2>1 DEF Answer
  <2>3. /\ approvals[r] # Undefined /\ compromised = "no" /\ view.request[r] # Undefined
        /\ approvals[r].kind = "file_change"
        /\ accepted' = [accepted EXCEPT ![approvals[r].item] = view.change[approvals[r].item]]
    BY <2>2 DEF Send, Answerable
  <2>4. i = approvals[r].item /\ accepted'[i] = view.change[i]
    BY <2>3, InvParts DEF Typed
  <2>5. /\ items[i] # Undefined /\ items[i].request = r
        /\ view.change[i] = items[i].changeSet
    BY <2>3, <2>4, ToldRequestIsCurrent
  <2>6. r # Undefined /\ items[i].changeSet # Undefined
    BY <2>5, UndefinedAssumption, InvParts DEF Typed, TrackedItem
  <2>7. latest[i] = items[i].changeSet.content
    BY <2>3, <2>5, <2>6, InvParts DEF ItemIsSound
  <2> QED
    BY <2>4, <2>5, <2>6, <2>7
<1> QED
  BY <1>1, WireInvariant, PTL DEF Spec, AcceptCoversLatest
=============================================================================
