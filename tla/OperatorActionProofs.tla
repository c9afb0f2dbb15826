------------------------ MODULE OperatorActionProofs ------------------------
(***************************************************************************)
(* Proofs about ReceiptStore and OperatorAction, for all sets of           *)
(* processes, calls, actions and dispatches and every bound.               *)
(*                                                                         *)
(* The argument for the store: until a running claim is removed, the call  *)
(* that claims the lock directory is its maker (ClaimIsSound). So nothing  *)
(* that the call read about lines and torn files has changed when it       *)
(* appends, and its line joins files in which its action has none; a line  *)
(* that is lost, because the one before it had no newline, leaves its file *)
(* torn, and a torn file shuts the store. The maker of a directory finds   *)
(* its own token in it, and removes the directory when it leaves, unless   *)
(* it crashed or an access failed (abandoned). For the host: a store proof *)
(* is earned by a call that answered "stored", and a dispatch carries the  *)
(* receipt it was started for; what its sinks hold follows its phase, but  *)
(* for the events a failing sink may have recorded (DispatchIsSound).      *)
(***************************************************************************)
EXTENDS OperatorAction, TLAPS

\* The phases of a call that is in the queue of its process.
Active == {"queued", "reclaim", "own", "undo", "check", "append", "release", "unlock"}

Claiming == {"own", "undo", "check", "append", "release", "unlock"}
Owning   == {"check", "append", "release", "unlock"}
After    == {"release", "unlock", "return", "done", "dead"}

StoreTypes ==
  /\ lines \subseteq Calls /\ unended \subseteq lines /\ torn \subseteq Tasks
  /\ lock \in Calls \cup {NoCall} /\ owner \in Calls \cup {NoCall}
  /\ old \in BOOLEAN /\ abandoned \in BOOLEAN
  /\ lock = NoCall => owner = NoCall /\ old = FALSE /\ abandoned = FALSE
  /\ call \in [Calls -> CallStates] /\ queue \in [Processes -> Seq(Calls)]
  /\ faults \in 0..MaxFaults /\ crashes \in 0..MaxCrashes /\ stolen \in BOOLEAN

\* A call that runs has a process, and a receipt once it may be stored.
CallIsSound(c) ==
  /\ call[c].phase \in Active \cup {"return"} => call[c].process \in Processes
  /\ call[c].phase \in Active \/ call[c].result = "stored" =>
       call[c].action \in Actions /\ call[c].decision \in Decisions
  /\ c \in lines => call[c].phase \in After

\* The queue of a process holds its active calls, each once, and only the
\* first one may be past the queue.
QueueIsSound(p) ==
  /\ \A k \in 1..Len(queue[p]) : /\ call[queue[p][k]].process = p
                                 /\ call[queue[p][k]].phase \in Active
  /\ \A j, k \in 1..Len(queue[p]) : queue[p][j] = queue[p][k] => j = k

PlaceIsSound(c) ==
  call[c].phase \in Active =>
    \E k \in 1..Len(queue[call[c].process]) :
      queue[call[c].process][k] = c /\ (call[c].phase # "queued" => k = 1)

\* A claim holds the lock, finds its own token there, and has seen the lines
\* as they are.
ClaimIsSound(c) ==
  /\ stolen = FALSE /\ call[c].phase \in Claiming => lock = c
  /\ lock = c /\ call[c].phase \in Owning => owner = c \/ abandoned = TRUE
  /\ lock = c => call[c].phase \in Claiming \/ abandoned = TRUE
  /\ stolen = FALSE /\ call[c].phase = "append" =>
       torn = {} /\ \A d \in lines : call[d].action # call[c].action
  /\ stolen = FALSE /\ call[c].result = "stored" => c \in lines \/ torn # {}

LinesAreSound ==
  stolen = FALSE => \A c, d \in Taken : call[c].action = call[d].action => c = d

StoreInv ==
  /\ StoreTypes /\ LinesAreSound
  /\ \A c \in Calls : CallIsSound(c) /\ PlaceIsSound(c) /\ ClaimIsSound(c)
  /\ \A p \in Processes : QueueIsSound(p)

\* Some call of consume answered that r is stored.
Earned(r) == \E c \in Calls : /\ call[c].phase = "done" /\ call[c].result = "stored"
                              /\ ReceiptOf(c) = r

Clients == [action : Actions \cup {NoAction}, consumption : Consumptions]
DispatchStates ==
  [phase : DispatchPhases, kind : Kinds, process : Processes \cup {NoCall},
   receipt : Receipts \cup {NewDispatch.receipt},
   result : {"none", "blocked", "failed", "completed", "dry_run_ready"}]

HostTypes ==
  /\ client \in [Processes -> Clients] /\ proofs \in [Processes -> SUBSET Receipts]
  /\ documents \subseteq Documents /\ dispatch \in [Dispatches -> DispatchStates]
  /\ audit \in [Dispatches -> SUBSET {"attempting", "completed", "failed"}]
  /\ evidence \subseteq Dispatches /\ executed \subseteq Dispatches
  /\ issued \subseteq Actions /\ storeless \subseteq Processes

ProofIsEarned(p) == \A r \in proofs[p] : Earned(r)

\* What the call of a dispatch has recorded and done so far.
DispatchIsSound(x) ==
  LET d == dispatch[x] IN
  /\ d.phase = "idle" => d.process = NoCall
  /\ d.phase # "idle" => /\ d.receipt \in Receipts /\ d.receipt.decision = "consumed"
                         /\ d.process \in Processes /\ Earned(d.receipt)
  /\ d.phase \in {"attempt", "execute", "close", "evidence", "recordFailure"} =>
       d.receipt \in proofs[d.process]
  /\ d.phase \in {"idle", "attempt"} => audit[x] = {}
  /\ d.phase = "execute" => audit[x] = {"attempting"}
  /\ d.phase = "close" => audit[x] = {"attempting"} /\ x \in executed
  /\ d.phase = "evidence" => /\ audit[x] = {"attempting", "completed"} /\ x \in executed
                             /\ HasEvidence(x)
  /\ d.phase \in {"idle", "attempt", "execute"} => x \notin executed
  /\ d.phase \in {"idle", "attempt", "execute", "close", "evidence"} =>
       d.result = "none" /\ x \notin evidence
  /\ x \in evidence => HasEvidence(x) /\ "completed" \in audit[x]
  /\ d.phase = "recordFailure" => d.result = "failed"
  /\ d.result # "none" => d.phase \in {"recordFailure", "done", "dead"}
  /\ x \in executed => "attempting" \in audit[x]
  /\ audit[x] \cap {"completed", "failed"} # {} => x \in executed
  /\ d.result = "completed" => /\ audit[x] = {"attempting", "completed"}
                               /\ HasEvidence(x) => x \in evidence
  /\ d.result = "failed" => x \in executed
  /\ d.result = "blocked" => x \notin executed /\ audit[x] \subseteq {"attempting"}
  /\ d.result = "dry_run_ready" => x \notin executed /\ audit[x] = {}

HostInv ==
  /\ HostTypes
  /\ \A p \in Processes : ProofIsEarned(p)
  /\ \A x \in Dispatches : DispatchIsSound(x)

-----------------------------------------------------------------------------
(* The queue                                                               *)

Results == {"none", "stored", "replay", "failed", "invalid", "no_store"}

\* Call c, and no other, goes to a phase with a result.
Moved(c, phase, result) ==
  /\ call' \in [Calls -> CallStates] /\ \A d \in Calls : d # c => call'[d] = call[d]
  /\ call'[c].phase = phase /\ call'[c].result = result
  /\ call'[c].process = call[c].process /\ call'[c].action = call[c].action
  /\ call'[c].decision = call[c].decision

\* What is known of one call by its type.
LEMMA CallTypes ==
  ASSUME StoreTypes, NEW c \in Calls
  PROVE  /\ call[c] \in CallStates /\ call[c].phase \in Phases /\ call[c].result \in Results
         /\ call[c].process \in Processes \cup {NoCall}
         /\ call[c].action \in Actions \cup {NoAction}
         /\ call[c].decision \in Decisions \cup {"consumed"} /\ call[c].current \in BOOLEAN
BY DEF StoreTypes, CallStates, Results

LEMMA AnswerMoves ==
  ASSUME StoreTypes, NEW c \in Calls, NEW phase \in Phases, NEW result \in Results,
         Answer(c, phase, result)
  PROVE  Moved(c, phase, result)
<1> DEFINE new == [call[c] EXCEPT !.phase = phase, !.result = result]
<1>1. call' = [call EXCEPT ![c] = new]
  BY DEF Answer
<1>2. /\ new \in CallStates /\ new.phase = phase /\ new.result = result
      /\ new.process = call[c].process /\ new.action = call[c].action
      /\ new.decision = call[c].decision
  <2>1. call[c] \in CallStates
    BY CallTypes
  <2> QED
    BY <2>1 DEF CallStates, Results
<1> HIDE DEF new
<1>3. call \in [Calls -> CallStates]
  BY DEF StoreTypes
<1> QED
  BY <1>1, <1>2, <1>3 DEF Moved

LEMMA GotoMoves ==
  ASSUME StoreTypes, NEW c \in Calls, NEW phase \in Phases, Goto(c, phase)
  PROVE  Moved(c, phase, call[c].result)
<1> DEFINE new == [call[c] EXCEPT !.phase = phase]
<1>1. call' = [call EXCEPT ![c] = new]
  BY DEF Goto
<1>2. /\ new \in CallStates /\ new.phase = phase /\ new.result = call[c].result
      /\ new.process = call[c].process /\ new.action = call[c].action
      /\ new.decision = call[c].decision
  <2>1. call[c] \in CallStates
    BY CallTypes
  <2> QED
    BY <2>1 DEF CallStates
<1> HIDE DEF new
<1>3. call \in [Calls -> CallStates]
  BY DEF StoreTypes
<1> QED
  BY <1>1, <1>2, <1>3 DEF Moved

\* The first of its queue: a call that is past the queue, or whose turn it is.
LEMMA FirstInQueue ==
  ASSUME StoreInv, NEW c \in Calls, call[c].phase \in Active,
         call[c].phase # "queued" \/ MyTurn(c)
  PROVE  /\ call[c].process \in Processes /\ queue[call[c].process] \in Seq(Calls)
         /\ 1 \in 1..Len(queue[call[c].process]) /\ queue[call[c].process][1] = c
<1>1. /\ CallIsSound(c) /\ PlaceIsSound(c) /\ queue \in [Processes -> Seq(Calls)]
  BY DEF StoreInv, StoreTypes
<1>2. call[c].process \in Processes
  BY <1>1 DEF CallIsSound
<1> DEFINE s == queue[call[c].process]
<1>3. s \in Seq(Calls)
  BY <1>1, <1>2
<1>4. PICK k \in 1..Len(s) : s[k] = c /\ (call[c].phase # "queued" => k = 1)
  BY <1>1 DEF PlaceIsSound
<1>5. MyTurn(c) => Head(s) = c
  BY DEF MyTurn
<1> HIDE DEF s
<1>6. 1 \in 1..Len(s) /\ s[1] = c
  BY <1>3, <1>4, <1>5
<1> QED
  BY <1>2, <1>3, <1>6 DEF s

LEMMA QueueStays ==
  ASSUME StoreInv, NEW c \in Calls, NEW phase \in Active, NEW result, Moved(c, phase, result),
         call[c].phase \in Active, queue' = queue,
         phase = "queued" \/ call[c].phase # "queued" \/ MyTurn(c)
  PROVE  /\ \A d \in Calls : PlaceIsSound(d)'
         /\ \A p \in Processes : QueueIsSound(p)'
<1>1. /\ \A d \in Calls : PlaceIsSound(d) /\ CallIsSound(d)
      /\ \A p \in Processes : QueueIsSound(p) /\ queue[p] \in Seq(Calls)
  BY DEF StoreInv, StoreTypes
<1>2. /\ \A d \in Calls : d # c => call'[d] = call[d]
      /\ call'[c].phase = phase /\ call'[c].process = call[c].process
  BY DEF Moved
<1>3. ASSUME NEW p \in Processes PROVE QueueIsSound(p)'
  <2>1. \A k \in 1..Len(queue[p]) : queue[p][k] \in Calls
    BY <1>1
  <2> QED
    BY <1>1, <1>2, <2>1 DEF QueueIsSound
<1>4. ASSUME NEW d \in Calls, d # c PROVE PlaceIsSound(d)'
  <2>1. call'[d] = call[d] /\ PlaceIsSound(d)
    BY <1>1, <1>2, <1>4
  <2> QED
    BY <2>1 DEF PlaceIsSound
<1>5. PlaceIsSound(c)'
  <2>1. PICK k \in 1..Len(queue[call[c].process]) :
          queue[call[c].process][k] = c /\ (phase # "queued" => k = 1)
    <3>1. CASE phase = "queued"
      BY <1>1, <3>1 DEF PlaceIsSound
    <3>2. CASE phase # "queued"
      BY <3>2, FirstInQueue
    <3> QED
      BY <3>1, <3>2
  <2> QED
    BY <1>2, <2>1 DEF PlaceIsSound
<1> QED
  BY <1>3, <1>4, <1>5

LEMMA QueueLeft ==
  ASSUME StoreInv, NEW c \in Calls, NEW result, Moved(c, "return", result),
         call[c].phase \in Active, LeaveQueue(c), call[c].phase # "queued" \/ MyTurn(c)
  PROVE  /\ \A d \in Calls : PlaceIsSound(d)'
         /\ \A p \in Processes : QueueIsSound(p)'
         /\ queue' \in [Processes -> Seq(Calls)]
<1>1. /\ \A d \in Calls : PlaceIsSound(d) /\ CallIsSound(d)
      /\ \A p \in Processes : QueueIsSound(p) /\ queue[p] \in Seq(Calls)
      /\ queue \in [Processes -> Seq(Calls)]
  BY DEF StoreInv, StoreTypes
<1>2. /\ \A d \in Calls : d # c => call'[d] = call[d]
      /\ call'[c].phase = "return"
  BY DEF Moved
<1>3. PICK p \in Processes : /\ p = call[c].process /\ queue[p] \in Seq(Calls)
                             /\ 1 \in 1..Len(queue[p]) /\ queue[p][1] = c
  BY FirstInQueue
<1> DEFINE s == queue[p]
           t == Tail(s)
<1>4. queue' = [queue EXCEPT ![p] = t]
  BY <1>3 DEF LeaveQueue
<1>5. /\ t \in Seq(Calls) /\ Len(t) = Len(s) - 1 /\ Len(s) \in Nat
      /\ \A k \in 1..Len(t) : t[k] = s[k + 1]
  BY <1>3
<1> HIDE DEF t
<1>6. /\ queue' \in [Processes -> Seq(Calls)] /\ queue'[p] = t
      /\ \A o \in Processes : o # p => queue'[o] = queue[o]
  BY <1>1, <1>4, <1>5
<1>7. /\ \A k \in 1..Len(s) : s[k] \in Calls /\ (k # 1 => s[k] # c)
      /\ \A j, k \in 1..Len(s) : s[j] = s[k] => j = k
      /\ \A k \in 1..Len(s) : call[s[k]].process = p /\ call[s[k]].phase \in Active
  BY <1>1, <1>3 DEF QueueIsSound
<1> HIDE DEF s
<1>8. \A k \in 1..Len(t) : /\ t[k] \in Calls /\ t[k] # c /\ call[t[k]].process = p
                           /\ call[t[k]].phase \in Active
  BY <1>5, <1>7
<1>9. \A j, k \in 1..Len(t) : t[j] = t[k] => j = k
  BY <1>5, <1>7
<1>10. QueueIsSound(p)'
  <2>1. \A k \in 1..Len(t) : call'[t[k]] = call[t[k]]
    BY <1>2, <1>8
  <2> QED
    BY <1>6, <1>8, <1>9, <2>1 DEF QueueIsSound
<1>11. ASSUME NEW o \in Processes, o # p PROVE QueueIsSound(o)'
  <2>1. QueueIsSound(o) /\ queue'[o] = queue[o] /\ \A k \in 1..Len(queue[o]) : queue[o][k] \in Calls
    BY <1>1, <1>6, <1>11
  <2>2. \A k \in 1..Len(queue[o]) : call'[queue[o][k]] = call[queue[o][k]]
    BY <1>2, <1>3, <1>11, <2>1 DEF QueueIsSound
  <2> QED
    BY <2>1, <2>2 DEF QueueIsSound
<1>12. ASSUME NEW d \in Calls PROVE PlaceIsSound(d)'
  <2>1. CASE d = c
    BY <1>2, <2>1 DEF PlaceIsSound, Active
  <2>2. CASE d # c /\ call[d].phase \notin Active
    BY <1>2, <2>2 DEF PlaceIsSound
  <2>3. CASE d # c /\ call[d].phase \in Active
    <3>1. call'[d] = call[d] /\ call[d].process \in Processes
      BY <1>1, <1>2, <2>3 DEF CallIsSound
    <3>2. PICK k \in 1..Len(queue[call[d].process]) :
            queue[call[d].process][k] = d /\ (call[d].phase # "queued" => k = 1)
      BY <1>1, <2>3 DEF PlaceIsSound
    <3>3. CASE call[d].process # p
      BY <1>6, <3>1, <3>2, <3>3 DEF PlaceIsSound
    <3>4. CASE call[d].process = p
      <4>1. k \in 1..Len(s) /\ s[k] = d /\ k # 1
        BY <1>3, <2>3, <3>2, <3>4 DEF s
      <4>2. k - 1 \in 1..Len(t) /\ t[k - 1] = d /\ call[d].phase = "queued"
        BY <1>5, <3>2, <4>1
      <4> QED
        BY <1>6, <3>1, <3>4, <4>2 DEF PlaceIsSound
    <3> QED
      BY <3>3, <3>4
  <2> QED
    BY <2>1, <2>2, <2>3
<1> QED
  BY <1>6, <1>10, <1>11, <1>12

-----------------------------------------------------------------------------
(* The store                                                               *)

FileTypes ==
  /\ lines \subseteq Calls /\ unended \subseteq lines /\ torn \subseteq Tasks
  /\ lock \in Calls \cup {NoCall} /\ owner \in Calls \cup {NoCall}
  /\ old \in BOOLEAN /\ abandoned \in BOOLEAN
  /\ lock = NoCall => owner = NoCall /\ old = FALSE /\ abandoned = FALSE
  /\ faults \in 0..MaxFaults /\ crashes \in 0..MaxCrashes /\ stolen \in BOOLEAN

\* The call of consume that has ended never changes again.
DoneStays == \A d \in Calls : call[d].phase = "done" => call'[d] = call[d]

LEMMA NoCallIsNone == NoCall \notin Calls /\ NoCall \notin Processes /\ NoAction \notin Actions
BY ReceiptStoreAssumption

LEMMA MovedCallIsSound ==
  ASSUME StoreInv, NEW c \in Calls, NEW phase \in Active \cup {"return"}, NEW result,
         Moved(c, phase, result), call[c].phase \in Active,
         lines' \subseteq lines \cup {c}, c \in lines' => phase \in After
  PROVE  DoneStays /\ \A d \in Calls : CallIsSound(d)'
<1>1. \A d \in Calls : CallIsSound(d)
  BY DEF StoreInv
<1>2. ASSUME NEW d \in Calls PROVE CallIsSound(d)'
  <2>1. CASE d = c
    <3>1. CallIsSound(c)
      BY <1>1
    <3> QED
      BY <2>1, <3>1 DEF CallIsSound, Moved
  <2>2. CASE d # c
    <3>1. CallIsSound(d)
      BY <1>1
    <3> QED
      BY <2>2, <3>1 DEF CallIsSound, Moved
  <2> QED
    BY <2>1, <2>2
<1>3. DoneStays
  BY DEF DoneStays, Moved, Active
<1> QED
  BY <1>2, <1>3

\* A call goes on and stays in its queue.
LEMMA StepStays ==
  ASSUME StoreInv, NEW c \in Calls, NEW phase \in Active, NEW result,
         Moved(c, phase, result), call[c].phase \in Active, queue' = queue,
         phase = "queued" \/ call[c].phase # "queued" \/ MyTurn(c),
         lines' \subseteq lines \cup {c}, c \in lines' => phase \in After,
         FileTypes', LinesAreSound', \A d \in Calls : ClaimIsSound(d)'
  PROVE  StoreInv' /\ DoneStays
<1>1. DoneStays /\ \A d \in Calls : CallIsSound(d)'
  BY MovedCallIsSound
<1>2. (\A d \in Calls : PlaceIsSound(d)') /\ \A p \in Processes : QueueIsSound(p)'
  BY QueueStays
<1>3. StoreTypes'
  <2>1. call' \in [Calls -> CallStates]
    BY DEF Moved
  <2>2. queue' \in [Processes -> Seq(Calls)]
    BY DEF StoreInv, StoreTypes
  <2> QED
    BY <2>1, <2>2, Zenon DEF StoreTypes, FileTypes
<1> QED
  BY <1>1, <1>2, <1>3, Zenon DEF StoreInv

\* A call ends its part in the store and leaves its queue.
LEMMA StepLeaves ==
  ASSUME StoreInv, NEW c \in Calls, NEW result,
         Moved(c, "return", result), call[c].phase \in Active, LeaveQueue(c),
         call[c].phase # "queued" \/ MyTurn(c), lines' = lines,
         FileTypes', LinesAreSound', \A d \in Calls : ClaimIsSound(d)'
  PROVE  StoreInv' /\ DoneStays
<1>1. DoneStays /\ \A d \in Calls : CallIsSound(d)'
  BY MovedCallIsSound DEF After
<1>2. /\ \A d \in Calls : PlaceIsSound(d)'
      /\ \A p \in Processes : QueueIsSound(p)'
      /\ queue' \in [Processes -> Seq(Calls)]
  BY QueueLeft
<1>3. StoreTypes'
  <2>1. call' \in [Calls -> CallStates]
    BY DEF Moved
  <2> QED
    BY <1>2, <2>1, Zenon DEF StoreTypes, FileTypes
<1> QED
  BY <1>1, <1>2, <1>3, Zenon DEF StoreInv

LEMMA LinesStay ==
  ASSUME StoreInv, NEW c \in Calls, NEW phase, NEW result, Moved(c, phase, result),
         result = "stored" => call[c].result = "stored",
         lines' \subseteq lines, stolen' = FALSE => stolen = FALSE
  PROVE  LinesAreSound'
<1>1. /\ \A d \in Calls : call'[d].action = call[d].action
      /\ \A d \in Calls : call'[d].result = "stored" => call[d].result = "stored"
  BY DEF Moved
<1>2. LinesAreSound /\ lines \subseteq Calls
  BY DEF StoreInv, StoreTypes
<1>3. Taken \subseteq Calls /\ Taken' \subseteq Taken
  BY <1>1, <1>2 DEF Taken
<1> QED
  BY <1>1, <1>2, <1>3 DEF LinesAreSound

\* What StoreInv says of a call, where an action needs it.
LEMMA StoreFacts ==
  ASSUME StoreInv
  PROVE  /\ StoreTypes /\ FileTypes /\ LinesAreSound
         /\ \A d \in Calls : CallIsSound(d) /\ ClaimIsSound(d)
BY DEF StoreInv, StoreTypes, FileTypes

LEMMA MakeLockLemma ==
  ASSUME StoreInv, NEW c \in Calls, MakeLock(c)
  PROVE  StoreInv' /\ DoneStays
<1>1. /\ MyTurn(c) /\ lock = NoCall /\ lock' = c /\ owner' = NoCall /\ old' = FALSE
      /\ abandoned' = FALSE /\ Goto(c, "own")
      /\ lines' = lines /\ unended' = unended /\ torn' = torn /\ queue' = queue /\ faults' = faults
      /\ crashes' = crashes /\ stolen' = stolen /\ call[c].phase = "queued"
  BY DEF MakeLock, LockIsFree, MyTurn, At, files
<1>2. Moved(c, "own", call[c].result)
  BY <1>1, GotoMoves, StoreFacts DEF Phases
<1>3. LinesAreSound'
  BY <1>1, <1>2, LinesStay
<1>4. FileTypes'
  BY <1>1, StoreFacts, NoCallIsNone DEF FileTypes
<1>5. ASSUME NEW d \in Calls PROVE ClaimIsSound(d)'
  <2>1. ClaimIsSound(d) /\ ClaimIsSound(c) /\ CallIsSound(c) /\ lines \subseteq Calls
    BY StoreFacts DEF FileTypes
  <2>2. \A e \in Calls : call'[e].action = call[e].action
    BY <1>2 DEF Moved
  <2>3. CASE d = c
    BY <1>1, <1>2, <2>1, <2>2, <2>3 DEF ClaimIsSound, Moved, Claiming, Owning
  <2>4. CASE d # c
    BY <1>1, <1>2, <2>1, <2>2, <2>4, NoCallIsNone DEF ClaimIsSound, Moved, Claiming, Owning
  <2> QED
    BY <2>3, <2>4
<1>6. c \notin lines
  BY <1>1, StoreFacts DEF CallIsSound, After
<1> QED
  BY <1>1, <1>2, <1>3, <1>4, <1>5, <1>6, StepStays DEF Active

LEMMA FindStaleLockLemma ==
  ASSUME StoreInv, NEW c \in Calls, FindStaleLock(c)
  PROVE  StoreInv' /\ DoneStays
<1>1. /\ MyTurn(c) /\ lock' = lock /\ owner' = owner /\ old' = old /\ abandoned' = abandoned
      /\ Goto(c, "reclaim")
      /\ lines' = lines /\ unended' = unended /\ torn' = torn /\ queue' = queue /\ faults' = faults
      /\ crashes' = crashes /\ stolen' = stolen /\ call[c].phase = "queued"
  BY DEF FindStaleLock, MyTurn, At, directory, files
<1>2. Moved(c, "reclaim", call[c].result)
  BY <1>1, GotoMoves, StoreFacts DEF Phases
<1>3. LinesAreSound'
  BY <1>1, <1>2, LinesStay
<1>4. FileTypes'
  BY <1>1, StoreFacts DEF FileTypes
<1>5. ASSUME NEW d \in Calls PROVE ClaimIsSound(d)'
  <2>1. ClaimIsSound(d) /\ lines \subseteq Calls
    BY StoreFacts DEF FileTypes
  <2>2. \A e \in Calls : call'[e].action = call[e].action
    BY <1>2 DEF Moved
  <2> QED
    BY <1>1, <1>2, <2>1, <2>2 DEF ClaimIsSound, Moved, Claiming, Owning
<1>6. c \notin lines
  BY <1>1, StoreFacts DEF CallIsSound, After
<1> QED
  BY <1>1, <1>2, <1>3, <1>4, <1>5, <1>6, StepStays DEF Active

\* A failing operation is counted.
LEMMA FaultCounts ==
  ASSUME FileTypes, Fault
  PROVE  faults' \in 0..MaxFaults /\ faults' # 0
BY ReceiptStoreAssumption DEF FileTypes, Fault

\* The directory is gone: the claim of a call that runs is gone with it only
\* when that is noted in stolen.
LEMMA RemovalIsSound ==
  ASSUME StoreInv, NEW c \in Calls, NEW phase \in {"queued", "return"}, NEW result \in Results,
         Moved(c, phase, result), result # "stored" \/ result = call[c].result,
         RemoveDirectory(c), lines' = lines, unended' = unended, torn' = torn,
         faults' \in 0..MaxFaults, crashes' = crashes
  PROVE  FileTypes' /\ LinesAreSound' /\ \A d \in Calls : ClaimIsSound(d)'
<1>1. /\ lock' = NoCall /\ owner' = NoCall /\ old' = FALSE /\ abandoned' = FALSE
      /\ stolen' \in BOOLEAN
      /\ stolen' = FALSE => stolen = FALSE /\ (lock \in {NoCall, c} \/ ~Claims(lock))
  BY StoreFacts DEF RemoveDirectory, FileTypes
<1>2. LinesAreSound'
  BY <1>1, LinesStay
<1>3. FileTypes'
  BY <1>1, StoreFacts DEF FileTypes
<1>4. ASSUME NEW d \in Calls PROVE ClaimIsSound(d)'
  <2>1. ClaimIsSound(d) /\ lines \subseteq Calls
    BY StoreFacts DEF FileTypes
  <2>2. \A e \in Calls : call'[e].action = call[e].action
    BY DEF Moved
  <2>3. CASE d = c
    BY <1>1, <2>1, <2>2, <2>3, NoCallIsNone DEF ClaimIsSound, Moved, Claiming, Owning
  <2>4. CASE d # c
    <3>1. stolen' = FALSE => call[d].phase \notin Claiming
      BY <1>1, <2>1, <2>4, NoCallIsNone DEF ClaimIsSound, Claims, Claiming
    <3> QED
      BY <1>1, <2>1, <2>2, <2>4, <3>1, NoCallIsNone DEF ClaimIsSound, Moved, Claiming, Owning
  <2> QED
    BY <2>3, <2>4
<1> QED
  BY <1>2, <1>3, <1>4

\* The rm fails: the directory stays, and its owner is noted to be missing.
LEMMA FailedRemovalIsSound ==
  ASSUME StoreInv, NEW c \in Calls, NEW result \in Results, Moved(c, "return", result),
         result = "stored" => call[c].result = "stored", RemovalFails(c), files' = files,
         crashes' = crashes
  PROVE  FileTypes' /\ LinesAreSound' /\ \A d \in Calls : ClaimIsSound(d)'
<1>1. /\ lock' = lock /\ stolen' = stolen /\ Fault /\ owner' \in {owner, NoCall}
      /\ old' = (old /\ owner' = owner)
      /\ abandoned' = (abandoned \/ lock = c \/ owner' # owner)
      /\ lines' = lines /\ unended' = unended /\ torn' = torn
  BY DEF RemovalFails, files
<1>2. /\ old' \in BOOLEAN /\ abandoned' \in BOOLEAN
      /\ old = FALSE => old' = FALSE
      /\ abandoned = TRUE \/ lock = c \/ owner' # owner => abandoned' = TRUE
      /\ abandoned = FALSE /\ lock # c /\ owner' = owner => abandoned' = FALSE
  BY <1>1, StoreFacts, Zenon DEF FileTypes
<1>3. faults' \in 0..MaxFaults
  BY <1>1, StoreFacts, FaultCounts
<1>4. LinesAreSound'
  BY <1>1, LinesStay
<1>5. FileTypes'
  <2>1. lock = NoCall => owner' = owner /\ lock # c /\ abandoned = FALSE /\ old = FALSE
    BY <1>1, StoreFacts, NoCallIsNone DEF FileTypes
  <2>2. lock' = NoCall => owner' = NoCall /\ old' = FALSE /\ abandoned' = FALSE
    BY <1>1, <1>2, <2>1, StoreFacts DEF FileTypes
  <2>3. owner' \in Calls \cup {NoCall}
    BY <1>1, StoreFacts DEF FileTypes
  <2> QED
    BY <1>1, <1>2, <1>3, <2>2, <2>3, StoreFacts DEF FileTypes
<1>6. ASSUME NEW d \in Calls PROVE ClaimIsSound(d)'
  <2>1. ClaimIsSound(d) /\ lines \subseteq Calls
    BY StoreFacts DEF FileTypes
  <2>2. \A e \in Calls : call'[e].action = call[e].action
    BY DEF Moved
  <2>3. CASE d = c
    BY <1>1, <1>2, <2>1, <2>2, <2>3 DEF ClaimIsSound, Moved, Claiming, Owning
  <2>4. CASE d # c
    BY <1>1, <1>2, <2>1, <2>2, <2>4 DEF ClaimIsSound, Moved, Claiming, Owning
  <2> QED
    BY <2>3, <2>4
<1> QED
  BY <1>4, <1>5, <1>6

LEMMA ReclaimStaleLockLemma ==
  ASSUME StoreInv, NEW c \in Calls, ReclaimStaleLock(c)
  PROVE  StoreInv' /\ DoneStays
<1>1. /\ files' = files /\ crashes' = crashes /\ call[c].phase = "reclaim"
      /\ \/ RemoveDirectory(c) /\ faults' = faults /\ Goto(c, "queued") /\ queue' = queue
         \/ /\ (RemoveDirectory(c) /\ faults' = faults) \/ RemovalFails(c)
            /\ Answer(c, "return", "failed") /\ LeaveQueue(c)
  BY DEF ReclaimStaleLock, At
<1>2. /\ c \notin lines /\ call[c].result \in Results /\ faults \in 0..MaxFaults
      /\ lines' = lines /\ unended' = unended /\ torn' = torn
  BY <1>1, StoreFacts, CallTypes DEF CallIsSound, After, FileTypes, files
<1>3. CASE RemoveDirectory(c) /\ faults' = faults /\ Goto(c, "queued") /\ queue' = queue
  <2>1. Moved(c, "queued", call[c].result)
    BY <1>3, GotoMoves, StoreFacts DEF Phases
  <2>2. FileTypes' /\ LinesAreSound' /\ \A d \in Calls : ClaimIsSound(d)'
    BY <1>1, <1>2, <1>3, <2>1, RemovalIsSound
  <2> QED
    BY <1>1, <1>2, <1>3, <2>1, <2>2, StepStays DEF Active
<1>4. CASE /\ (RemoveDirectory(c) /\ faults' = faults) \/ RemovalFails(c)
           /\ Answer(c, "return", "failed") /\ LeaveQueue(c)
  <2>1. Moved(c, "return", "failed")
    BY <1>4, AnswerMoves, StoreFacts DEF Phases, Results
  <2>2. FileTypes' /\ LinesAreSound' /\ \A d \in Calls : ClaimIsSound(d)'
    BY <1>1, <1>2, <1>4, <2>1, RemovalIsSound, FailedRemovalIsSound DEF Results
  <2> QED
    BY <1>1, <1>2, <1>4, <2>1, <2>2, StepLeaves DEF Active
<1> QED
  BY <1>1, <1>3, <1>4

LEMMA LockTimeoutLemma ==
  ASSUME StoreInv, NEW c \in Calls, LockTimeout(c)
  PROVE  StoreInv' /\ DoneStays
<1>1. /\ MyTurn(c) /\ lock' = lock /\ owner' = owner /\ old' = old /\ abandoned' = abandoned
      /\ Answer(c, "return", "failed") /\ LeaveQueue(c)
      /\ lines' = lines /\ unended' = unended /\ torn' = torn /\ faults' = faults
      /\ crashes' = crashes /\ stolen' = stolen /\ call[c].phase = "queued"
  BY DEF LockTimeout, MyTurn, At, directory, files
<1>2. Moved(c, "return", "failed")
  BY <1>1, AnswerMoves, StoreFacts DEF Phases, Results
<1>3. LinesAreSound'
  BY <1>1, <1>2, LinesStay
<1>4. FileTypes'
  BY <1>1, StoreFacts DEF FileTypes
<1>5. ASSUME NEW d \in Calls PROVE ClaimIsSound(d)'
  <2>1. ClaimIsSound(d) /\ lines \subseteq Calls
    BY StoreFacts DEF FileTypes
  <2>2. \A e \in Calls : call'[e].action = call[e].action
    BY <1>2 DEF Moved
  <2> QED
    BY <1>1, <1>2, <2>1, <2>2 DEF ClaimIsSound, Moved, Claiming, Owning
<1> QED
  BY <1>1, <1>2, <1>3, <1>4, <1>5, StepLeaves DEF Active

LEMMA ClaimFailsLemma ==
  ASSUME StoreInv, NEW c \in Calls, ClaimFails(c)
  PROVE  StoreInv' /\ DoneStays
<1>1. /\ MyTurn(c) /\ lock' = lock /\ owner' = owner /\ old' = old /\ abandoned' = abandoned
      /\ Answer(c, "return", "failed") /\ LeaveQueue(c)
      /\ lines' = lines /\ unended' = unended /\ torn' = torn /\ Fault
      /\ crashes' = crashes /\ stolen' = stolen /\ call[c].phase = "queued"
  BY DEF ClaimFails, MyTurn, At, directory, files
<1>2. Moved(c, "return", "failed")
  BY <1>1, AnswerMoves, StoreFacts DEF Phases, Results
<1>3. LinesAreSound'
  BY <1>1, <1>2, LinesStay
<1>4. FileTypes'
  <2>1. faults' \in 0..MaxFaults
    BY <1>1, StoreFacts, FaultCounts
  <2> QED
    BY <1>1, <2>1, StoreFacts DEF FileTypes
<1>5. ASSUME NEW d \in Calls PROVE ClaimIsSound(d)'
  <2>1. ClaimIsSound(d) /\ lines \subseteq Calls
    BY StoreFacts DEF FileTypes
  <2>2. \A e \in Calls : call'[e].action = call[e].action
    BY <1>2 DEF Moved
  <2> QED
    BY <1>1, <1>2, <2>1, <2>2 DEF ClaimIsSound, Moved, Claiming, Owning
<1> QED
  BY <1>1, <1>2, <1>3, <1>4, <1>5, StepLeaves DEF Active

LEMMA WriteOwnerLemma ==
  ASSUME StoreInv, NEW c \in Calls, WriteOwner(c)
  PROVE  StoreInv' /\ DoneStays
<1>1. /\ lines' = lines /\ unended' = unended /\ torn' = torn /\ queue' = queue /\ lock' = lock
      /\ crashes' = crashes /\ stolen' = stolen /\ abandoned' = abandoned
      /\ call[c].phase = "own" /\ (faults' = faults \/ Fault)
      /\ \/ /\ lock # NoCall /\ owner = NoCall /\ owner' = c /\ old' = FALSE
            /\ Goto(c, "check") \/ Goto(c, "undo")
         \/ Goto(c, "undo") /\ owner' = owner /\ old' = old
  BY DEF WriteOwner, At, directory, files
<1>2. c \notin lines
  BY <1>1, StoreFacts DEF CallIsSound, After
<1>3. PICK phase \in {"check", "undo"} :
        /\ Goto(c, phase)
        /\ \/ lock # NoCall /\ owner = NoCall /\ owner' = c /\ old' = FALSE
           \/ phase = "undo" /\ owner' = owner /\ old' = old
  BY <1>1
<1>4. Moved(c, phase, call[c].result)
  BY <1>3, GotoMoves, StoreFacts DEF Phases
<1>5. faults' \in 0..MaxFaults
  BY <1>1, StoreFacts, FaultCounts DEF FileTypes
<1>6. FileTypes'
  BY <1>1, <1>3, <1>5, StoreFacts DEF FileTypes
<1>7. LinesAreSound'
  BY <1>1, <1>4, LinesStay
<1>8. ASSUME NEW d \in Calls PROVE ClaimIsSound(d)'
  <2>1. ClaimIsSound(d) /\ ClaimIsSound(c) /\ lines \subseteq Calls
    BY StoreFacts DEF FileTypes
  <2>2. \A e \in Calls : call'[e].action = call[e].action
    BY <1>4 DEF Moved
  <2>3. CASE d = c
    BY <1>1, <1>3, <1>4, <2>1, <2>2, <2>3 DEF ClaimIsSound, Moved, Claiming, Owning
  <2>4. CASE d # c
    BY <1>1, <1>3, <1>4, <2>1, <2>2, <2>4, NoCallIsNone
    DEF ClaimIsSound, Moved, Claiming, Owning
  <2> QED
    BY <2>3, <2>4
<1> QED
  BY <1>1, <1>2, <1>4, <1>6, <1>7, <1>8, StepStays DEF Active

LEMMA UndoLockLemma ==
  ASSUME StoreInv, NEW c \in Calls, UndoLock(c)
  PROVE  StoreInv' /\ DoneStays
<1>1. /\ files' = files /\ crashes' = crashes /\ call[c].phase = "undo"
      /\ (RemoveDirectory(c) /\ faults' = faults) \/ RemovalFails(c)
      /\ Answer(c, "return", "failed") /\ LeaveQueue(c)
  BY DEF UndoLock, At
<1>2. /\ faults \in 0..MaxFaults /\ lines' = lines /\ unended' = unended /\ torn' = torn
  BY <1>1, StoreFacts DEF FileTypes, files
<1>3. Moved(c, "return", "failed")
  BY <1>1, AnswerMoves, StoreFacts DEF Phases, Results
<1>4. FileTypes' /\ LinesAreSound' /\ \A d \in Calls : ClaimIsSound(d)'
  BY <1>1, <1>2, <1>3, RemovalIsSound, FailedRemovalIsSound DEF Results
<1> QED
  BY <1>1, <1>2, <1>3, <1>4, StepLeaves DEF Active

\* A call goes on that keeps its claim, or leaves it and that is noted.
LEMMA ClaimStays ==
  ASSUME StoreInv, NEW c \in Calls, NEW phase \in Phases, NEW result \in Results,
         Moved(c, phase, result), result = "stored" => call[c].result = "stored",
         call[c].phase \in Owning, phase \in Claiming => phase \in Owning \ {"append"},
         phase \notin Claiming => lock # c \/ abandoned' = TRUE,
         abandoned' = abandoned \/ abandoned' = TRUE,
         lines' = lines, unended' = unended, torn' = torn, lock' = lock, owner' = owner,
         crashes' = crashes,
         stolen' = stolen
  PROVE  \A d \in Calls : ClaimIsSound(d)'
<1>1. ASSUME NEW d \in Calls PROVE ClaimIsSound(d)'
  <2>1. ClaimIsSound(d) /\ ClaimIsSound(c) /\ lines \subseteq Calls
    BY StoreFacts DEF FileTypes
  <2>2. \A e \in Calls : call'[e].action = call[e].action
    BY DEF Moved
  <2>3. CASE d = c
    BY <2>1, <2>2, <2>3 DEF ClaimIsSound, Moved, Claiming, Owning
  <2>4. CASE d # c
    BY <2>1, <2>2, <2>4 DEF ClaimIsSound, Moved, Claiming, Owning
  <2> QED
    BY <2>3, <2>4
<1> QED
  BY <1>1

LEMMA ReadOwnerLemma ==
  ASSUME StoreInv, NEW c \in Calls, ReadOwner(c)
  PROVE  StoreInv' /\ DoneStays
<1>1. /\ lines' = lines /\ unended' = unended /\ torn' = torn
      /\ lock' = lock /\ owner' = owner /\ old' = old
      /\ crashes' = crashes /\ stolen' = stolen /\ call[c].phase = "release"
      /\ \/ /\ Goto(c, "unlock") /\ queue' = queue /\ abandoned' = abandoned
            /\ faults' = faults
         \/ /\ owner # c /\ Goto(c, "return") /\ LeaveQueue(c) /\ abandoned' = abandoned
            /\ faults' = faults
         \/ /\ Fault /\ Answer(c, "return", "failed") /\ LeaveQueue(c)
            /\ abandoned' = (abandoned \/ lock = c)
  BY DEF ReadOwner, At, files, HasMyToken
<1>2. /\ abandoned' \in BOOLEAN
      /\ abandoned' = abandoned \/ abandoned' = TRUE
      /\ lock = NoCall => abandoned' = abandoned
  <2>1. abandoned \in BOOLEAN /\ lock = NoCall => lock # c
    BY StoreFacts, NoCallIsNone DEF FileTypes
  <2> QED
    BY <1>1, <2>1, StoreFacts, Zenon DEF FileTypes
<1>3. FileTypes'
  <2>1. faults' \in 0..MaxFaults
    BY <1>1, StoreFacts, FaultCounts DEF FileTypes
  <2> QED
    BY <1>1, <1>2, <2>1, StoreFacts DEF FileTypes
<1>4. call[c].result \in Results /\ call[c].phase \in Owning
  BY <1>1, StoreFacts, CallTypes DEF Owning
<1>5. CASE Goto(c, "unlock") /\ queue' = queue
  <2>1. Moved(c, "unlock", call[c].result)
    BY <1>5, GotoMoves, StoreFacts DEF Phases
  <2>2. \A d \in Calls : ClaimIsSound(d)'
    BY <1>1, <1>2, <1>4, <2>1, ClaimStays DEF Phases, Claiming, Owning
  <2>3. LinesAreSound'
    BY <1>1, <2>1, LinesStay
  <2> QED
    BY <1>1, <1>3, <1>5, <2>1, <2>2, <2>3, StepStays DEF Active, After
<1>6. CASE /\ owner # c /\ Goto(c, "return") /\ LeaveQueue(c) /\ abandoned' = abandoned
  <2>1. Moved(c, "return", call[c].result)
    BY <1>6, GotoMoves, StoreFacts DEF Phases
  <2>2. lock # c \/ abandoned' = TRUE
    BY <1>4, <1>6, StoreFacts DEF ClaimIsSound
  <2>3. \A d \in Calls : ClaimIsSound(d)'
    BY <1>1, <1>2, <1>4, <2>1, <2>2, ClaimStays DEF Phases, Claiming
  <2>4. LinesAreSound'
    BY <1>1, <2>1, LinesStay
  <2> QED
    BY <1>1, <1>3, <1>6, <2>1, <2>3, <2>4, StepLeaves DEF Active
<1>7. CASE /\ Answer(c, "return", "failed") /\ LeaveQueue(c)
           /\ abandoned' = (abandoned \/ lock = c)
  <2>1. Moved(c, "return", "failed")
    BY <1>7, AnswerMoves, StoreFacts DEF Phases, Results
  <2>2. lock # c \/ abandoned' = TRUE
    BY <1>7, StoreFacts, Zenon DEF FileTypes
  <2>3. \A d \in Calls : ClaimIsSound(d)'
    BY <1>1, <1>2, <1>4, <2>1, <2>2, ClaimStays DEF Phases, Results, Claiming
  <2>4. LinesAreSound'
    BY <1>1, <2>1, LinesStay
  <2> QED
    BY <1>1, <1>3, <1>7, <2>1, <2>3, <2>4, StepLeaves DEF Active
<1> QED
  BY <1>1, <1>5, <1>6, <1>7

LEMMA ReleaseLockLemma ==
  ASSUME StoreInv, NEW c \in Calls, ReleaseLock(c)
  PROVE  StoreInv' /\ DoneStays
<1>1. /\ files' = files /\ crashes' = crashes /\ LeaveQueue(c) /\ call[c].phase = "unlock"
      /\ \/ RemoveDirectory(c) /\ Goto(c, "return") /\ faults' = faults
         \/ RemovalFails(c) /\ Answer(c, "return", "failed")
  BY DEF ReleaseLock, At
<1>2. /\ faults \in 0..MaxFaults /\ lines' = lines /\ unended' = unended /\ torn' = torn
  BY <1>1, StoreFacts DEF FileTypes, files
<1>3. CASE RemoveDirectory(c) /\ Goto(c, "return") /\ faults' = faults
  <2>1. Moved(c, "return", call[c].result) /\ call[c].result \in Results
    BY <1>3, GotoMoves, StoreFacts, CallTypes DEF Phases
  <2>2. FileTypes' /\ LinesAreSound' /\ \A d \in Calls : ClaimIsSound(d)'
    BY <1>1, <1>2, <1>3, <2>1, RemovalIsSound
  <2> QED
    BY <1>1, <1>2, <1>3, <2>1, <2>2, StepLeaves DEF Active
<1>4. CASE RemovalFails(c) /\ Answer(c, "return", "failed")
  <2>1. Moved(c, "return", "failed")
    BY <1>4, AnswerMoves, StoreFacts DEF Phases, Results
  <2>2. FileTypes' /\ LinesAreSound' /\ \A d \in Calls : ClaimIsSound(d)'
    BY <1>1, <1>4, <2>1, FailedRemovalIsSound DEF Results
  <2> QED
    BY <1>1, <1>2, <2>1, <2>2, StepLeaves DEF Active
<1> QED
  BY <1>1, <1>3, <1>4

LEMMA CheckReplayLemma ==
  ASSUME StoreInv, NEW c \in Calls, CheckReplay(c)
  PROVE  StoreInv' /\ DoneStays
<1>1. /\ lines' = lines /\ unended' = unended /\ torn' = torn /\ lock' = lock
      /\ owner' = owner /\ old' = old /\ abandoned' = abandoned
      /\ queue' = queue /\ crashes' = crashes /\ stolen' = stolen /\ call[c].phase = "check"
      /\ \/ (faults' = faults \/ Fault) /\ Answer(c, "release", "failed")
         \/ faults' = faults /\ Answer(c, "release", "replay")
         \/ /\ faults' = faults /\ torn = {} /\ Goto(c, "append")
            /\ \A d \in lines : call[d].action # call[c].action
  <2>1. Unreadable(c) <=> torn # {}
    BY DEF Unreadable
  <2> QED
    BY <2>1 DEF CheckReplay, At, directory, files, IsReplay
<1>2. faults' \in 0..MaxFaults
  BY <1>1, StoreFacts, FaultCounts DEF FileTypes
<1>3. FileTypes'
  BY <1>1, <1>2, StoreFacts DEF FileTypes
<1>4. c \notin lines /\ call[c].phase \in Owning
  BY <1>1, StoreFacts DEF CallIsSound, After, Owning
<1>5. ASSUME NEW result \in {"failed", "replay"}, Answer(c, "release", result)
      PROVE  StoreInv' /\ DoneStays
  <2>1. Moved(c, "release", result)
    BY <1>5, AnswerMoves, StoreFacts DEF Phases, Results
  <2>2. \A d \in Calls : ClaimIsSound(d)'
    BY <1>1, <1>2, <1>4, <2>1, ClaimStays DEF Phases, Results, Claiming, Owning
  <2>3. LinesAreSound'
    BY <1>1, <2>1, LinesStay
  <2> QED
    BY <1>1, <1>3, <1>4, <2>1, <2>2, <2>3, StepStays DEF Active
<1>6. CASE /\ torn = {} /\ Goto(c, "append")
           /\ \A d \in lines : call[d].action # call[c].action
  <2>1. Moved(c, "append", call[c].result)
    BY <1>6, GotoMoves, StoreFacts DEF Phases
  <2>2. LinesAreSound'
    BY <1>1, <2>1, LinesStay
  <2>3. ASSUME NEW d \in Calls PROVE ClaimIsSound(d)'
    <3>1. ClaimIsSound(d) /\ lines \subseteq Calls
      BY StoreFacts DEF FileTypes
    <3>2. \A e \in Calls : call'[e].action = call[e].action
      BY <2>1 DEF Moved
    <3>3. CASE d = c
      BY <1>1, <1>2, <1>6, <2>1, <3>1, <3>2, <3>3 DEF ClaimIsSound, Moved, Claiming, Owning
    <3>4. CASE d # c
      BY <1>1, <1>2, <2>1, <3>1, <3>2, <3>4 DEF ClaimIsSound, Moved, Claiming, Owning
    <3> QED
      BY <3>3, <3>4
  <2> QED
    BY <1>1, <1>3, <1>4, <2>1, <2>2, <2>3, StepStays DEF Active
<1> QED
  BY <1>1, <1>5, <1>6

\* What a write, whole or cut short, does to the files.
LEMMA LandsInFiles ==
  ASSUME FileTypes, NEW c \in Calls, call[c].action \in Actions, NEW written \in Extents,
         Lands(c, written)
  PROVE  /\ lines' \subseteq lines \cup {c} /\ unended' \subseteq lines' /\ torn' \subseteq Tasks
         /\ \A d \in lines : d \in lines' \/ torn' # {}
         /\ written = "line" => c \in lines' \/ torn' # {}
<1> DEFINE task  == TaskOf[call[c].action]
           cut   == {d \in unended : TaskOf[call[d].action] = task}
           whole == IF cut = {} /\ written # "part" THEN {c} ELSE {}
<1>1. /\ task \in Tasks /\ cut \subseteq unended /\ (whole = {} \/ (whole = {c} /\ cut = {}))
      /\ written = "line" => whole = {c} \/ cut # {}
      /\ lines \subseteq Calls /\ unended \subseteq lines /\ torn \subseteq Tasks
  BY ReceiptStoreAssumption DEF FileTypes
<1>2. \/ lines' = lines /\ unended' = unended /\ torn' = torn /\ (written = "nothing" \/ task \in torn)
      \/ /\ lines' = (lines \ cut) \cup whole
         /\ unended' = (unended \ cut) \cup (IF written = "record" THEN whole ELSE {})
         /\ torn' = torn \cup (IF whole = {} THEN {task} ELSE {})
  BY DEF Lands, files
<1> HIDE DEF task, cut, whole
<1>3. CASE /\ lines' = lines /\ unended' = unended /\ torn' = torn
           /\ written = "nothing" \/ task \in torn
  BY <1>1, <1>3
<1>4. CASE /\ lines' = (lines \ cut) \cup whole
           /\ unended' = (unended \ cut) \cup (IF written = "record" THEN whole ELSE {})
           /\ torn' = torn \cup (IF whole = {} THEN {task} ELSE {})
  <2>1. CASE whole = {}
    BY <1>1, <1>4, <2>1
  <2>2. CASE whole = {c} /\ cut = {}
    BY <1>1, <1>4, <2>2
  <2> QED
    BY <1>1, <2>1, <2>2
<1> QED
  BY <1>2, <1>3, <1>4

\* A receipt is appended while every line can be read and none is of its
\* action, by the only call that may append.
LEMMA AppendReceiptLemma ==
  ASSUME StoreInv, NEW c \in Calls, AppendReceipt(c)
  PROVE  StoreInv' /\ DoneStays /\ (stolen = FALSE => torn = {})
<1>1. /\ lock' = lock /\ owner' = owner /\ old' = old /\ abandoned' = abandoned
      /\ queue' = queue /\ crashes' = crashes /\ stolen' = stolen /\ call[c].phase = "append"
  BY DEF AppendReceipt, At, directory
<1>2. PICK written \in Extents, result \in {"stored", "failed"} :
        /\ Lands(c, written) /\ Answer(c, "release", result)
        /\ result = "stored" => written = "line"
        /\ faults' = faults \/ Fault
  BY DEF AppendReceipt, Extents
<1>3. /\ call[c].action \in Actions /\ ClaimIsSound(c) /\ lines \subseteq Calls
      /\ \A d \in Calls : stolen = FALSE /\ d # c => call[d].phase \notin Claiming
  BY <1>1, StoreFacts DEF CallIsSound, ClaimIsSound, Claiming, Active, FileTypes
<1>4. stolen = FALSE => torn = {} /\ \A d \in lines : call[d].action # call[c].action
  BY <1>1, <1>3 DEF ClaimIsSound
<1>5. /\ lines' \subseteq lines \cup {c} /\ unended' \subseteq lines' /\ torn' \subseteq Tasks
      /\ \A d \in lines : d \in lines' \/ torn' # {}
      /\ written = "line" => c \in lines' \/ torn' # {}
  BY <1>2, <1>3, StoreFacts, LandsInFiles
<1>6. Moved(c, "release", result)
  BY <1>2, AnswerMoves, StoreFacts DEF Phases, Results
<1>7. /\ \A d \in Calls : call'[d].action = call[d].action
      /\ \A d \in Calls : d # c => call'[d] = call[d]
  BY <1>6 DEF Moved
<1>8. LinesAreSound'
  <2> SUFFICES ASSUME stolen = FALSE, NEW d \in Taken', NEW e \in Taken',
                      call'[d].action = call'[e].action
               PROVE  d = e
    BY <1>1 DEF LinesAreSound
  <2>1. d \in Calls /\ e \in Calls /\ call[d].action = call[e].action
    BY <1>3, <1>5, <1>7 DEF Taken
  <2>2. (d # c => d \in lines) /\ (e # c => e \in lines)
    BY <1>4, <1>5, <1>7, <2>1, StoreFacts DEF Taken, ClaimIsSound
  <2>3. lines \subseteq Taken
    BY DEF Taken
  <2> QED
    BY <1>4, <2>1, <2>2, <2>3, StoreFacts DEF LinesAreSound
<1>9. FileTypes'
  <2>1. faults' \in 0..MaxFaults
    BY <1>2, StoreFacts, FaultCounts DEF FileTypes
  <2> QED
    BY <1>1, <1>3, <1>5, <2>1, StoreFacts DEF FileTypes
<1>10. ASSUME NEW d \in Calls PROVE ClaimIsSound(d)'
  <2>1. CASE d = c
    BY <1>1, <1>2, <1>3, <1>5, <1>6, <2>1 DEF ClaimIsSound, Moved, Claiming, Owning
  <2>2. CASE d # c
    <3>1. ClaimIsSound(d) /\ call'[d] = call[d]
      BY <1>7, <2>2, StoreFacts
    <3>2. stolen = FALSE /\ call[d].result = "stored" => d \in lines' \/ torn' # {}
      BY <1>4, <1>5, <3>1 DEF ClaimIsSound
    <3> QED
      BY <1>1, <1>3, <2>2, <3>1, <3>2 DEF ClaimIsSound, Claiming, Owning
  <2> QED
    BY <2>1, <2>2
<1> QED
  BY <1>1, <1>4, <1>5, <1>6, <1>8, <1>9, <1>10, StepStays DEF Active, After

\* The queues do not depend on calls that are not in them.
LEMMA QueueUntouched ==
  ASSUME StoreInv, queue' = queue,
         \A d \in Calls : call[d].phase \in Active \/ call'[d].phase \in Active =>
                            call'[d] = call[d]
  PROVE  /\ \A d \in Calls : PlaceIsSound(d)'
         /\ \A p \in Processes : QueueIsSound(p)'
<1>1. /\ \A d \in Calls : PlaceIsSound(d)
      /\ \A p \in Processes : QueueIsSound(p) /\ queue[p] \in Seq(Calls)
  BY DEF StoreInv, StoreTypes
<1>2. ASSUME NEW p \in Processes PROVE QueueIsSound(p)'
  <2>1. \A k \in 1..Len(queue[p]) : queue[p][k] \in Calls
    BY <1>1
  <2>2. \A k \in 1..Len(queue[p]) : call'[queue[p][k]] = call[queue[p][k]]
    BY <1>1, <2>1 DEF QueueIsSound
  <2> QED
    BY <1>1, <2>2 DEF QueueIsSound
<1>3. ASSUME NEW d \in Calls PROVE PlaceIsSound(d)'
  BY <1>1 DEF PlaceIsSound
<1> QED
  BY <1>2, <1>3

LEMMA LockAgesLemma ==
  ASSUME StoreInv, LockAges
  PROVE  StoreInv' /\ DoneStays
<1>1. /\ lock # NoCall /\ old' = TRUE /\ lines' = lines /\ unended' = unended
      /\ torn' = torn /\ lock' = lock
      /\ owner' = owner /\ abandoned' = abandoned /\ call' = call /\ queue' = queue
      /\ faults' = faults
      /\ crashes' = crashes /\ stolen' = stolen
  BY DEF LockAges, files
<1>2. StoreTypes'
  BY <1>1 DEF StoreInv, StoreTypes
<1>3. (\A d \in Calls : PlaceIsSound(d)') /\ \A p \in Processes : QueueIsSound(p)'
  BY <1>1, QueueUntouched
<1>4. \A d \in Calls : CallIsSound(d)' /\ ClaimIsSound(d)'
  BY <1>1, StoreFacts DEF CallIsSound, ClaimIsSound
<1>5. LinesAreSound'
  BY <1>1, StoreFacts DEF LinesAreSound, Taken
<1> QED
  BY <1>1, <1>2, <1>3, <1>4, <1>5 DEF StoreInv, DoneStays

\* A call that is not in its queue goes on: it ends at once, or returns.
LEMMA OutsideMove ==
  ASSUME StoreInv, NEW c \in Calls, NEW new \in CallStates, call' = [call EXCEPT ![c] = new],
         call[c].phase \in {"idle", "return"}, new.phase \in {"return", "done"},
         new.phase = "return" => new.process \in Processes,
         c \in lines \/ new.result = "stored" =>
           /\ call[c].result = new.result /\ new.action = call[c].action
           /\ new.decision = call[c].decision,
         lines' = lines, unended' = unended, torn' = torn, lock' = lock, owner' = owner,
         old' = old, abandoned' = abandoned, queue' = queue,
         faults' \in 0..MaxFaults, crashes' = crashes, stolen' = stolen
  PROVE  StoreInv' /\ DoneStays
<1>1. /\ call' \in [Calls -> CallStates] /\ call'[c] = new
      /\ \A d \in Calls : d # c => call'[d] = call[d]
  BY StoreFacts DEF StoreTypes
<1>2. StoreTypes'
  BY <1>1 DEF StoreInv, StoreTypes
<1>3. (\A d \in Calls : PlaceIsSound(d)') /\ \A p \in Processes : QueueIsSound(p)'
  BY <1>1, QueueUntouched DEF Active
<1>4. ASSUME NEW d \in Calls PROVE CallIsSound(d)'
  BY <1>1, StoreFacts DEF CallIsSound, Active, After
<1>5. /\ Taken \subseteq Calls /\ Taken' \subseteq Taken /\ lines \subseteq Taken'
      /\ \A d \in Taken' : call'[d].action = call[d].action
  BY <1>1, StoreFacts DEF FileTypes, Taken
<1>6. LinesAreSound'
  <2>1. stolen = FALSE => \A d, e \in Taken : call[d].action = call[e].action => d = e
    BY StoreFacts DEF LinesAreSound
  <2>2. ASSUME stolen = FALSE, NEW d \in Taken', NEW e \in Taken', call'[d].action = call'[e].action
        PROVE  d = e
    BY <1>5, <2>1, <2>2
  <2> QED
    BY <2>2, Zenon DEF LinesAreSound
<1>7. ASSUME NEW d \in Calls PROVE ClaimIsSound(d)'
  <2>1. ClaimIsSound(d)
    BY StoreFacts
  <2>2. CASE d = c
    BY <1>1, <1>5, <2>1, <2>2 DEF ClaimIsSound, Claiming, Owning
  <2>3. CASE d # c
    BY <1>1, <1>5, <2>1, <2>3 DEF ClaimIsSound, Claiming, Owning
  <2> QED
    BY <2>2, <2>3
<1>8. DoneStays
  BY <1>1 DEF DoneStays
<1> QED
  BY <1>2, <1>3, <1>4, <1>6, <1>7, <1>8, Zenon DEF StoreInv

\* What is left of a call: its receipt when that may be stored.
LEMMA EndedTypes ==
  ASSUME StoreTypes, NEW c \in Calls, NEW phase \in Phases, NEW found
  PROVE  /\ Ended(c, phase, found) \in CallStates /\ Ended(c, phase, found).phase = phase
         /\ Ended(c, phase, found).result = call[c].result
         /\ c \in found \/ call[c].result = "stored" =>
              /\ Ended(c, phase, found).action = call[c].action
              /\ Ended(c, phase, found).decision = call[c].decision
<1>1. call[c] \in CallStates /\ call[c].result \in Results
  BY CallTypes
<1>2. CASE c \in found \/ call[c].result = "stored"
  <2> DEFINE new == [call[c] EXCEPT !.phase = phase]
  <2>1. Ended(c, phase, found) = new
    BY <1>2 DEF Ended
  <2>2. /\ new \in CallStates /\ new.phase = phase /\ new.result = call[c].result
        /\ new.action = call[c].action /\ new.decision = call[c].decision
    BY <1>1 DEF CallStates
  <2> QED
    BY <2>1, <2>2
<1>3. CASE ~(c \in found \/ call[c].result = "stored")
  <2> DEFINE new == [NewCall EXCEPT !.phase = phase, !.result = call[c].result]
  <2>1. Ended(c, phase, found) = new
    BY <1>3 DEF Ended
  <2>2. new \in CallStates /\ new.phase = phase /\ new.result = call[c].result
    BY <1>1 DEF CallStates, Results, NewCall
  <2> QED
    BY <1>3, <2>1, <2>2
<1> QED
  BY <1>2, <1>3

\* No line changes and no call comes to answer "stored".
NothingTaken ==
  lines' = lines /\ \A d \in Calls : call'[d].result = "stored" => call[d].result = "stored"

LEMMA CrashStoreLemma ==
  ASSUME StoreInv, NEW p \in Processes, CrashStore(p)
  PROVE  StoreInv' /\ DoneStays /\ (stolen = FALSE /\ torn # {} => NothingTaken)
<1> DEFINE mine == {c \in Calls : call[c].process = p /\ call[c].phase # "done"}
<1>1. /\ crashes < MaxCrashes /\ crashes' = crashes + 1
      /\ call' = [c \in Calls |-> IF c \in mine THEN Ended(c, "dead", lines') ELSE call[c]]
      /\ \/ lines' = lines /\ unended' = unended /\ torn' = torn
         \/ \E e \in mine, written \in Extents : call[e].phase = "append" /\ Lands(e, written)
      /\ queue' = [queue EXCEPT ![p] = <<>>]
      /\ lock' = lock /\ owner' = owner /\ old' = old
      /\ abandoned' = (abandoned \/ \E c \in mine : lock = c /\ Claims(c))
      /\ faults' = faults /\ stolen' = stolen
  BY DEF CrashStore, At, files
<1>2. \A d \in Calls : /\ Ended(d, "dead", lines') \in CallStates
                       /\ Ended(d, "dead", lines').phase = "dead"
                       /\ Ended(d, "dead", lines').result = call[d].result
                       /\ d \in lines' \/ call[d].result = "stored" =>
                            /\ Ended(d, "dead", lines').action = call[d].action
                            /\ Ended(d, "dead", lines').decision = call[d].decision
  <2>1. StoreTypes /\ "dead" \in Phases
    BY StoreFacts DEF Phases
  <2>2. PICK found : found = lines'
    OBVIOUS
  <2> QED
    BY <2>1, <2>2, EndedTypes
<1>3. /\ \A d \in Calls : d \notin mine => call'[d] = call[d]
      /\ \A d \in Calls : d \in mine => call'[d] = Ended(d, "dead", lines')
      /\ call' \in [Calls -> CallStates]
  <2>1. call \in [Calls -> CallStates]
    BY StoreFacts DEF StoreTypes
  <2> QED
    BY <1>1, <1>2, <2>1
<1>4. /\ \A d \in Calls : d \in mine => call'[d].phase = "dead"
      /\ \A d \in Calls : call'[d].result = call[d].result
      /\ \A d \in Calls : d \in lines' \/ call[d].result = "stored" =>
           call'[d].action = call[d].action /\ call'[d].decision = call[d].decision
  BY <1>2, <1>3
<1>5. \A d \in Calls : d \in mine <=> call[d].process = p /\ call[d].phase # "done"
  OBVIOUS
<1>6. mine \subseteq Calls
  OBVIOUS
<1> HIDE DEF mine
<1>7. \/ lines' = lines /\ unended' = unended /\ torn' = torn
      \/ \E e \in mine :
           /\ call[e].phase = "append"
           /\ lines' \subseteq lines \cup {e} /\ unended' \subseteq lines' /\ torn' \subseteq Tasks
           /\ \A d \in lines : d \in lines' \/ torn' # {}
           /\ stolen = FALSE => /\ lock = e /\ torn = {}
                               /\ \A d \in lines : call[d].action # call[e].action
  <2>1. ASSUME NEW e \in mine, NEW written \in Extents, call[e].phase = "append",
               Lands(e, written)
        PROVE  /\ lines' \subseteq lines \cup {e} /\ unended' \subseteq lines' /\ torn' \subseteq Tasks
               /\ \A d \in lines : d \in lines' \/ torn' # {}
               /\ stolen = FALSE => /\ lock = e /\ torn = {}
                                   /\ \A d \in lines : call[d].action # call[e].action
    <3>1. e \in Calls /\ call[e].action \in Actions
      BY <1>6, <2>1, StoreFacts DEF CallIsSound, Active
    <3>2. ClaimIsSound(e) /\ FileTypes
      BY <3>1, StoreFacts
    <3> QED
      BY <2>1, <3>1, <3>2, LandsInFiles DEF ClaimIsSound, Claiming
  <2> QED
    BY <1>1, <2>1
<1>7a. /\ lines' \subseteq lines \cup mine /\ unended' \subseteq lines' /\ torn' \subseteq Tasks
       /\ \A d \in lines : d \in lines' \/ torn' # {} \/ torn # {}
       /\ stolen = FALSE /\ torn # {} => lines' = lines /\ torn' = torn
  BY <1>7, StoreFacts DEF FileTypes
<1>8. DoneStays
  BY <1>3, <1>5 DEF DoneStays
<1>9. ASSUME NEW d \in Calls PROVE CallIsSound(d)'
  <2>1. CallIsSound(d)
    BY StoreFacts
  <2>2. CASE d \in mine
    BY <1>1, <1>4, <2>1, <2>2 DEF CallIsSound, Active, After
  <2>3. CASE d \notin mine
    BY <1>1, <1>3, <1>7a, <2>1, <2>3 DEF CallIsSound
  <2> QED
    BY <2>2, <2>3
<1>10. /\ queue \in [Processes -> Seq(Calls)] /\ queue' \in [Processes -> Seq(Calls)]
       /\ queue'[p] = <<>> /\ \A o \in Processes : o # p => queue'[o] = queue[o]
  <2>1. queue \in [Processes -> Seq(Calls)] /\ <<>> \in Seq(Calls)
    BY StoreFacts DEF StoreTypes
  <2> QED
    BY <1>1, <2>1
<1>11. crashes' \in 0..MaxCrashes
  BY <1>1, StoreFacts, ReceiptStoreAssumption DEF FileTypes
<1>12. StoreTypes'
  <2>1. FileTypes'
    <3>1. abandoned' \in BOOLEAN /\ (lock = NoCall => abandoned' = FALSE)
      <4>1. lock = NoCall => abandoned = FALSE /\ \A e \in mine : lock # e
        BY <1>6, StoreFacts, NoCallIsNone DEF FileTypes
      <4> QED
        BY <1>1, <4>1, StoreFacts, Zenon DEF FileTypes
    <3>2. lines' \subseteq Calls
      BY <1>6, <1>7a, StoreFacts DEF FileTypes
    <3> QED
      BY <1>1, <1>11, <1>7a, <3>1, <3>2, StoreFacts DEF FileTypes
  <2> QED
    BY <1>3, <1>10, <2>1, Zenon DEF StoreTypes, FileTypes
<1>13. ASSUME NEW o \in Processes PROVE QueueIsSound(o)'
  <2>1. CASE o = p
    BY <1>10, <2>1 DEF QueueIsSound
  <2>2. CASE o # p
    <3>1. QueueIsSound(o) /\ queue'[o] = queue[o]
      BY <1>10, <2>2 DEF StoreInv
    <3>2. \A k \in 1..Len(queue[o]) : queue[o][k] \in Calls
      BY <1>10
    <3>3. \A k \in 1..Len(queue[o]) : call'[queue[o][k]] = call[queue[o][k]]
      BY <1>3, <1>5, <2>2, <3>1, <3>2 DEF QueueIsSound
    <3> QED
      BY <3>1, <3>3 DEF QueueIsSound
  <2> QED
    BY <2>1, <2>2
<1>14. ASSUME NEW d \in Calls PROVE PlaceIsSound(d)'
  <2>1. CASE call'[d].phase \notin Active
    BY <2>1 DEF PlaceIsSound
  <2>2. CASE call'[d].phase \in Active
    <3>1. d \notin mine
      BY <1>4, <2>2 DEF Active
    <3>2. call'[d] = call[d] /\ call[d].process # p /\ call[d].phase \in Active
      BY <1>3, <1>5, <2>2, <3>1 DEF Active
    <3>3. PlaceIsSound(d) /\ call[d].process \in Processes
      BY <3>2 DEF StoreInv, CallIsSound
    <3>4. queue'[call[d].process] = queue[call[d].process]
      BY <1>10, <3>2, <3>3
    <3> QED
      BY <3>2, <3>3, <3>4 DEF PlaceIsSound
  <2> QED
    BY <2>1, <2>2
<1>15. LinesAreSound'
  <2> SUFFICES ASSUME stolen = FALSE, NEW d \in Taken', NEW e \in Taken',
                      call'[d].action = call'[e].action
               PROVE  d = e
    BY <1>1 DEF LinesAreSound
  <2>1. d \in Calls /\ e \in Calls /\ call[d].action = call[e].action
    BY <1>4, <1>6, <1>7a, StoreFacts DEF Taken, FileTypes
  <2>2. CASE lines' = lines
    BY <1>4, <2>1, <2>2, StoreFacts DEF Taken, LinesAreSound
  <2>3. ASSUME NEW a \in mine, torn = {}, lines' \subseteq lines \cup {a},
               \A l \in lines : call[l].action # call[a].action
        PROVE  d = e
    <3>1. (d # a => d \in lines) /\ (e # a => e \in lines)
      BY <1>4, <2>1, <2>3, StoreFacts DEF Taken, ClaimIsSound
    <3>2. lines \subseteq Taken
      BY DEF Taken
    <3> QED
      BY <2>1, <2>3, <3>1, <3>2, StoreFacts DEF LinesAreSound
  <2> QED
    BY <1>7, <2>2, <2>3
<1>16. ASSUME NEW d \in Calls PROVE ClaimIsSound(d)'
  <2>1. ClaimIsSound(d) /\ lines \subseteq Calls
    BY StoreFacts DEF FileTypes
  <2>4. stolen = FALSE /\ call[d].result = "stored" => d \in lines' \/ torn' # {}
    BY <1>7a, <2>1 DEF ClaimIsSound
  <2>5. /\ abandoned = TRUE => abandoned' = TRUE
        /\ d \in mine /\ lock = d => abandoned' = TRUE
    <3>1. lock = d => Claims(d) \/ abandoned = TRUE
      BY <2>1 DEF ClaimIsSound, Claims, Claiming
    <3> QED
      BY <1>1, <3>1, Zenon
  <2>2. CASE d \in mine
    BY <1>1, <1>4, <2>1, <2>2, <2>4, <2>5 DEF ClaimIsSound, Claiming, Owning
  <2>3. CASE d \notin mine
    <3>1. call'[d] = call[d]
      BY <1>3, <2>3
    <3>2. stolen = FALSE /\ call[d].phase = "append" => torn' = {} /\ lines' = lines
      <4>1. stolen = FALSE /\ call[d].phase = "append" => lock = d /\ torn = {}
        BY <2>1 DEF ClaimIsSound, Claiming
      <4> QED
        BY <1>7, <2>3, <4>1
    <3>3. \A e \in lines' : call'[e].action = call[e].action
      BY <1>4, <1>6, <1>7a, <2>1
    <3> QED
      BY <1>1, <2>1, <2>4, <2>5, <3>1, <3>2, <3>3 DEF ClaimIsSound
  <2> QED
    BY <2>2, <2>3
<1>17. stolen = FALSE /\ torn # {} => NothingTaken
  BY <1>4, <1>7a DEF NothingTaken
<1> QED
  BY <1>8, <1>9, <1>12, <1>13, <1>14, <1>15, <1>16, <1>17, Zenon DEF StoreInv

-----------------------------------------------------------------------------
(* The client                                                              *)

LEMMA QueueIsThis ==
  ASSUME NEW p \in Processes, NEW q \in Seq(Calls), queue'[p] = q,
         \A k \in 1..Len(q) : call'[q[k]].process = p /\ call'[q[k]].phase \in Active,
         \A j, k \in 1..Len(q) : q[j] = q[k] => j = k
  PROVE  QueueIsSound(p)'
BY DEF QueueIsSound

\* A call of consume is queued behind the others of its process.
LEMMA QueueJoined ==
  ASSUME StoreInv, NEW c \in Calls, NEW p \in Processes, NEW new \in CallStates,
         call' = [call EXCEPT ![c] = new], call[c].phase = "idle", new.phase = "queued",
         new.process = p, new.action \in Actions, new.decision \in Decisions, new.result = "none",
         queue' = [queue EXCEPT ![p] = Append(@, c)],
         lines' = lines, unended' = unended, torn' = torn, lock' = lock, owner' = owner,
         old' = old, abandoned' = abandoned,
         faults' \in 0..MaxFaults, crashes' = crashes, stolen' = stolen
  PROVE  StoreInv' /\ DoneStays
<1>1. /\ call' \in [Calls -> CallStates] /\ call'[c] = new
      /\ \A d \in Calls : d # c => call'[d] = call[d]
  BY StoreFacts DEF StoreTypes
<1> DEFINE s == queue[p]
           t == Append(s, c)
<1>2. queue \in [Processes -> Seq(Calls)] /\ s \in Seq(Calls)
  BY StoreFacts DEF StoreTypes
<1>3. queue' = [queue EXCEPT ![p] = t]
  OBVIOUS
<1>4. /\ t \in Seq(Calls) /\ Len(t) = Len(s) + 1 /\ Len(s) \in Nat /\ t[Len(s) + 1] = c
      /\ \A k \in 1..Len(s) : t[k] = s[k]
  BY <1>2
<1> HIDE DEF t
<1>5. /\ queue' \in [Processes -> Seq(Calls)] /\ queue'[p] = t
      /\ \A o \in Processes : o # p => queue'[o] = queue[o]
  BY <1>2, <1>3, <1>4
<1>6. /\ \A o \in Processes : \A k \in 1..Len(queue[o]) :
           /\ queue[o][k] \in Calls /\ call[queue[o][k]].process = o
           /\ call[queue[o][k]].phase \in Active
  BY <1>2 DEF StoreInv, QueueIsSound
<1>7. \A o \in Processes : \A k \in 1..Len(queue[o]) :
        queue[o][k] # c /\ call'[queue[o][k]] = call[queue[o][k]]
  BY <1>1, <1>6 DEF Active
<1>8. QueueIsSound(p)'
  <2>1. \A j, k \in 1..Len(s) : s[j] = s[k] => j = k
    BY DEF StoreInv, QueueIsSound
  <2>2. \A k \in 1..Len(s) : /\ s[k] # c /\ call'[s[k]].process = p
                             /\ call'[s[k]].phase \in Active
    BY <1>6, <1>7
  <2> HIDE DEF s
  <2>3. \A k \in 1..Len(t) : call'[t[k]].process = p /\ call'[t[k]].phase \in Active
    <3>1. ASSUME NEW k \in 1..Len(t) PROVE call'[t[k]].process = p /\ call'[t[k]].phase \in Active
      <4>1. CASE k = Len(s) + 1
        BY <1>1, <1>4, <4>1 DEF Active
      <4>2. CASE k # Len(s) + 1
        <5>1. k \in 1..Len(s)
          BY <1>4, <4>2
        <5> QED
          BY <1>4, <2>2, <5>1
      <4> QED
        BY <4>1, <4>2
    <3> QED
      BY <3>1
  <2>4. \A j, k \in 1..Len(t) : t[j] = t[k] => j = k
    BY <1>4, <2>1, <2>2
  <2> QED
    BY <1>4, <1>5, <2>3, <2>4, QueueIsThis
<1>9. ASSUME NEW o \in Processes, o # p PROVE QueueIsSound(o)'
  <2>1. queue'[o] = queue[o] /\ QueueIsSound(o)
    BY <1>5, <1>9 DEF StoreInv
  <2>2. PICK q \in Seq(Calls) : q = queue[o]
    BY <1>2
  <2>3. /\ \A k \in 1..Len(q) : call'[q[k]].process = o /\ call'[q[k]].phase \in Active
        /\ \A j, k \in 1..Len(q) : q[j] = q[k] => j = k
    BY <1>6, <1>7, <2>1, <2>2 DEF QueueIsSound
  <2>4. queue'[o] = q
    BY <2>1, <2>2
  <2> QED
    BY <2>3, <2>4, QueueIsThis
<1>10. ASSUME NEW d \in Calls PROVE PlaceIsSound(d)'
  <2>1. CASE d = c
    <3>1. Len(s) + 1 \in 1..Len(t)
      BY <1>4
    <3> QED
      BY <1>1, <1>4, <1>5, <2>1, <3>1 DEF PlaceIsSound
  <2>2. CASE d # c /\ call[d].phase \notin Active
    BY <1>1, <2>2 DEF PlaceIsSound
  <2>3. CASE d # c /\ call[d].phase \in Active
    <3>1. call'[d] = call[d] /\ call[d].process \in Processes
      BY <1>1, <2>3, StoreFacts DEF CallIsSound
    <3>2. PICK k \in 1..Len(queue[call[d].process]) :
            queue[call[d].process][k] = d /\ (call[d].phase # "queued" => k = 1)
      BY <2>3 DEF StoreInv, PlaceIsSound
    <3>3. CASE call[d].process # p
      BY <1>5, <3>1, <3>2, <3>3 DEF PlaceIsSound
    <3>4. CASE call[d].process = p
      <4>1. k \in 1..Len(t) /\ t[k] = d
        BY <1>4, <3>2, <3>4
      <4> QED
        BY <1>5, <3>1, <3>2, <3>4, <4>1 DEF PlaceIsSound
    <3> QED
      BY <3>3, <3>4
  <2> QED
    BY <2>1, <2>2, <2>3
<1>11. c \notin lines
  BY StoreFacts DEF CallIsSound, After
<1>12. ASSUME NEW d \in Calls PROVE CallIsSound(d)'
  BY <1>1, <1>11, StoreFacts DEF CallIsSound, Active
<1>13. /\ Taken \subseteq Calls /\ Taken' \subseteq Taken \ {c} /\ lines \subseteq Calls \ {c}
       /\ \A d \in Calls : d # c => call'[d].action = call[d].action
  BY <1>1, <1>11, StoreFacts DEF FileTypes, Taken
<1>14. LinesAreSound'
  <2>1. stolen = FALSE => \A d, e \in Taken : call[d].action = call[e].action => d = e
    BY StoreFacts DEF LinesAreSound
  <2>2. ASSUME stolen = FALSE, NEW d \in Taken', NEW e \in Taken', call'[d].action = call'[e].action
        PROVE  d = e
    BY <1>13, <2>1, <2>2
  <2> QED
    BY <2>2, Zenon DEF LinesAreSound
<1>15. ASSUME NEW d \in Calls PROVE ClaimIsSound(d)'
  <2>1. ClaimIsSound(d)
    BY StoreFacts
  <2>2. CASE d = c
    BY <1>1, <1>13, <2>1, <2>2 DEF ClaimIsSound, Claiming, Owning
  <2>3. CASE d # c
    BY <1>1, <1>13, <2>1, <2>3 DEF ClaimIsSound, Claiming, Owning
  <2> QED
    BY <2>2, <2>3
<1>16. StoreTypes'
  <2>1. FileTypes'
    BY StoreFacts DEF FileTypes
  <2> QED
    BY <1>1, <1>5, <2>1, Zenon DEF StoreTypes, FileTypes
<1>17. DoneStays
  BY <1>1 DEF DoneStays
<1> QED
  BY <1>8, <1>9, <1>10, <1>12, <1>14, <1>15, <1>16, <1>17, Zenon DEF StoreInv

\* What a call of consume has earned is never lost.
LEMMA EarnedStays ==
  ASSUME DoneStays, NEW r, Earned(r)
  PROVE  Earned(r)'
<1>1. PICK c \in Calls : /\ call[c].phase = "done" /\ call[c].result = "stored"
                         /\ ReceiptOf(c) = r
  BY DEF Earned
<1>2. call'[c] = call[c]
  BY <1>1 DEF DoneStays
<1>3. ReceiptOf(c)' = r
  BY <1>1, <1>2 DEF ReceiptOf
<1> QED
  BY <1>1, <1>2, <1>3 DEF Earned

Running == {"attempt", "execute", "close", "evidence", "recordFailure"}

\* A dispatch does not change while its proof is kept.
LEMMA DispatchStays ==
  ASSUME DoneStays, NEW x \in Dispatches, DispatchIsSound(x),
         dispatch'[x] = dispatch[x], audit'[x] = audit[x],
         x \in executed' <=> x \in executed, x \in evidence' <=> x \in evidence,
         dispatch[x].phase \in Running =>
           dispatch[x].receipt \in proofs'[dispatch[x].process]
  PROVE  DispatchIsSound(x)'
<1>1. PICK r : r = dispatch[x].receipt
  OBVIOUS
<1>2. dispatch[x].phase # "idle" => Earned(r)'
  BY <1>1, EarnedStays DEF DispatchIsSound
<1>3. /\ dispatch[x].phase # "idle" => Earned(dispatch[x].receipt)'
      /\ HasEvidence(x)' <=> HasEvidence(x)
  BY <1>1, <1>2 DEF Earned, HasEvidence
<1> QED
  BY <1>3 DEF DispatchIsSound, Running

LEMMA HostFacts ==
  ASSUME HostInv
  PROVE  /\ HostTypes
         /\ \A p \in Processes : ProofIsEarned(p)
         /\ \A x \in Dispatches : DispatchIsSound(x)
BY DEF HostInv

\* The store goes on, and nothing changes in the hosts.
LEMMA HostStays ==
  ASSUME HostInv, DoneStays, hostVars' = hostVars
  PROVE  HostInv'
<1>1. /\ client' = client /\ proofs' = proofs /\ documents' = documents /\ dispatch' = dispatch
      /\ audit' = audit /\ evidence' = evidence /\ executed' = executed /\ issued' = issued
      /\ storeless' = storeless
  BY DEF hostVars, journal
<1>2. HostTypes'
  BY <1>1, HostFacts DEF HostTypes
<1>3. ASSUME NEW p \in Processes PROVE ProofIsEarned(p)'
  BY <1>1, HostFacts, EarnedStays DEF ProofIsEarned
<1>4. ASSUME NEW x \in Dispatches PROVE DispatchIsSound(x)'
  <2>1. DispatchIsSound(x)
    BY HostFacts
  <2>2. dispatch[x].phase \in Running => dispatch[x].receipt \in proofs'[dispatch[x].process]
    BY <1>1, <2>1 DEF DispatchIsSound, Running
  <2> QED
    BY <1>1, <2>1, <2>2, DispatchStays
<1> QED
  BY <1>2, <1>3, <1>4, Zenon DEF HostInv

LEMMA StoreStays ==
  ASSUME StoreInv, storeVars' = storeVars
  PROVE  StoreInv' /\ DoneStays
<1>1. /\ lines' = lines /\ unended' = unended /\ torn' = torn /\ lock' = lock
      /\ owner' = owner /\ old' = old /\ abandoned' = abandoned
      /\ call' = call /\ queue' = queue /\ faults' = faults /\ crashes' = crashes
      /\ stolen' = stolen
  BY DEF storeVars, directory, files
<1>2. (\A d \in Calls : PlaceIsSound(d)') /\ \A p \in Processes : QueueIsSound(p)'
  BY <1>1, QueueUntouched
<1>3. StoreTypes'
  BY <1>1 DEF StoreInv, StoreTypes
<1>4. \A d \in Calls : CallIsSound(d)' /\ ClaimIsSound(d)'
  BY <1>1, StoreFacts DEF CallIsSound, ClaimIsSound
<1>5. LinesAreSound'
  BY <1>1, StoreFacts DEF LinesAreSound, Taken
<1> QED
  BY <1>1, <1>2, <1>3, <1>4, <1>5 DEF StoreInv, DoneStays

LEMMA SinkLemma ==
  ASSUME StoreInv, SinkFails
  PROVE  StoreInv' /\ DoneStays
<1>1. /\ lines' = lines /\ unended' = unended /\ torn' = torn /\ lock' = lock
      /\ owner' = owner /\ old' = old /\ abandoned' = abandoned
      /\ call' = call /\ queue' = queue /\ Fault /\ crashes' = crashes
      /\ stolen' = stolen
  BY DEF SinkFails, directory, files
<1>2. faults' \in 0..MaxFaults
  BY <1>1, StoreFacts, FaultCounts
<1>3. (\A d \in Calls : PlaceIsSound(d)') /\ \A p \in Processes : QueueIsSound(p)'
  BY <1>1, QueueUntouched
<1>4. StoreTypes'
  BY <1>1, <1>2 DEF StoreInv, StoreTypes
<1>5. \A d \in Calls : CallIsSound(d)' /\ ClaimIsSound(d)'
  BY <1>1, <1>2, StoreFacts DEF CallIsSound, ClaimIsSound
<1>6. LinesAreSound'
  BY <1>1, StoreFacts DEF LinesAreSound, Taken
<1> QED
  BY <1>1, <1>3, <1>4, <1>5, <1>6 DEF StoreInv, DoneStays

\* The client changes, and nothing that a dispatch depends on.
LEMMA ClientMoves ==
  ASSUME StoreInv, HostInv, storeVars' = storeVars, client' \in [Processes -> Clients],
         proofs' = proofs, documents' \subseteq Documents, dispatch' = dispatch,
         journal' = journal, issued' \subseteq Actions, storeless' = storeless
  PROVE  StoreInv' /\ HostInv'
<1>1. StoreInv' /\ DoneStays
  BY StoreStays
<1>2. audit' = audit /\ evidence' = evidence /\ executed' = executed
  BY DEF journal
<1>3. HostTypes'
  BY <1>2, HostFacts DEF HostTypes
<1>4. ASSUME NEW p \in Processes PROVE ProofIsEarned(p)'
  BY <1>1, HostFacts, EarnedStays DEF ProofIsEarned
<1>5. ASSUME NEW x \in Dispatches PROVE DispatchIsSound(x)'
  <2>1. DispatchIsSound(x)
    BY HostFacts
  <2>2. dispatch[x].phase \in Running => dispatch[x].receipt \in proofs'[dispatch[x].process]
    BY <2>1 DEF DispatchIsSound, Running
  <2> QED
    BY <1>1, <1>2, <2>1, <2>2, DispatchStays
<1> QED
  BY <1>1, <1>3, <1>4, <1>5, Zenon DEF HostInv

LEMMA CaptureActionLemma ==
  ASSUME StoreInv, HostInv, NEW p \in Processes, NEW a \in Actions \cup {NoAction},
         CaptureAction(p, a)
  PROVE  StoreInv' /\ HostInv'
<1> DEFINE new == [NewClient EXCEPT !.action = a]
<1>1. /\ client' = [client EXCEPT ![p] = new] /\ issued' = issued \cup ({a} \ {NoAction})
      /\ storeVars' = storeVars /\ proofs' = proofs /\ documents' = documents
      /\ dispatch' = dispatch /\ journal' = journal /\ storeless' = storeless
  BY DEF CaptureAction
<1>2. new \in Clients
  BY DEF Clients, NewClient, NoConsumption, Consumptions
<1> HIDE DEF new
<1>3. client' \in [Processes -> Clients] /\ issued' \subseteq Actions /\ documents' \subseteq Documents
  BY <1>1, <1>2, HostFacts DEF HostTypes
<1> QED
  BY <1>1, <1>3, ClientMoves

LEMMA CreateReceiptLemma ==
  ASSUME StoreInv, HostInv, NEW p \in Processes, CreateReceipt(p)
  PROVE  StoreInv' /\ HostInv'
<1> DEFINE new == [client[p] EXCEPT !.consumption = NoConsumption]
<1>1. /\ client' = [client EXCEPT ![p] = new] /\ issued' = issued
      /\ storeVars' = storeVars /\ proofs' = proofs /\ documents' = documents
      /\ dispatch' = dispatch /\ journal' = journal /\ storeless' = storeless
  BY DEF CreateReceipt
<1>2. new \in Clients
  BY HostFacts DEF HostTypes, Clients, NoConsumption, Consumptions
<1> HIDE DEF new
<1>3. client' \in [Processes -> Clients] /\ issued' \subseteq Actions /\ documents' \subseteq Documents
  BY <1>1, <1>2, HostFacts DEF HostTypes
<1> QED
  BY <1>1, <1>3, ClientMoves

LEMMA IssueLemma ==
  ASSUME StoreInv, HostInv, NEW document \in Documents, Issue(document)
  PROVE  StoreInv' /\ HostInv'
<1>1. /\ client' = client /\ issued' = issued /\ documents' = documents \cup {document}
      /\ storeVars' = storeVars /\ proofs' = proofs
      /\ dispatch' = dispatch /\ journal' = journal /\ storeless' = storeless
  BY DEF Issue
<1>2. client' \in [Processes -> Clients] /\ issued' \subseteq Actions /\ documents' \subseteq Documents
  BY <1>1, HostFacts DEF HostTypes
<1> QED
  BY <1>1, <1>2, ClientMoves

LEMMA ReviewLemma ==
  ASSUME StoreInv, HostInv, NEW p \in Processes, NEW r \in Receipts,
         PlanExecution(p, r) \/ AuthorizeHostExecutorReview(p, r)
  PROVE  StoreInv' /\ HostInv'
<1>1. Document("gate", r) \in Documents /\ Document("authorization", r) \in Documents
  BY DEF Document, Documents
<1>2. Issue(Document("gate", r)) \/ Issue(Document("authorization", r))
  BY DEF PlanExecution, AuthorizeHostExecutorReview
<1> QED
  BY <1>1, <1>2, IssueLemma

LEMMA BeginConsumeLemma ==
  ASSUME StoreInv, HostInv, NEW c \in Calls, NEW p \in Processes, NEW r \in Receipts,
         NEW a \in Actions, BeginConsume(c, p, r, a)
  PROVE  StoreInv' /\ HostInv'
<1>1. /\ lines' = lines /\ unended' = unended /\ torn' = torn /\ lock' = lock
      /\ owner' = owner /\ old' = old /\ abandoned' = abandoned
      /\ faults' \in 0..MaxFaults /\ crashes' = crashes /\ stolen' = stolen /\ hostVars' = hostVars
      /\ call[c].phase = "idle"
  BY StoreFacts, FaultCounts DEF BeginConsume, At, directory, files, FileTypes
<1>2. c \notin lines
  BY <1>1, StoreFacts DEF CallIsSound, After
<1>3. PICK own \in BOOLEAN :
        LET begun == [NewCall EXCEPT !.process = p, !.current = own]
            end(result) == /\ call' = [call EXCEPT ![c] = [begun EXCEPT !.phase = "return",
                                                                       !.result = result]]
                           /\ UNCHANGED queue
        IN \/ end("invalid")
           \/ end("no_store")
           \/ end("failed")
           \/ /\ call' = [call EXCEPT ![c] = [begun EXCEPT !.phase = "queued", !.action = a,
                                                           !.decision = r.decision]]
              /\ queue' = [queue EXCEPT ![p] = Append(@, c)]
  BY DEF BeginConsume
<1> DEFINE begun == [NewCall EXCEPT !.process = p, !.current = own]
           ended(result) == [begun EXCEPT !.phase = "return", !.result = result]
           queued == [begun EXCEPT !.phase = "queued", !.action = a, !.decision = r.decision]
<1>4. \/ \E result \in {"invalid", "no_store", "failed"} :
           call' = [call EXCEPT ![c] = ended(result)] /\ queue' = queue
      \/ call' = [call EXCEPT ![c] = queued] /\ queue' = [queue EXCEPT ![p] = Append(@, c)]
  BY <1>3
<1>5. ASSUME NEW result \in {"invalid", "no_store", "failed"}
      PROVE  /\ ended(result) \in CallStates /\ ended(result).phase = "return"
             /\ ended(result).process = p /\ ended(result).result = result
  BY DEF NewCall, CallStates, Phases
<1>6. /\ queued \in CallStates /\ queued.phase = "queued" /\ queued.process = p
      /\ queued.action = a /\ queued.decision \in Decisions /\ queued.result = "none"
  BY DEF NewCall, CallStates, Phases, Receipts
<1> HIDE DEF ended, queued, begun
<1>7. ASSUME NEW result \in {"invalid", "no_store", "failed"},
             call' = [call EXCEPT ![c] = ended(result)], queue' = queue
      PROVE  StoreInv' /\ DoneStays
  <2>1. PICK new \in CallStates : /\ new = ended(result) /\ new.phase = "return"
                                  /\ new.process = p /\ new.result # "stored"
    BY <1>5, <1>7
  <2>2. call' = [call EXCEPT ![c] = new]
    BY <1>7, <2>1
  <2> QED
    BY <1>1, <1>2, <1>7, <2>1, <2>2, OutsideMove
<1>8. ASSUME call' = [call EXCEPT ![c] = queued], queue' = [queue EXCEPT ![p] = Append(@, c)]
      PROVE  StoreInv' /\ DoneStays
  BY <1>1, <1>6, <1>8, QueueJoined
<1>9. StoreInv' /\ DoneStays
  BY <1>4, <1>7, <1>8
<1> QED
  BY <1>1, <1>9, HostStays

LEMMA ReturnConsumptionLemma ==
  ASSUME StoreInv, HostInv, NEW c \in Calls, ReturnConsumption(c)
  PROVE  StoreInv' /\ HostInv'
<1>1. PICK p \in Processes : p = call[c].process
  BY StoreFacts DEF ReturnConsumption, At, CallIsSound
<1>2. PICK r : r = ReceiptOf(c)
  OBVIOUS
<1>3. /\ lines' = lines /\ unended' = unended /\ torn' = torn /\ lock' = lock
      /\ owner' = owner /\ old' = old /\ abandoned' = abandoned
      /\ queue' = queue /\ faults' = faults /\ crashes' = crashes /\ stolen' = stolen
      /\ call[c].phase = "return" /\ call' = [call EXCEPT ![c] = Ended(c, "done", lines)]
      /\ documents' = documents /\ dispatch' = dispatch /\ issued' = issued
      /\ audit' = audit /\ evidence' = evidence /\ executed' = executed
      /\ storeless' = storeless
  BY DEF ReturnConsumption, At, directory, files, journal, Forget
<1>4. proofs' = [proofs EXCEPT ![p] = @ \cup (IF call[c].result = "stored" THEN {r} ELSE {})]
  BY <1>1, <1>2 DEF ReturnConsumption, Passed
<1>5. PICK new \in CallStates :
        /\ new = Ended(c, "done", lines) /\ new.phase = "done" /\ new.result = call[c].result
        /\ c \in lines \/ call[c].result = "stored" =>
             new.action = call[c].action /\ new.decision = call[c].decision
  <2>1. StoreTypes /\ "done" \in Phases
    BY StoreFacts DEF Phases
  <2> QED
    BY <2>1, EndedTypes
<1>6. call' = [call EXCEPT ![c] = new]
  BY <1>3, <1>5
<1>7. StoreInv' /\ DoneStays
  <2>1. faults' \in 0..MaxFaults
    BY <1>3, StoreFacts DEF FileTypes
  <2> QED
    BY <1>3, <1>5, <1>6, <2>1, OutsideMove
<1>8. call[c].result = "stored" => r \in Receipts /\ Earned(r)'
  <2>1. call'[c] = new
    BY <1>6, StoreFacts DEF StoreTypes
  <2>2. call[c].result = "stored" => ReceiptOf(c)' = r
    BY <1>2, <1>5, <2>1 DEF ReceiptOf
  <2>3. call[c].result = "stored" => r \in Receipts
    BY <1>2, StoreFacts DEF CallIsSound, ReceiptOf, Receipts
  <2> QED
    BY <1>5, <2>1, <2>2, <2>3 DEF Earned
<1>9. /\ proofs \in [Processes -> SUBSET Receipts] /\ proofs' \in [Processes -> SUBSET Receipts]
      /\ \A o \in Processes : proofs[o] \subseteq proofs'[o]
      /\ \A o \in Processes : \A q \in proofs'[o] :
           q \in proofs[o] \/ (q = r /\ call[c].result = "stored")
  <2>1. proofs \in [Processes -> SUBSET Receipts]
    BY HostFacts DEF HostTypes
  <2> QED
    BY <1>4, <1>8, <2>1
<1>10. client' \in [Processes -> Clients]
  <2> DEFINE status == IF call[c].result = "stored" THEN "passed"
                       ELSE IF call[c].result = "no_store" THEN "not_consumed" ELSE "blocked"
             con == IF call[c].result = "stored" THEN Consumption(r)
                    ELSE [NoConsumption EXCEPT !.status = status]
             upd == [client[p] EXCEPT !.consumption = con]
  <2>1. client' = client \/ client' = [client EXCEPT ![p] = upd]
    BY <1>1, <1>2 DEF ReturnConsumption, Passed
  <2>2. con \in Consumptions
    <3>1. call[c].result = "stored" => Consumption(r) \in Consumptions
      BY <1>8 DEF Consumption, Consumptions, Receipts
    <3>2. [NoConsumption EXCEPT !.status = status] \in Consumptions
      BY DEF NoConsumption, Consumptions
    <3> QED
      BY <3>1, <3>2
  <2> HIDE DEF con
  <2>3. client \in [Processes -> Clients]
    BY HostFacts DEF HostTypes
  <2>4. upd \in Clients
    BY <2>2, <2>3 DEF Clients
  <2> HIDE DEF upd
  <2> QED
    BY <2>1, <2>3, <2>4
<1>11. HostTypes'
  BY <1>3, <1>9, <1>10, HostFacts DEF HostTypes
<1>12. ASSUME NEW o \in Processes PROVE ProofIsEarned(o)'
  <2>1. ASSUME NEW q \in proofs'[o] PROVE Earned(q)'
    <3>1. CASE q \in proofs[o]
      BY <1>7, <3>1, HostFacts, EarnedStays DEF ProofIsEarned
    <3>2. CASE q = r /\ call[c].result = "stored"
      BY <1>8, <3>2
    <3> QED
      BY <1>9, <2>1, <3>1, <3>2
  <2> QED
    BY <2>1 DEF ProofIsEarned
<1>13. ASSUME NEW x \in Dispatches PROVE DispatchIsSound(x)'
  <2>1. DispatchIsSound(x)
    BY HostFacts
  <2>2. dispatch[x].phase \in Running => dispatch[x].receipt \in proofs'[dispatch[x].process]
    BY <1>9, <2>1 DEF DispatchIsSound, Running
  <2> QED
    BY <1>3, <1>7, <2>1, <2>2, DispatchStays
<1> QED
  BY <1>7, <1>11, <1>12, <1>13, Zenon DEF HostInv

-----------------------------------------------------------------------------
(* Dispatch                                                                *)

\* What every dispatch has at hand when it starts.
LEMMA DispatchIsReady ==
  ASSUME NEW p, NEW k, NEW r, MayDispatch(p, k, r)
  PROVE  /\ r \in proofs[p] /\ r.decision = "consumed"
         /\ k = "host" => client[p].action = r.action
<1>1. \/ k = "host" /\ MayDispatchHost(p, r)
      \/ k # "host" /\ AdapterIsReady(p, r)
  BY DEF MayDispatch, MayRunContract, MayDryRun, MayDryRunTaskControl, TaskControlIsAuthorized,
         DispatchIsAuthorized
<1> QED
  BY <1>1 DEF MayDispatchHost, CurrentlyLicensed, AdapterIsReady, LicensedBy, HasStoreProof

\* A dispatch goes on; the store only counts a failing sink.
LEMMA DispatchMove ==
  ASSUME StoreInv, HostInv, NEW x \in Dispatches, storeVars' = storeVars \/ SinkFails,
         client' = client, proofs' = proofs, documents' = documents, issued' = issued,
         storeless' = storeless, dispatch' \in [Dispatches -> DispatchStates],
         audit' \in [Dispatches -> SUBSET {"attempting", "completed", "failed"}],
         evidence' \subseteq evidence \cup {x}, evidence \subseteq evidence',
         executed' \subseteq executed \cup {x}, executed \subseteq executed',
         \A y \in Dispatches : y # x => dispatch'[y] = dispatch[y] /\ audit'[y] = audit[y],
         DoneStays => DispatchIsSound(x)'
  PROVE  StoreInv' /\ HostInv'
<1>1. StoreInv' /\ DoneStays
  BY StoreStays, SinkLemma
<1>2. HostTypes'
  BY HostFacts DEF HostTypes
<1>3. ASSUME NEW p \in Processes PROVE ProofIsEarned(p)'
  BY <1>1, HostFacts, EarnedStays DEF ProofIsEarned
<1>4. ASSUME NEW y \in Dispatches PROVE DispatchIsSound(y)'
  <2>1. CASE y = x
    BY <1>1, <2>1
  <2>2. CASE y # x
    <3>1. DispatchIsSound(y)
      BY HostFacts
    <3>2. dispatch[y].phase \in Running => dispatch[y].receipt \in proofs'[dispatch[y].process]
      BY <3>1 DEF DispatchIsSound, Running
    <3>3. /\ dispatch'[y] = dispatch[y] /\ audit'[y] = audit[y]
          /\ y \in executed' <=> y \in executed
          /\ y \in evidence' <=> y \in evidence
      BY <2>2
    <3> QED
      BY <1>1, <3>1, <3>2, <3>3, DispatchStays
  <2> QED
    BY <2>1, <2>2
<1> QED
  BY <1>1, <1>2, <1>3, <1>4, Zenon DEF HostInv

LEMMA StartDispatchLemma ==
  ASSUME StoreInv, HostInv, NEW x \in Dispatches, NEW p \in Processes, NEW k \in Kinds,
         NEW r \in Receipts, StartDispatch(x, p, k, r)
  PROVE  /\ StoreInv' /\ HostInv'
         /\ \A y \in Dispatches : y # x => dispatch'[y] = dispatch[y]
         /\ dispatch'[x].kind = "host" =>
              client[dispatch'[x].process].action = dispatch'[x].receipt.action
         /\ executed' = executed
<1>1. PICK dryRunMode \in BOOLEAN :
        dispatch' = [dispatch EXCEPT
                       ![x] = [phase |-> IF dryRunMode THEN "done" ELSE "attempt", kind |-> k,
                               process |-> p, receipt |-> r,
                               result |-> IF dryRunMode THEN "dry_run_ready" ELSE "none"]]
  BY DEF StartDispatch
<1>2. /\ dispatch[x].phase = "idle" /\ MayDispatch(p, k, r) /\ storeVars' = storeVars
      /\ client' = client /\ proofs' = proofs /\ documents' = documents /\ issued' = issued
      /\ storeless' = storeless /\ audit' = audit /\ evidence' = evidence /\ executed' = executed
  BY DEF StartDispatch, journal
<1> DEFINE new == [phase |-> IF dryRunMode THEN "done" ELSE "attempt", kind |-> k,
                   process |-> p, receipt |-> r,
                   result |-> IF dryRunMode THEN "dry_run_ready" ELSE "none"]
<1>3. /\ new \in DispatchStates /\ new.kind = k /\ new.process = p /\ new.receipt = r
      /\ \/ new.phase = "done" /\ new.result = "dry_run_ready"
         \/ new.phase = "attempt" /\ new.result = "none"
  BY DEF DispatchStates, DispatchPhases
<1>4. dispatch' = [dispatch EXCEPT ![x] = new]
  BY <1>1
<1> HIDE DEF new
<1>5. /\ dispatch' \in [Dispatches -> DispatchStates] /\ dispatch'[x] = new
      /\ \A y \in Dispatches : y # x => dispatch'[y] = dispatch[y]
  BY <1>3, <1>4, HostFacts DEF HostTypes
<1>6. /\ r \in proofs[p] /\ r.decision = "consumed"
      /\ k = "host" => client[p].action = r.action
  BY <1>2, DispatchIsReady
<1>7. ASSUME DoneStays PROVE DispatchIsSound(x)'
  <2>1. Earned(r)'
    BY <1>6, <1>7, HostFacts, EarnedStays DEF ProofIsEarned
  <2>2. Earned(dispatch[x].receipt)'
    BY <1>3, <1>5, <2>1 DEF Earned
  <2>3. DispatchIsSound(x)
    BY HostFacts
  <2>4. audit[x] = {} /\ x \notin executed /\ x \notin evidence
    BY <1>2, <2>3 DEF DispatchIsSound
  <2> QED
    BY <1>2, <1>3, <1>5, <1>6, <2>2, <2>4 DEF DispatchIsSound, HasEvidence
<1>8. audit' \in [Dispatches -> SUBSET {"attempting", "completed", "failed"}]
  BY <1>2, HostFacts DEF HostTypes
<1>9. StoreInv' /\ HostInv'
  BY <1>2, <1>5, <1>7, <1>8, DispatchMove
<1> QED
  BY <1>2, <1>3, <1>5, <1>6, <1>9

DispatchResults == {"none", "blocked", "failed", "completed", "dry_run_ready"}

\* Dispatch x, and no other, goes to a phase with a result.
DispatchMoved(x, phase, result) ==
  /\ dispatch' \in [Dispatches -> DispatchStates]
  /\ \A y \in Dispatches : y # x => dispatch'[y] = dispatch[y]
  /\ dispatch'[x].phase = phase /\ dispatch'[x].result = result
  /\ dispatch'[x].kind = dispatch[x].kind /\ dispatch'[x].process = dispatch[x].process
  /\ dispatch'[x].receipt = dispatch[x].receipt

LEMMA MoveMoves ==
  ASSUME HostInv, NEW x \in Dispatches, NEW phase \in DispatchPhases,
         NEW result \in DispatchResults, Move(x, phase, result)
  PROVE  DispatchMoved(x, phase, result)
<1> DEFINE new == [dispatch[x] EXCEPT !.phase = phase, !.result = result]
<1>1. dispatch' = [dispatch EXCEPT ![x] = new]
  BY DEF Move
<1>2. dispatch \in [Dispatches -> DispatchStates]
  BY HostFacts DEF HostTypes
<1>3. /\ new \in DispatchStates /\ new.phase = phase /\ new.result = result
      /\ new.kind = dispatch[x].kind /\ new.process = dispatch[x].process
      /\ new.receipt = dispatch[x].receipt
  <2>1. dispatch[x] \in DispatchStates
    BY <1>2
  <2> QED
    BY <2>1 DEF DispatchStates, DispatchResults
<1> HIDE DEF new
<1> QED
  BY <1>1, <1>2, <1>3 DEF DispatchMoved

LEMMA RecordTypes ==
  ASSUME HostInv, NEW x \in Dispatches, NEW event \in {"attempting", "completed", "failed"},
         Record(x, event)
  PROVE  /\ audit' \in [Dispatches -> SUBSET {"attempting", "completed", "failed"}]
         /\ audit'[x] = audit[x] \cup {event}
         /\ \A y \in Dispatches : y # x => audit'[y] = audit[y]
BY HostFacts DEF HostTypes, Record

\* A sink that fails has recorded the event, or has not.
LEMMA RecordFailsTypes ==
  ASSUME HostInv, NEW x \in Dispatches, NEW event \in {"attempting", "completed", "failed"},
         RecordFails(x, event)
  PROVE  /\ audit' \in [Dispatches -> SUBSET {"attempting", "completed", "failed"}]
         /\ audit'[x] = audit[x] \/ audit'[x] = audit[x] \cup {event}
         /\ \A y \in Dispatches : y # x => audit'[y] = audit[y]
<1>1. CASE audit' = audit
  BY <1>1, HostFacts DEF HostTypes
<1>2. CASE Record(x, event)
  BY <1>2, RecordTypes
<1> QED
  BY <1>1, <1>2 DEF RecordFails

\* The licence of a running dispatch, its kind and its receipt stay.
LEMMA LicenceStays ==
  ASSUME HostInv, DoneStays, NEW x \in Dispatches, dispatch[x].phase \in Running,
         NEW phase, NEW result, DispatchMoved(x, phase, result), proofs' = proofs
  PROVE  /\ dispatch[x].receipt \in Receipts /\ dispatch[x].receipt.decision = "consumed"
         /\ dispatch[x].process \in Processes /\ Earned(dispatch[x].receipt)'
         /\ dispatch[x].receipt \in proofs'[dispatch[x].process]
         /\ HasEvidence(x)' <=> HasEvidence(x)
<1>1. DispatchIsSound(x)
  BY HostFacts
<1>2. PICK r : r = dispatch[x].receipt
  OBVIOUS
<1>3. Earned(r)
  BY <1>1, <1>2 DEF DispatchIsSound, Running
<1>4. Earned(r)'
  BY <1>3, EarnedStays
<1>5. Earned(dispatch[x].receipt)' /\ (HasEvidence(x)' <=> HasEvidence(x))
  BY <1>2, <1>4 DEF Earned, HasEvidence, DispatchMoved
<1> QED
  BY <1>1, <1>5 DEF DispatchIsSound, Running

LEMMA AuditAttemptLemma ==
  ASSUME StoreInv, HostInv, NEW x \in Dispatches, AuditAttempt(x)
  PROVE  StoreInv' /\ HostInv'
<1>1. /\ dispatch[x].phase = "attempt"
      /\ storeVars' = storeVars \/ SinkFails
      /\ client' = client /\ proofs' = proofs /\ documents' = documents /\ issued' = issued
      /\ storeless' = storeless /\ evidence' = evidence /\ executed' = executed
      /\ \/ Record(x, "attempting") /\ Move(x, "execute", "none")
         \/ RecordFails(x, "attempting") /\ Move(x, "done", "blocked")
  BY DEF AuditAttempt, hostRest, RecordFails
<1>2. DispatchIsSound(x) /\ dispatch[x].phase \in Running /\ HostTypes
  BY <1>1, HostFacts DEF Running
<1>3. CASE Record(x, "attempting") /\ Move(x, "execute", "none")
  <2>1. DispatchMoved(x, "execute", "none")
    BY <1>3, MoveMoves DEF DispatchPhases, DispatchResults
  <2>2. /\ audit' \in [Dispatches -> SUBSET {"attempting", "completed", "failed"}]
        /\ audit'[x] = audit[x] \cup {"attempting"}
        /\ \A y \in Dispatches : y # x => audit'[y] = audit[y]
    BY <1>3, RecordTypes
  <2>3. ASSUME DoneStays PROVE DispatchIsSound(x)'
    BY <1>1, <1>2, <2>1, <2>2, <2>3, LicenceStays DEF DispatchIsSound, DispatchMoved
  <2> QED
    BY <1>1, <2>1, <2>2, <2>3, DispatchMove DEF DispatchMoved
<1>4. CASE RecordFails(x, "attempting") /\ Move(x, "done", "blocked")
  <2>1. DispatchMoved(x, "done", "blocked")
    BY <1>4, MoveMoves DEF DispatchPhases, DispatchResults
  <2>2. /\ audit' \in [Dispatches -> SUBSET {"attempting", "completed", "failed"}]
        /\ audit'[x] = audit[x] \/ audit'[x] = audit[x] \cup {"attempting"}
        /\ \A y \in Dispatches : y # x => audit'[y] = audit[y]
    BY <1>4, RecordFailsTypes
  <2>3. ASSUME DoneStays PROVE DispatchIsSound(x)'
    BY <1>1, <1>2, <2>1, <2>2, <2>3, LicenceStays DEF DispatchIsSound, DispatchMoved
  <2> QED
    BY <1>1, <2>1, <2>2, <2>3, DispatchMove DEF DispatchMoved
<1> QED
  BY <1>1, <1>3, <1>4

LEMMA CallExecutorLemma ==
  ASSUME StoreInv, HostInv, NEW x \in Dispatches, CallExecutor(x)
  PROVE  StoreInv' /\ HostInv'
<1>1. /\ dispatch[x].phase = "execute"
      /\ storeVars' = storeVars \/ SinkFails
      /\ client' = client /\ proofs' = proofs /\ documents' = documents /\ issued' = issued
      /\ storeless' = storeless /\ audit' = audit /\ evidence' = evidence
      /\ \/ executed' = executed \cup {x} /\ Move(x, "close", "none")
         \/ executed' = executed \cup {x} /\ Move(x, "recordFailure", "failed")
         \/ executed' = executed /\ Move(x, "done", "blocked")
  BY DEF CallExecutor, hostRest
<1>2. DispatchIsSound(x) /\ dispatch[x].phase \in Running /\ HostTypes
  BY <1>1, HostFacts DEF Running
<1>3. ASSUME NEW phase \in DispatchPhases, NEW result \in DispatchResults,
             \/ phase = "close" /\ result = "none" /\ executed' = executed \cup {x}
             \/ phase = "recordFailure" /\ result = "failed" /\ executed' = executed \cup {x}
             \/ phase = "done" /\ result = "blocked" /\ executed' = executed,
             Move(x, phase, result)
      PROVE  StoreInv' /\ HostInv'
  <2>1. DispatchMoved(x, phase, result)
    BY <1>3, MoveMoves
  <2>2. ASSUME DoneStays PROVE DispatchIsSound(x)'
    BY <1>1, <1>2, <1>3, <2>1, <2>2, LicenceStays DEF DispatchIsSound, DispatchMoved
  <2> QED
    BY <1>1, <1>2, <2>1, <2>2, DispatchMove DEF DispatchMoved, HostTypes
<1> QED
  BY <1>1, <1>3 DEF DispatchPhases, DispatchResults

LEMMA RecordFailureLemma ==
  ASSUME StoreInv, HostInv, NEW x \in Dispatches, RecordFailure(x)
  PROVE  StoreInv' /\ HostInv'
<1>1. /\ dispatch[x].phase = "recordFailure"
      /\ storeVars' = storeVars \/ SinkFails
      /\ client' = client /\ proofs' = proofs /\ documents' = documents /\ issued' = issued
      /\ storeless' = storeless /\ evidence' = evidence /\ executed' = executed
      /\ Record(x, "failed") \/ RecordFails(x, "failed")
      /\ Move(x, "done", "failed")
  BY DEF RecordFailure, hostRest, RecordFails
<1>2. DispatchIsSound(x) /\ dispatch[x].phase \in Running /\ HostTypes
  BY <1>1, HostFacts DEF Running
<1>3. DispatchMoved(x, "done", "failed")
  BY <1>1, MoveMoves DEF DispatchPhases, DispatchResults
<1>4. /\ audit' \in [Dispatches -> SUBSET {"attempting", "completed", "failed"}]
      /\ audit'[x] = audit[x] \/ audit'[x] = audit[x] \cup {"failed"}
      /\ \A y \in Dispatches : y # x => audit'[y] = audit[y]
  BY <1>1, RecordTypes, RecordFailsTypes
<1>5. ASSUME DoneStays PROVE DispatchIsSound(x)'
  BY <1>1, <1>2, <1>3, <1>4, <1>5, LicenceStays DEF DispatchIsSound, DispatchMoved
<1> QED
  BY <1>1, <1>3, <1>4, <1>5, DispatchMove DEF DispatchMoved

LEMMA CloseAuditLemma ==
  ASSUME StoreInv, HostInv, NEW x \in Dispatches, CloseAudit(x)
  PROVE  StoreInv' /\ HostInv'
<1>1. /\ dispatch[x].phase = "close"
      /\ storeVars' = storeVars \/ SinkFails
      /\ client' = client /\ proofs' = proofs /\ documents' = documents /\ issued' = issued
      /\ storeless' = storeless /\ evidence' = evidence /\ executed' = executed
      /\ \/ Record(x, "completed") /\ HasEvidence(x) /\ Move(x, "evidence", "none")
         \/ Record(x, "completed") /\ ~HasEvidence(x) /\ Move(x, "done", "completed")
         \/ RecordFails(x, "completed") /\ Move(x, "done", "failed")
  BY DEF CloseAudit, hostRest, RecordFails
<1>2. DispatchIsSound(x) /\ dispatch[x].phase \in Running /\ HostTypes
  BY <1>1, HostFacts DEF Running
<1>3. ASSUME Record(x, "completed")
      PROVE  /\ audit' \in [Dispatches -> SUBSET {"attempting", "completed", "failed"}]
             /\ audit'[x] = audit[x] \cup {"completed"}
             /\ \A y \in Dispatches : y # x => audit'[y] = audit[y]
  BY <1>3, RecordTypes
<1>4. CASE Record(x, "completed") /\ HasEvidence(x) /\ Move(x, "evidence", "none")
  <2>1. DispatchMoved(x, "evidence", "none")
    BY <1>4, MoveMoves DEF DispatchPhases, DispatchResults
  <2>2. ASSUME DoneStays PROVE DispatchIsSound(x)'
    BY <1>1, <1>2, <1>3, <1>4, <2>1, <2>2, LicenceStays DEF DispatchIsSound, DispatchMoved
  <2> QED
    BY <1>1, <1>3, <1>4, <2>1, <2>2, DispatchMove DEF DispatchMoved
<1>5. CASE Record(x, "completed") /\ ~HasEvidence(x) /\ Move(x, "done", "completed")
  <2>1. DispatchMoved(x, "done", "completed")
    BY <1>5, MoveMoves DEF DispatchPhases, DispatchResults
  <2>2. ASSUME DoneStays PROVE DispatchIsSound(x)'
    BY <1>1, <1>2, <1>3, <1>5, <2>1, <2>2, LicenceStays DEF DispatchIsSound, DispatchMoved
  <2> QED
    BY <1>1, <1>3, <1>5, <2>1, <2>2, DispatchMove DEF DispatchMoved
<1>6. CASE RecordFails(x, "completed") /\ Move(x, "done", "failed")
  <2>1. DispatchMoved(x, "done", "failed")
    BY <1>6, MoveMoves DEF DispatchPhases, DispatchResults
  <2>2. /\ audit' \in [Dispatches -> SUBSET {"attempting", "completed", "failed"}]
        /\ audit'[x] = audit[x] \/ audit'[x] = audit[x] \cup {"completed"}
        /\ \A y \in Dispatches : y # x => audit'[y] = audit[y]
    BY <1>6, RecordFailsTypes
  <2>3. ASSUME DoneStays PROVE DispatchIsSound(x)'
    BY <1>1, <1>2, <2>1, <2>2, <2>3, LicenceStays DEF DispatchIsSound, DispatchMoved
  <2> QED
    BY <1>1, <2>1, <2>2, <2>3, DispatchMove DEF DispatchMoved
<1> QED
  BY <1>1, <1>4, <1>5, <1>6

LEMMA RecordEvidenceLemma ==
  ASSUME StoreInv, HostInv, NEW x \in Dispatches, RecordEvidence(x)
  PROVE  StoreInv' /\ HostInv'
<1>1. /\ dispatch[x].phase = "evidence"
      /\ storeVars' = storeVars \/ SinkFails
      /\ client' = client /\ proofs' = proofs /\ documents' = documents /\ issued' = issued
      /\ storeless' = storeless /\ audit' = audit /\ executed' = executed
      /\ \/ evidence' = evidence \cup {x} /\ Move(x, "done", "completed")
         \/ /\ evidence' \in {evidence, evidence \cup {x}}
            /\ Move(x, "recordFailure", "failed")
  BY DEF RecordEvidence, hostRest
<1>2. DispatchIsSound(x) /\ dispatch[x].phase \in Running /\ HostTypes
  BY <1>1, HostFacts DEF Running
<1>3. CASE evidence' = evidence \cup {x} /\ Move(x, "done", "completed")
  <2>1. DispatchMoved(x, "done", "completed")
    BY <1>3, MoveMoves DEF DispatchPhases, DispatchResults
  <2>2. ASSUME DoneStays PROVE DispatchIsSound(x)'
    BY <1>1, <1>2, <1>3, <2>1, <2>2, LicenceStays DEF DispatchIsSound, DispatchMoved
  <2> QED
    BY <1>1, <1>2, <1>3, <2>1, <2>2, DispatchMove DEF DispatchMoved, HostTypes
<1>4. CASE /\ evidence' \in {evidence, evidence \cup {x}}
           /\ Move(x, "recordFailure", "failed")
  <2>1. DispatchMoved(x, "recordFailure", "failed")
    BY <1>4, MoveMoves DEF DispatchPhases, DispatchResults
  <2>2. ASSUME DoneStays PROVE DispatchIsSound(x)'
    BY <1>1, <1>2, <1>4, <2>1, <2>2, LicenceStays DEF DispatchIsSound, DispatchMoved
  <2> QED
    BY <1>1, <1>2, <1>4, <2>1, <2>2, DispatchMove DEF DispatchMoved, HostTypes
<1> QED
  BY <1>1, <1>3, <1>4

LEMMA CrashLemma ==
  ASSUME StoreInv, HostInv, NEW p \in Processes, Crash(p)
  PROVE  StoreInv' /\ HostInv'
<1>1. StoreInv' /\ DoneStays
  BY CrashStoreLemma DEF Crash
<1>2. /\ client' = [client EXCEPT ![p] = NewClient] /\ proofs' = [proofs EXCEPT ![p] = {}]
      /\ dispatch' = [x \in Dispatches |->
                        IF dispatch[x].process = p /\ dispatch[x].phase # "done"
                        THEN [dispatch[x] EXCEPT !.phase = "dead"] ELSE dispatch[x]]
      /\ documents' = documents /\ audit' = audit /\ evidence' = evidence /\ executed' = executed
      /\ issued' = issued /\ storeless' = storeless
  BY DEF Crash, journal
<1>3. HostTypes
  BY HostFacts
<1>4. /\ proofs' \in [Processes -> SUBSET Receipts] /\ proofs'[p] = {}
      /\ \A o \in Processes : o # p => proofs'[o] = proofs[o]
  BY <1>2, <1>3 DEF HostTypes
<1>5. ASSUME NEW x \in Dispatches
      PROVE  /\ dispatch'[x] \in DispatchStates /\ dispatch'[x].kind = dispatch[x].kind
             /\ dispatch'[x].process = dispatch[x].process
             /\ dispatch'[x].receipt = dispatch[x].receipt
             /\ dispatch'[x].result = dispatch[x].result
             /\ IF dispatch[x].process = p /\ dispatch[x].phase # "done"
                THEN dispatch'[x].phase = "dead" ELSE dispatch'[x] = dispatch[x]
  <2> DEFINE new == [dispatch[x] EXCEPT !.phase = "dead"]
  <2>1. dispatch[x] \in DispatchStates
    BY <1>3 DEF HostTypes
  <2>2. /\ new \in DispatchStates /\ new.phase = "dead" /\ new.kind = dispatch[x].kind
        /\ new.process = dispatch[x].process /\ new.receipt = dispatch[x].receipt
        /\ new.result = dispatch[x].result
    BY <2>1 DEF DispatchStates, DispatchPhases
  <2>3. dispatch'[x] = IF dispatch[x].process = p /\ dispatch[x].phase # "done"
                       THEN new ELSE dispatch[x]
    BY <1>2
  <2> HIDE DEF new
  <2> QED
    BY <2>1, <2>2, <2>3
<1>6. HostTypes'
  <2>1. client' \in [Processes -> Clients]
    <3>1. NewClient \in Clients
      BY DEF Clients, NewClient, NoConsumption, Consumptions
    <3> QED
      BY <1>2, <1>3, <3>1 DEF HostTypes
  <2>2. dispatch' \in [Dispatches -> DispatchStates]
    BY <1>2, <1>5
  <2> QED
    BY <1>2, <1>3, <1>4, <2>1, <2>2 DEF HostTypes
<1>7. ASSUME NEW o \in Processes PROVE ProofIsEarned(o)'
  <2>1. \A r \in proofs'[o] : r \in proofs[o]
    BY <1>4
  <2> QED
    BY <1>1, <2>1, HostFacts, EarnedStays DEF ProofIsEarned
<1>8. ASSUME NEW x \in Dispatches PROVE DispatchIsSound(x)'
  <2>1. DispatchIsSound(x)
    BY HostFacts
  <2>2. CASE dispatch[x].process = p /\ dispatch[x].phase # "done"
    <3>1. dispatch'[x].phase = "dead" /\ dispatch[x].phase # "idle"
      BY <1>5, <2>1, <2>2, NoCallIsNone DEF DispatchIsSound
    <3>2. PICK r : r = dispatch[x].receipt
      OBVIOUS
    <3>3. Earned(r)
      BY <2>1, <3>1, <3>2 DEF DispatchIsSound
    <3>4. Earned(r)'
      BY <1>1, <3>3, EarnedStays
    <3>5. Earned(dispatch[x].receipt)' /\ (HasEvidence(x)' <=> HasEvidence(x))
      BY <1>5, <3>2, <3>4 DEF Earned, HasEvidence
    <3> QED
      BY <1>2, <1>5, <2>1, <3>1, <3>5 DEF DispatchIsSound
  <2>3. CASE ~(dispatch[x].process = p /\ dispatch[x].phase # "done")
    <3>1. dispatch'[x] = dispatch[x]
      BY <1>5, <2>3
    <3>2. dispatch[x].phase \in Running =>
            dispatch[x].receipt \in proofs'[dispatch[x].process]
      BY <1>4, <2>1, <2>3 DEF DispatchIsSound, Running
    <3> QED
      BY <1>1, <1>2, <2>1, <3>1, <3>2, DispatchStays
  <2> QED
    BY <2>2, <2>3
<1> QED
  BY <1>1, <1>6, <1>7, <1>8, Zenon DEF HostInv

-----------------------------------------------------------------------------
(* The theorems                                                            *)

LEMMA OperatorInit ==
  ASSUME Init
  PROVE  StoreInv /\ HostInv
<1>1. /\ lines = {} /\ unended = {} /\ torn = {}
      /\ lock = NoCall /\ owner = NoCall /\ old = FALSE /\ abandoned = FALSE
      /\ call = [c \in Calls |-> NewCall] /\ queue = [p \in Processes |-> <<>>]
      /\ faults = 0 /\ crashes = 0 /\ stolen = FALSE
  BY DEF Init, StoreInit
<1>2. /\ NewCall \in CallStates /\ NewCall.phase = "idle" /\ NewCall.result = "none"
      /\ NewDispatch \in DispatchStates /\ NewDispatch.phase = "idle"
      /\ NewDispatch.process = NoCall /\ NewDispatch.result = "none" /\ NewClient \in Clients
  BY DEF NewCall, CallStates, Phases, NewDispatch, DispatchStates, DispatchPhases, Kinds,
         NewClient, NoConsumption, Clients, Consumptions
<1>3. StoreTypes
  <2>1. call \in [Calls -> CallStates]
    BY <1>1, <1>2
  <2>2. queue \in [Processes -> Seq(Calls)]
    BY <1>1
  <2>3. faults \in 0..MaxFaults /\ crashes \in 0..MaxCrashes
    BY <1>1, ReceiptStoreAssumption
  <2> QED
    BY <1>1, <2>1, <2>2, <2>3 DEF StoreTypes
<1>4. \A c \in Calls : call[c] = NewCall
  BY <1>1
<1>5. \A c \in Calls : CallIsSound(c) /\ PlaceIsSound(c) /\ ClaimIsSound(c)
  BY <1>1, <1>2, <1>4, NoCallIsNone
  DEF CallIsSound, PlaceIsSound, ClaimIsSound, Active, Claiming, Owning
<1>6. \A p \in Processes : QueueIsSound(p)
  BY <1>1 DEF QueueIsSound
<1>7. StoreInv
  <2>1. Taken = {}
    BY <1>1, <1>2, <1>4 DEF Taken
  <2> QED
    BY <1>3, <1>5, <1>6, <2>1 DEF StoreInv, LinesAreSound
<1>8. HostTypes
  BY <1>2 DEF Init, HostTypes
<1>9. \A p \in Processes : ProofIsEarned(p)
  BY DEF Init, ProofIsEarned
<1>10. ASSUME NEW x \in Dispatches PROVE DispatchIsSound(x)
  <2>1. dispatch[x] = NewDispatch /\ audit[x] = {} /\ x \notin executed /\ x \notin evidence
    BY DEF Init
  <2> QED
    BY <1>2, <2>1 DEF DispatchIsSound
<1> QED
  BY <1>7, <1>8, <1>9, <1>10 DEF HostInv

LEMMA StoreStepLemma ==
  ASSUME StoreInv, NEW c \in Calls, StoreStep(c)
  PROVE  StoreInv' /\ DoneStays
BY MakeLockLemma, FindStaleLockLemma, ReclaimStaleLockLemma, LockTimeoutLemma, ClaimFailsLemma,
   WriteOwnerLemma, UndoLockLemma, CheckReplayLemma, AppendReceiptLemma, ReadOwnerLemma, ReleaseLockLemma
DEF StoreStep

LEMMA OperatorStep ==
  ASSUME StoreInv, HostInv, [Next]_vars
  PROVE  StoreInv' /\ HostInv'
<1>1. ASSUME NEW p \in Processes, NEW a \in Actions \cup {NoAction}, CaptureAction(p, a)
      PROVE  StoreInv' /\ HostInv'
  BY <1>1, CaptureActionLemma
<1>2. ASSUME NEW p \in Processes, CreateReceipt(p)
      PROVE  StoreInv' /\ HostInv'
  BY <1>2, CreateReceiptLemma
<1>3. ASSUME NEW c \in Calls, NEW p \in Processes, NEW r \in Receipts, NEW a \in Actions,
             BeginConsume(c, p, r, a)
      PROVE  StoreInv' /\ HostInv'
  BY <1>3, BeginConsumeLemma
<1>4. ASSUME NEW c \in Calls, StoreStep(c), UNCHANGED hostVars
      PROVE  StoreInv' /\ HostInv'
  BY <1>4, StoreStepLemma, HostStays
<1>5. ASSUME NEW c \in Calls, ReturnConsumption(c)
      PROVE  StoreInv' /\ HostInv'
  BY <1>5, ReturnConsumptionLemma
<1>6. ASSUME LockAges, UNCHANGED hostVars
      PROVE  StoreInv' /\ HostInv'
  BY <1>6, LockAgesLemma, HostStays
<1>7. ASSUME NEW p \in Processes, NEW r \in Receipts,
             PlanExecution(p, r) \/ AuthorizeHostExecutorReview(p, r)
      PROVE  StoreInv' /\ HostInv'
  BY <1>7, ReviewLemma
<1>8. ASSUME NEW x \in Dispatches, NEW p \in Processes, NEW k \in Kinds, NEW r \in Receipts,
             StartDispatch(x, p, k, r)
      PROVE  StoreInv' /\ HostInv'
  BY <1>8, StartDispatchLemma
<1>9. ASSUME NEW x \in Dispatches, DispatchStep(x)
      PROVE  StoreInv' /\ HostInv'
  BY <1>9, AuditAttemptLemma, CallExecutorLemma, RecordFailureLemma, CloseAuditLemma,
     RecordEvidenceLemma DEF DispatchStep
<1>10. ASSUME NEW p \in Processes, Crash(p)
       PROVE  StoreInv' /\ HostInv'
  BY <1>10, CrashLemma
<1>11. ASSUME UNCHANGED vars
       PROVE  StoreInv' /\ HostInv'
  BY <1>11, StoreStays, HostStays DEF vars
<1> QED
  BY <1>1, <1>2, <1>3, <1>4, <1>5, <1>6, <1>7, <1>8, <1>9, <1>10, <1>11 DEF Next

\* The inductive invariant of the store and of the hosts that use it, over
\* crashes, failing files and sinks, and lock takeovers.
THEOREM OperatorInvariant == Spec => [](StoreInv /\ HostInv)
<1>1. Init => StoreInv /\ HostInv
  BY OperatorInit
<1>2. StoreInv /\ HostInv /\ [Next]_vars => (StoreInv /\ HostInv)'
  BY OperatorStep
<1> QED
  BY <1>1, <1>2, PTL DEF Spec

\* StoreInv and HostInv say what the type invariant says of the queues in
\* the terms of Functions.
LEMMA OperatorTypes ==
  ASSUME StoreInv, HostInv
  PROVE  TypeOK
<1>1. ASSUME NEW p \in Processes
      PROVE  /\ queue[p] \in Seq(Calls) /\ IsInjective(queue[p])
             /\ \A c \in Range(queue[p]) : call[c].process = p
  <2>1. PICK q \in Seq(Calls) : q = queue[p]
    BY StoreFacts DEF StoreTypes
  <2>2. /\ \A k \in 1..Len(q) : call[q[k]].process = p
        /\ \A j, k \in 1..Len(q) : q[j] = q[k] => j = k
        /\ DOMAIN q = 1..Len(q)
    BY <2>1 DEF StoreInv, QueueIsSound
  <2>3. IsInjective(q) /\ \A c \in Range(q) : call[c].process = p
    BY <2>2 DEF IsInjective, Range
  <2> QED
    BY <2>1, <2>3
<1>2. StoreTypeOK
  BY <1>1, StoreFacts DEF StoreTypes, StoreTypeOK
<1>3. ASSUME NEW x \in Dispatches
      PROVE  /\ dispatch[x].phase \in DispatchPhases /\ dispatch[x].kind \in Kinds
             /\ dispatch[x].phase # "idle" => /\ dispatch[x].receipt \in Receipts
                                              /\ dispatch[x].process \in Processes
             /\ dispatch[x].result \in DispatchResults
             /\ dispatch[x].result # "none" => dispatch[x].phase \in {"done", "recordFailure", "dead"}
  <2>1. dispatch[x] \in DispatchStates /\ DispatchIsSound(x)
    BY HostFacts DEF HostTypes
  <2> QED
    BY <2>1 DEF DispatchStates, DispatchIsSound, DispatchResults
<1> QED
  BY <1>2, <1>3, HostFacts DEF TypeOK, HostTypes, Clients, DispatchResults

\* However many processes share a receipt store, and wherever they crash or
\* their files fail: an action is consumed once, an answer "stored" has its
\* line, and the lock has a maker that runs (consumeExclusive,
\* withFileReceiptConsumeLock).
THEOREM OperatorStoreIsSound == Spec => []StoreIsSound
<1>1. StoreInv /\ HostInv => StoreIsSound
  <2> SUFFICES ASSUME StoreInv, HostInv PROVE StoreIsSound
    OBVIOUS
  <2>1. TypeOK
    BY OperatorTypes
  <2>2. ConsumedOnce
    BY StoreFacts DEF ConsumedOnce, LinesAreSound, ClaimIsSound, FileTypes, Taken
  <2>3. LockHasLiveMaker
    <3>1. lock # NoCall => Claims(lock) \/ abandoned = TRUE
      BY StoreFacts DEF ClaimIsSound, FileTypes, Claims, Claiming
    <3> QED
      BY <3>1, Zenon DEF LockHasLiveMaker
  <2> QED
    BY <2>1, <2>2, <2>3 DEF StoreIsSound
<1> QED
  BY <1>1, OperatorInvariant, PTL

\* Every executor and adapter that is called was licensed by a receipt the
\* store accepted, and what the caller and the sinks are told is true
\* (planGovernance..., dispatchGovernance..., record...Failure).
THEOREM OperatorIsAccountable == Spec => []DispatchIsAccountable
<1>1. StoreInv /\ HostInv => DispatchIsAccountable
  <2> SUFFICES ASSUME StoreInv, HostInv PROVE DispatchIsAccountable
    OBVIOUS
  <2>1. ASSUME NEW x \in executed
        PROVE  LET r == dispatch[x].receipt IN
               /\ r.decision = "consumed"
               /\ \E c \in Calls : At(c, "done") /\ call[c].result = "stored" /\ ReceiptOf(c) = r
               /\ ~stolen => \A c \in Taken : call[c].action = r.action => ReceiptOf(c) = r
    <3>1. x \in Dispatches /\ DispatchIsSound(x)
      BY <2>1, HostFacts DEF HostTypes
    <3>2. PICK r : r = dispatch[x].receipt
      OBVIOUS
    <3>3. r.decision = "consumed" /\ Earned(r)
      BY <2>1, <3>1, <3>2 DEF DispatchIsSound
    <3>4. PICK d \in Calls : /\ call[d].phase = "done" /\ call[d].result = "stored"
                             /\ ReceiptOf(d) = r
      BY <3>3 DEF Earned
    <3>5. r.action = call[d].action
      BY <3>4 DEF ReceiptOf
    <3>6. ASSUME ~stolen, NEW c \in Taken, call[c].action = r.action
          PROVE  ReceiptOf(c) = r
      <4>1. stolen = FALSE
        BY <3>6, StoreFacts DEF FileTypes
      <4>2. d \in Taken
        BY <3>4 DEF Taken
      <4>3. c = d
        BY <3>5, <3>6, <4>1, <4>2, StoreFacts DEF LinesAreSound
      <4> QED
        BY <3>4, <4>3
    <3> QED
      BY <3>2, <3>3, <3>4, <3>6 DEF At
  <2>2. AuditIsTruthful
    BY HostFacts DEF AuditIsTruthful, DispatchIsSound
  <2> QED
    BY <2>1, <2>2 DEF DispatchIsAccountable, DispatchIsLicensed
<1> QED
  BY <1>1, OperatorInvariant, PTL

\* A call that begins, and one that returns, takes nothing.
LEMMA BeginConsumeTakesNothing ==
  ASSUME StoreInv, NEW c \in Calls, NEW p \in Processes, NEW r \in Receipts, NEW a \in Actions,
         BeginConsume(c, p, r, a)
  PROVE  NothingTaken
<1>1. /\ lines' = lines /\ call \in [Calls -> CallStates]
      /\ \E new : call' = [call EXCEPT ![c] = new] /\ new.result # "stored"
  <2>1. lines' = lines /\ call \in [Calls -> CallStates]
    BY StoreFacts DEF BeginConsume, files, StoreTypes
  <2>2. PICK own \in BOOLEAN :
          LET begun == [NewCall EXCEPT !.process = p, !.current = own]
              end(result) == call' = [call EXCEPT ![c] = [begun EXCEPT !.phase = "return",
                                                                       !.result = result]]
          IN \/ end("invalid")
             \/ end("no_store")
             \/ end("failed")
             \/ call' = [call EXCEPT ![c] = [begun EXCEPT !.phase = "queued", !.action = a,
                                                          !.decision = r.decision]]
    BY DEF BeginConsume
  <2> DEFINE begun == [NewCall EXCEPT !.process = p, !.current = own]
             ended(result) == [begun EXCEPT !.phase = "return", !.result = result]
             queued == [begun EXCEPT !.phase = "queued", !.action = a, !.decision = r.decision]
  <2>3. \/ \E result \in {"invalid", "no_store", "failed"} : call' = [call EXCEPT ![c] = ended(result)]
        \/ call' = [call EXCEPT ![c] = queued]
    BY <2>2
  <2>4. /\ \A result \in {"invalid", "no_store", "failed"} : ended(result).result = result
        /\ queued.result = "none"
    BY DEF NewCall
  <2> HIDE DEF ended, queued, begun
  <2> QED
    BY <2>1, <2>3, <2>4
<1> QED
  BY <1>1 DEF NothingTaken

LEMMA ReturnTakesNothing ==
  ASSUME StoreInv, NEW c \in Calls, ReturnConsumption(c)
  PROVE  NothingTaken
<1>1. /\ lines' = lines /\ call' = [call EXCEPT ![c] = Ended(c, "done", lines)]
      /\ call \in [Calls -> CallStates]
  BY StoreFacts DEF ReturnConsumption, Forget, files, StoreTypes
<1>2. Ended(c, "done", lines).result = call[c].result
  <2>1. StoreTypes /\ "done" \in Phases
    BY StoreFacts DEF Phases
  <2> QED
    BY <2>1, EndedTypes
<1> QED
  BY <1>1, <1>2 DEF NothingTaken

\* Only an append puts a line into a file, and while a line is torn none does.
LEMMA TornStoreStep ==
  ASSUME StoreInv, torn # {}, stolen' = FALSE, NEW c \in Calls, StoreStep(c)
  PROVE  NothingTaken
<1>1. CASE AppendReceipt(c)
  <2>1. stolen = FALSE
    BY <1>1 DEF AppendReceipt
  <2> QED
    BY <1>1, <2>1, AppendReceiptLemma
<1>2. CASE ~AppendReceipt(c)
  <2>1. /\ lines' = lines
        /\ \/ \E phase \in Phases : Goto(c, phase)
           \/ \E phase \in Phases, result \in Results \ {"stored"} : Answer(c, phase, result)
    BY <1>2 DEF StoreStep, MakeLock, FindStaleLock, ReclaimStaleLock, LockTimeout, ClaimFails,
                WriteOwner, UndoLock, CheckReplay, ReadOwner, ReleaseLock, files, Phases, Results
  <2>2. \E phase, result : Moved(c, phase, result) /\ (result = "stored" => call[c].result = "stored")
    BY <2>1, GotoMoves, AnswerMoves, StoreFacts
  <2> QED
    BY <2>1, <2>2 DEF NothingTaken, Moved
<1> QED
  BY <1>1, <1>2

\* Once a line of the store is torn, nothing is consumed any more, whatever
\* process opens it (parseReceiptLines).
THEOREM OperatorTornStoreStaysShut == Spec => TornStoreStaysShut
<1>1. StoreInv /\ HostInv /\ (StoreInv /\ HostInv)' /\ [Next]_vars
        => [torn # {} /\ ~stolen' => lines' = lines /\ Taken' \subseteq Taken]_storeVars
  <2> SUFFICES ASSUME StoreInv, HostInv, StoreInv', [Next]_vars, torn # {}, ~stolen'
               PROVE  NothingTaken
    BY DEF NothingTaken, Taken
  <2>1. stolen' = FALSE
    BY DEF StoreInv, StoreTypes
  <2>2. ASSUME NEW c \in Calls, StoreStep(c)
        PROVE  NothingTaken
    BY <2>1, <2>2, TornStoreStep
  <2>3. ASSUME lines' = lines, call' = call
        PROVE  NothingTaken
    BY <2>3 DEF NothingTaken
  <2>4. ASSUME NEW x \in Dispatches, DispatchStep(x)
        PROVE  NothingTaken
    <3>1. storeVars' = storeVars \/ SinkFails
      BY <2>4 DEF DispatchStep, AuditAttempt, CallExecutor, RecordFailure, CloseAudit,
                  RecordEvidence, RecordFails
    <3> QED
      BY <2>3, <3>1 DEF storeVars, SinkFails, files
  <2>5. ASSUME NEW p \in Processes, Crash(p)
        PROVE  NothingTaken
    BY <2>1, <2>5, CrashStoreLemma DEF Crash, CrashStore
  <2>6. ASSUME NEW c \in Calls, NEW p \in Processes, NEW r \in Receipts, NEW a \in Actions,
               BeginConsume(c, p, r, a)
        PROVE  NothingTaken
    BY <2>6, BeginConsumeTakesNothing
  <2>7. ASSUME NEW c \in Calls, ReturnConsumption(c)
        PROVE  NothingTaken
    BY <2>7, ReturnTakesNothing
  <2>8. ASSUME LockAges
        PROVE  NothingTaken
    BY <2>3, <2>8 DEF LockAges, files
  <2>9. ASSUME NEW p \in Processes, NEW r \in Receipts,
               PlanExecution(p, r) \/ AuthorizeHostExecutorReview(p, r)
        PROVE  NothingTaken
    BY <2>3, <2>9 DEF PlanExecution, AuthorizeHostExecutorReview, Issue, storeVars, files
  <2>10. ASSUME NEW p \in Processes, NEW a \in Actions \cup {NoAction}, CaptureAction(p, a)
         PROVE  NothingTaken
    BY <2>3, <2>10 DEF CaptureAction, storeVars, files
  <2>11. ASSUME NEW p \in Processes, CreateReceipt(p)
         PROVE  NothingTaken
    BY <2>3, <2>11 DEF CreateReceipt, storeVars, files
  <2>12. ASSUME NEW x \in Dispatches, NEW p \in Processes, NEW k \in Kinds, NEW r \in Receipts,
                StartDispatch(x, p, k, r)
         PROVE  NothingTaken
    BY <2>3, <2>12 DEF StartDispatch, storeVars, files
  <2>13. CASE UNCHANGED vars
    BY <2>3, <2>13 DEF vars, storeVars, files
  <2> QED
    BY <2>2, <2>4, <2>5, <2>6, <2>7, <2>8, <2>9, <2>10, <2>11, <2>12, <2>13 DEF Next
<1> QED
  BY <1>1, OperatorInvariant, PTL DEF Spec, TornStoreStaysShut

\* An executor is called only in the life of the process that consumed its
\* receipt, and a host dispatch starts only for the action that is current in
\* its client (hasGovernanceOperatorActionReceiptConsumptionStoreProof,
\* addHostExecutorLifecycleReasons).
THEOREM OperatorRefusesStaleLicence == Spec => StaleLicenceIsRefused
<1>1. StoreInv /\ HostInv /\ [Next]_vars => [ProofDiesWithProcess /\ DispatchIsCurrent]_vars
  <2> SUFFICES ASSUME StoreInv, HostInv, Next
               PROVE  ProofDiesWithProcess /\ DispatchIsCurrent
    OBVIOUS
  <2> DEFINE Quiet == dispatch' = dispatch /\ executed' = executed
  <2>1. ASSUME Quiet PROVE ProofDiesWithProcess /\ DispatchIsCurrent
    BY <2>1 DEF ProofDiesWithProcess, DispatchIsCurrent
  <2>2. ASSUME NEW x \in Dispatches, NEW p \in Processes, NEW k \in Kinds, NEW r \in Receipts,
               StartDispatch(x, p, k, r)
        PROVE  ProofDiesWithProcess /\ DispatchIsCurrent
    <3>1. /\ \A y \in Dispatches : y # x => dispatch'[y] = dispatch[y]
          /\ dispatch'[x].kind = "host" =>
               client[dispatch'[x].process].action = dispatch'[x].receipt.action
          /\ executed' = executed
      BY <2>2, StartDispatchLemma
    <3> QED
      BY <3>1 DEF ProofDiesWithProcess, DispatchIsCurrent
  <2>3. ASSUME NEW x \in Dispatches, DispatchStep(x)
        PROVE  ProofDiesWithProcess /\ DispatchIsCurrent
    <3>1. /\ dispatch[x].phase # "idle"
          /\ \E phase, result : Move(x, phase, result)
          /\ executed' = executed \/ (executed' = executed \cup {x} /\ dispatch[x].phase = "execute")
      BY <2>3 DEF DispatchStep, AuditAttempt, CallExecutor, RecordFailure, CloseAudit,
                  RecordEvidence, RecordFails
    <3>2. \A y \in Dispatches : y # x => dispatch'[y] = dispatch[y]
      BY <3>1, HostFacts DEF Move, HostTypes
    <3>3. DispatchIsSound(x)
      BY HostFacts
    <3>4. ProofDiesWithProcess
      BY <3>1, <3>3 DEF ProofDiesWithProcess, DispatchIsSound
    <3> QED
      BY <3>1, <3>2, <3>4 DEF DispatchIsCurrent
  <2>4. ASSUME NEW p \in Processes, Crash(p)
        PROVE  ProofDiesWithProcess /\ DispatchIsCurrent
    <3>1. executed' = executed
      BY <2>4 DEF Crash, journal
    <3>2. ASSUME NEW x \in Dispatches, dispatch[x].phase = "idle"
          PROVE  dispatch'[x] = dispatch[x]
      <4>1. dispatch[x].process # p
        BY <3>2, HostFacts, NoCallIsNone DEF DispatchIsSound
      <4> QED
        BY <2>4, <4>1 DEF Crash
    <3> QED
      BY <3>1, <3>2 DEF ProofDiesWithProcess, DispatchIsCurrent
  <2>5. ASSUME UNCHANGED hostVars
        PROVE  Quiet
    BY <2>5 DEF hostVars, journal
  <2>6. ASSUME NEW c \in Calls, NEW p \in Processes, NEW r \in Receipts, NEW a \in Actions,
               BeginConsume(c, p, r, a)
        PROVE  Quiet
    BY <2>6 DEF BeginConsume, hostVars, journal
  <2>7. ASSUME NEW c \in Calls, ReturnConsumption(c)
        PROVE  Quiet
    BY <2>7 DEF ReturnConsumption, journal
  <2>8. ASSUME NEW p \in Processes, NEW r \in Receipts,
               PlanExecution(p, r) \/ AuthorizeHostExecutorReview(p, r)
        PROVE  Quiet
    BY <2>8 DEF PlanExecution, AuthorizeHostExecutorReview, Issue, journal
  <2>9. ASSUME NEW p \in Processes, NEW a \in Actions \cup {NoAction}, CaptureAction(p, a)
        PROVE  Quiet
    BY <2>9 DEF CaptureAction, journal
  <2>10. ASSUME NEW p \in Processes, CreateReceipt(p)
         PROVE  Quiet
    BY <2>10 DEF CreateReceipt, journal
  <2> HIDE DEF Quiet
  <2> QED
    BY <2>1, <2>2, <2>3, <2>4, <2>5, <2>6, <2>7, <2>8, <2>9, <2>10 DEF Next
<1> QED
  BY <1>1, OperatorInvariant, PTL DEF Spec, StaleLicenceIsRefused
=============================================================================
