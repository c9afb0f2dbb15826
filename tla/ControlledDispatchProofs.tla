----------------------- MODULE ControlledDispatchProofs -----------------------
(***************************************************************************)
(* Proofs about ControlledDispatch, for every set of calls, permits and    *)
(* paths and every number of user actions, faults and crashes.             *)
(*                                                                         *)
(* None of the properties is inductive.  What is missing is what a call    *)
(* may rely on in each phase: whether it has consumed its permit, has its  *)
(* started event, may have written and where, and why one that came too    *)
(* late does not get to the consumption.                                   *)
(***************************************************************************)
EXTENDS ControlledDispatch, TLAPS

Early == {"new", "review", "validate", "head", "status", "consume", "execute"}
WriteBusy == {"apply", "restore", "verify"}
ReadBusy  == {"probe", "run"}
Refused == {"dispatch_blocked", "validation_failed"}

\* The permit was consumed between the early and the busy phases; refusals
\* come without it.  A call stays on the side its permit chose.
PhaseIsSound(c) ==
  /\ call[c].phase \in Early => ~call[c].executed
  /\ call[c].phase \in WriteBusy \cup ReadBusy => call[c].executed
  /\ call[c].phase \notin {"finalize", "done"} => call[c].result = "none"
  /\ call[c].result \in Refused => ~call[c].executed
  /\ call[c].phase # "new" => call[c].todo \subseteq TargetsIn(c)
  /\ call[c].phase \in WriteBusy \cup {"head", "status", "consume"} => TargetsIn(c) # {}
  /\ call[c].phase \in ReadBusy \cup {"execute"} => TargetsIn(c) = {}

EventsAreSound(c) ==
  /\ call[c].phase \notin {"new", "review", "validate", "finalize", "done"} => c \in started
  /\ call[c].executed => c \in started
  /\ call[c].executed /\ At(c, "done") /\ c \notin completed => faults + crashes > 0

\* A barred call is held up at the next check it meets.
BarIsSound(c) ==
  c \in barred =>
    /\ ~call[c].executed /\ ~At(c, "new")
    /\ At(c, "review") => ~call[c].live \/ call[c].permit \in expired
    /\ call[c].phase \in {"validate", "execute"} => call[c].permit \in expired
    /\ call[c].phase \in {"head", "status", "consume"} => ~call[c].gate

ChildIsSound(c) ==
  /\ child[c].state # "none" => call[c].executed /\ TargetsIn(c) = {} /\ ~At(c, "probe")
  /\ child[c].state = "alive" /\ ~At(c, "run") =>
       child[c].timer = "killed" \/ faults + crashes > 0
  /\ At(c, "run") => child[c].state \in {"alive", "ended"} /\ child[c].timer \in {"timeout", "grace"}
  /\ call[c].result = "succeeded" /\ TargetsIn(c) = {} /\ ~At(c, "new") =>
       /\ call[c].executed
       /\ child[c].state = "closed" /\ child[c].good /\ child[c].timer = "timeout"

\* Where the content c may be.
TraceIsSound(c) ==
  \A f \in Paths :
    /\ work[f] = c =>
         \/ At(c, "apply") /\ f \in TargetsIn(c) \ call[c].todo
         \/ At(c, "restore") /\ f \in call[c].todo
         \/ /\ call[c].phase \in {"finalize", "done"} /\ call[c].executed
            /\ f \in TargetsIn(c) /\ call[c].result # "succeeded" /\ faults + crashes > 0
    /\ tree[f] = c =>
         call[c].executed /\ f \in TargetsIn(c) /\ call[c].result # "succeeded"

\* Content of a user that is in no commit and that the status of c did not
\* show was put there after it.
UserIsSeen(c) ==
  call[c].phase \in WriteBusy \/ (At(c, "consume") /\ call[c].gate) =>
    \A f \in Paths : work[f] = "edited" /\ tree[f] # "edited" => f \in raced[c]

CallIsSound(c) ==
  /\ PhaseIsSound(c) /\ EventsAreSound(c) /\ BarIsSound(c)
  /\ ChildIsSound(c) /\ TraceIsSound(c) /\ UserIsSeen(c)

\* Who executed is in the store, unless a crash wiped it; who is in the
\* store executed.
StoreIsKept ==
  /\ durable \/ crashes = 0 => \A c \in Calls : call[c].executed => call[c].permit \in consumed
  /\ \A k \in consumed : \E c \in Calls : call[c].permit = k /\ call[c].executed

DispatchInv ==
  /\ DispatchTypeOK
  /\ \A c \in Calls : CallIsSound(c)
  /\ StoreIsKept /\ PermitExecutesOnce

\* What the step of another call or of the environment leaves as it was for c.
Spares(c) ==
  /\ call'[c] = call[c] /\ child'[c] = child[c]
  /\ c \in started => c \in started'
  /\ c \in completed => c \in completed'
  /\ faults' + crashes' >= faults + crashes
  /\ expired \subseteq expired'
  /\ c \in barred' => c \in barred
  /\ raced[c] \subseteq raced'[c]
  /\ \A f \in Paths :
       /\ work'[f] = c => work[f] = c
       /\ tree'[f] = c => tree[f] = c \/ work[f] = c
       /\ work'[f] = "edited" /\ tree'[f] # "edited" =>
            (work[f] = "edited" /\ tree[f] # "edited") \/ f \in raced'[c]

LEMMA Sum ==
  ASSUME NEW i \in Nat, NEW j \in Nat, NEW m \in Nat, NEW n \in Nat, m + n >= i + j
  PROVE  i + j > 0 => m + n > 0
OBVIOUS

LEMMA SparedIsSound ==
  ASSUME DispatchTypeOK, DispatchTypeOK', NEW c \in Calls, CallIsSound(c), Spares(c)
  PROVE  CallIsSound(c)'
<1>0. /\ faults \in Nat /\ faults' \in Nat /\ crashes \in Nat /\ crashes' \in Nat
      /\ TargetsIn(c)' = TargetsIn(c)
  BY WorkspaceWriteAssumption DEF WorkspaceWriteAssumption, DispatchTypeOK, TypeOK, Spares, TargetsIn
<1>1. PhaseIsSound(c)'
  BY <1>0 DEF CallIsSound, PhaseIsSound, Spares
<1>2. EventsAreSound(c)'
  BY <1>0 DEF CallIsSound, EventsAreSound, Spares, At
<1>3. BarIsSound(c)'
  BY <1>0 DEF CallIsSound, BarIsSound, Spares, At
<1>7. faults + crashes > 0 => faults' + crashes' > 0
  <2>1. faults' + crashes' >= faults + crashes
    BY DEF Spares
  <2>2. faults \in Nat /\ faults' \in Nat /\ crashes \in Nat /\ crashes' \in Nat
    BY <1>0
  <2> QED
    BY <2>1, <2>2, Sum
<1>8. call'[c] = call[c] /\ child'[c] = child[c]
  BY DEF Spares
<1>4. ChildIsSound(c)'
  BY <1>0, <1>7, <1>8, Zenon DEF CallIsSound, ChildIsSound, At
<1>5. TraceIsSound(c)'
  <2> SUFFICES ASSUME NEW f \in Paths
               PROVE  /\ work'[f] = c =>
                           \/ call[c].phase = "apply" /\ f \in TargetsIn(c) \ call[c].todo
                           \/ call[c].phase = "restore" /\ f \in call[c].todo
                           \/ /\ call[c].phase \in {"finalize", "done"} /\ call[c].executed
                              /\ f \in TargetsIn(c) /\ call[c].result # "succeeded" /\ faults' + crashes' > 0
                      /\ tree'[f] = c =>
                           call[c].executed /\ f \in TargetsIn(c) /\ call[c].result # "succeeded"
    BY <1>0, <1>8 DEF TraceIsSound, At
  <2>1. (work'[f] = c => work[f] = c) /\ (tree'[f] = c => tree[f] = c \/ work[f] = c)
    BY DEF Spares
  <2>2. work[f] = c => call[c].executed /\ f \in TargetsIn(c) /\ call[c].result # "succeeded"
    BY DEF CallIsSound, TraceIsSound, PhaseIsSound, At, WriteBusy
  <2> QED
    BY <2>1, <2>2, <1>7 DEF CallIsSound, TraceIsSound, At
<1>6. UserIsSeen(c)'
  BY <1>0 DEF CallIsSound, UserIsSeen, Spares, At
<1> QED
  BY <1>1, <1>2, <1>3, <1>4, <1>5, <1>6 DEF CallIsSound


-----------------------------------------------------------------------------
(* Steps of one call                                                       *)

CallsTyped ==
  /\ call \in [Calls -> CallStates]
  /\ \A c \in Calls : /\ call[c].permit = NoPermit <=> call[c].phase = "new"
                      /\ call[c].todo # {} => call[c].phase \in {"apply", "restore"}

RestTyped ==
  /\ work \in [Paths -> Contents] /\ tree \in [Paths -> Contents] /\ moved \in BOOLEAN
  /\ running \in BOOLEAN /\ expired \subseteq Permits
  /\ durable \in BOOLEAN /\ consumed \subseteq Permits
  /\ started \subseteq Calls /\ completed \subseteq Calls
  /\ acts \in 0..MaxActs /\ faults \in 0..MaxFaults /\ crashes \in 0..MaxCrashes
  /\ raced \in [Calls -> SUBSET Paths] /\ barred \subseteq Calls
  /\ handoff \subseteq Permits /\ child \in [Calls -> ChildStates]

LEMMA TypesSplit == DispatchTypeOK <=> CallsTyped /\ RestTyped
BY DEF DispatchTypeOK, TypeOK, CallsTyped, RestTyped

\* Only the record of c changes.
Moves(c) == CallsTyped' /\ \A d \in Calls \ {c} : call'[d] = call[d]

LEMMA ReplacedMoves ==
  ASSUME CallsTyped, NEW c \in Calls, NEW r \in CallStates, call' = [call EXCEPT ![c] = r],
         r.permit = NoPermit <=> r.phase = "new",
         r.todo # {} => r.phase \in {"apply", "restore"}
  PROVE  Moves(c) /\ call'[c] = r
BY DEF CallsTyped, Moves

LEMMA Finishes ==
  ASSUME CallsTyped, NEW c \in Calls, ~At(c, "new"),
         NEW ph \in {"finalize", "done"}, NEW res \in Results, Finish(c, ph, res)
  PROVE  /\ Moves(c)
         /\ call'[c].phase = ph /\ call'[c].result = res /\ call'[c].todo = {}
         /\ call'[c].permit = call[c].permit /\ call'[c].executed = call[c].executed
         /\ TargetsIn(c)' = TargetsIn(c)
<1> DEFINE r == [call[c] EXCEPT !.phase = ph, !.result = res, !.todo = {}]
<1>1. call[c] \in CallStates /\ call[c].permit # NoPermit
  BY DEF CallsTyped, At
<1>2. /\ r.phase = ph /\ r.result = res /\ r.todo = {} /\ r.permit = call[c].permit
      /\ r.executed = call[c].executed
  BY <1>1 DEF CallStates
<1>3. r \in CallStates
  BY <1>1 DEF CallStates, Phases
<1>4. call' = [call EXCEPT ![c] = r]
  BY DEF Finish
<1> HIDE DEF r
<1>5. Moves(c) /\ call'[c] = r
  BY <1>1, <1>2, <1>3, <1>4, ReplacedMoves
<1> QED
  BY <1>2, <1>5 DEF TargetsIn

LEMMA Goes ==
  ASSUME CallsTyped, NEW c \in Calls, ~At(c, "new"), call[c].todo = {},
         NEW ph \in Phases \ {"new"}, Goto(c, ph)
  PROVE  /\ Moves(c)
         /\ call'[c].phase = ph /\ call'[c].result = call[c].result /\ call'[c].todo = {}
         /\ call'[c].permit = call[c].permit /\ call'[c].executed = call[c].executed
         /\ TargetsIn(c)' = TargetsIn(c)
<1> DEFINE r == [call[c] EXCEPT !.phase = ph]
<1>1. call[c] \in CallStates /\ call[c].permit # NoPermit
  BY DEF CallsTyped, At
<1>2. /\ r.phase = ph /\ r.result = call[c].result /\ r.todo = {} /\ r.permit = call[c].permit
      /\ r.executed = call[c].executed
  BY <1>1 DEF CallStates
<1>3. r \in CallStates
  BY <1>1 DEF CallStates
<1>4. call' = [call EXCEPT ![c] = r]
  BY DEF Goto
<1> HIDE DEF r
<1>5. Moves(c) /\ call'[c] = r
  BY <1>1, <1>2, <1>3, <1>4, ReplacedMoves
<1> QED
  BY <1>2, <1>5 DEF TargetsIn

LEMMA FaultCounts ==
  ASSUME RestTyped, Fault
  PROVE  /\ faults' \in 0..MaxFaults /\ faults' + crashes >= faults + crashes
         /\ faults' + crashes > 0
<1>1. faults \in Nat /\ faults < MaxFaults /\ MaxFaults \in Nat /\ crashes \in Nat
  BY WorkspaceWriteAssumption DEF WorkspaceWriteAssumption, RestTyped, Fault
<1>2. faults' = faults + 1
  BY DEF Fault
<1>3. faults + 1 \in 0..MaxFaults /\ (faults + 1) + crashes > 0
      /\ (faults + 1) + crashes >= faults + crashes
  BY <1>1
<1> QED
  BY <1>2, <1>3

\* The store of consumed permits is as good as before when nobody consumes.
LEMMA StoreUntouched ==
  ASSUME StoreIsKept, PermitExecutesOnce, UNCHANGED <<consumed, durable, crashes>>,
         \A c \in Calls : /\ call'[c].executed = call[c].executed
                          /\ call[c].executed => call'[c].permit = call[c].permit
  PROVE  StoreIsKept' /\ PermitExecutesOnce'
BY DEF StoreIsKept, PermitExecutesOnce

\* A step of c that touches its record, its events and the faults.
Quiet(c) ==
  /\ Moves(c)
  /\ call'[c].permit = call[c].permit /\ call'[c].executed = call[c].executed
  /\ started' \in {started, started \cup {c}} /\ completed' \in {completed, completed \cup {c}}
  /\ faults' = faults \/ Fault
  /\ UNCHANGED <<repository, environment, consumed, history, processes>>

LEMMA QuietKeeps ==
  ASSUME DispatchInv, NEW c \in Calls, Quiet(c), CallIsSound(c)'
  PROVE  DispatchInv'
<1>1. CallsTyped /\ RestTyped
  BY TypesSplit DEF DispatchInv
<1>2. faults' \in 0..MaxFaults /\ faults' + crashes' >= faults + crashes
  <2>1. crashes' = crashes /\ faults \in Nat /\ crashes \in Nat
    BY <1>1, WorkspaceWriteAssumption DEF WorkspaceWriteAssumption, Quiet, RestTyped, environment
  <2>2. CASE faults' = faults
    BY <2>1, <2>2, <1>1 DEF RestTyped
  <2>3. CASE Fault
    BY <2>1, <2>3, <1>1, FaultCounts
  <2> QED
    BY <2>2, <2>3 DEF Quiet
<1>3. RestTyped'
  BY <1>1, <1>2 DEF RestTyped, Quiet, repository, environment, history, processes
<1>4. DispatchTypeOK'
  BY <1>3 DEF DispatchTypeOK, TypeOK, CallsTyped, RestTyped, Quiet, Moves
<1>5. \A d \in Calls \ {c} : Spares(d)
  BY <1>2 DEF Spares, Quiet, Moves, repository, environment, history, processes
<1>6. StoreIsKept' /\ PermitExecutesOnce'
  BY StoreUntouched DEF DispatchInv, Quiet, Moves, environment
<1> QED
  BY <1>4, <1>5, <1>6, SparedIsSound DEF DispatchInv

\* A call that is refused or gives up before it consumed its permit.
LEMMA RefusalKeeps ==
  ASSUME DispatchInv, NEW c \in Calls, Quiet(c), ~call[c].executed,
         call'[c].phase \in {"finalize", "done"}, call'[c].todo = {},
         call'[c].result # "succeeded"
  PROVE  DispatchInv'
<1>1. CallIsSound(c) /\ TargetsIn(c)' = TargetsIn(c)
  BY DEF DispatchInv, Quiet, TargetsIn
<1>2. CallIsSound(c)'
  BY <1>1
  DEF Quiet, repository, environment, history, processes, CallIsSound, PhaseIsSound,
      EventsAreSound, BarIsSound, ChildIsSound, TraceIsSound, UserIsSeen, Early, WriteBusy,
      ReadBusy, Refused, At
<1> QED
  BY <1>2, QuietKeeps

LEMMA ReviewKeeps ==
  ASSUME DispatchInv, NEW c \in Calls, NEW ready \in BOOLEAN,
         Review(c, ready), UNCHANGED processes
  PROVE  DispatchInv'
<1>1. CallsTyped /\ CallIsSound(c)
  BY TypesSplit DEF DispatchInv
<1>2. At(c, "review") /\ ~At(c, "new") /\ call[c].todo = {} /\ ~call[c].executed
  BY <1>1 DEF Review, At, CallsTyped, CallIsSound, PhaseIsSound, Early
<1>3. CASE ready /\ call[c].live /\ PermitIsValid(c)
  <2>1. /\ Moves(c) /\ call'[c].phase = "validate" /\ call'[c].result = call[c].result
        /\ call'[c].todo = {} /\ TargetsIn(c)' = TargetsIn(c)
        /\ call'[c].permit = call[c].permit /\ call'[c].executed = call[c].executed
    BY <1>1, <1>2, <1>3, Goes DEF Review, Phases
  <2>2. Quiet(c)
    BY <2>1 DEF Quiet, Review, events
  <2>3. CallIsSound(c)'
    BY <1>1, <1>2, <1>3, <2>1
    DEF Review, PermitIsValid, repository, environment, events, history, processes, CallIsSound, PhaseIsSound, EventsAreSound, BarIsSound, ChildIsSound, TraceIsSound,
      UserIsSeen, Early, WriteBusy, ReadBusy, Refused, At
  <2> QED
    BY <2>2, <2>3, QuietKeeps
<1>4. CASE ~(ready /\ call[c].live /\ PermitIsValid(c))
  <2>1. Finish(c, "done", "dispatch_blocked")
    BY <1>4 DEF Review
  <2>2. Quiet(c) /\ call'[c].phase = "done" /\ call'[c].todo = {} /\ call'[c].result = "dispatch_blocked"
    BY <2>1, <1>1, <1>2, Finishes DEF Results, Quiet, Review, events
  <2> QED
    BY <1>2, <2>2, RefusalKeeps
<1> QED
  BY <1>3, <1>4

\* StartAndValidate and StartReadOnly, when the plan is not valid, and
\* RunnerBlocks.
LEMMA RunnerRefusalKeeps ==
  ASSUME DispatchInv, NEW c \in Calls, At(c, "validate"), Finish(c, "finalize", "validation_failed"),
         started' \in {started, started \cup {c}},
         UNCHANGED <<repository, environment, consumed, completed, faults, history, processes>>
  PROVE  DispatchInv'
<1>1. CallsTyped /\ CallIsSound(c)
  BY TypesSplit DEF DispatchInv
<1>2. ~At(c, "new") /\ ~call[c].executed
  BY <1>1 DEF At, CallIsSound, PhaseIsSound, Early
<1>3. Quiet(c) /\ call'[c].phase = "finalize" /\ call'[c].todo = {} /\ call'[c].result = "validation_failed"
  BY <1>1, <1>2, Finishes DEF Results, Quiet
<1> QED
  BY <1>2, <1>3, RefusalKeeps

LEMMA StartAndValidateKeeps ==
  ASSUME DispatchInv, NEW c \in Calls, ~IsReadOnly(c), NEW valid \in BOOLEAN,
         StartAndValidate(c, valid), UNCHANGED processes
  PROVE  DispatchInv'
<1>1. CallsTyped /\ CallIsSound(c)
  BY TypesSplit DEF DispatchInv
<1>2. At(c, "validate") /\ call[c].todo = {} /\ call[c].permit # NoPermit /\ TargetsIn(c) # {}
  BY <1>1 DEF StartAndValidate, At, CallsTyped, IsReadOnly
<1>3. CASE valid
  <2> DEFINE r == [call[c] EXCEPT !.phase = "head", !.gate = PermitIsValid(c)]
  <2>1. r \in CallStates
    <3>1. PermitIsValid(c) \in BOOLEAN /\ call[c] \in CallStates
      BY <1>1 DEF PermitIsValid, CallsTyped
    <3> QED
      BY <3>1, Zenon DEF CallStates, Phases
  <2>2. /\ r.phase = "head" /\ r.permit = call[c].permit /\ r.executed = call[c].executed
        /\ r.todo = {} /\ r.result = call[c].result /\ r.gate = PermitIsValid(c)
    BY <1>1, <1>2 DEF CallsTyped, CallStates
  <2>3. call' = [call EXCEPT ![c] = r]
    BY <1>3 DEF StartAndValidate
  <2> HIDE DEF r
  <2>4. Moves(c) /\ call'[c] = r
    BY <1>1, <1>2, <2>1, <2>2, <2>3, ReplacedMoves
  <2>5. Quiet(c) /\ TargetsIn(c)' = TargetsIn(c)
    BY <2>2, <2>4 DEF Quiet, StartAndValidate, TargetsIn
  <2>6. CallIsSound(c)'
    BY <1>1, <1>2, <2>2, <2>4, <2>5
    DEF StartAndValidate, PermitIsValid, repository, environment, history, processes, CallIsSound, PhaseIsSound, EventsAreSound, BarIsSound, ChildIsSound, TraceIsSound,
      UserIsSeen, Early, WriteBusy, ReadBusy, Refused, At
  <2> QED
    BY <2>5, <2>6, QuietKeeps
<1>4. CASE ~valid
  BY <1>2, <1>4, RunnerRefusalKeeps DEF StartAndValidate
<1> QED
  BY <1>3, <1>4

LEMMA StartReadOnlyKeeps ==
  ASSUME DispatchInv, NEW c \in Calls, IsReadOnly(c), NEW valid \in BOOLEAN,
         StartReadOnly(c, valid)
  PROVE  DispatchInv'
<1>1. CallsTyped /\ CallIsSound(c)
  BY TypesSplit DEF DispatchInv
<1>2. At(c, "validate") /\ call[c].todo = {} /\ ~At(c, "new") /\ TargetsIn(c) = {}
  BY <1>1 DEF StartReadOnly, At, CallsTyped, IsReadOnly
<1>3. CASE valid
  <2>1. /\ Moves(c) /\ call'[c].phase = "execute" /\ call'[c].result = call[c].result
        /\ call'[c].todo = {} /\ TargetsIn(c)' = TargetsIn(c)
        /\ call'[c].permit = call[c].permit /\ call'[c].executed = call[c].executed
    BY <1>1, <1>2, <1>3, Goes DEF StartReadOnly, Phases
  <2>2. Quiet(c)
    BY <2>1 DEF Quiet, StartReadOnly
  <2>3. CallIsSound(c)'
    BY <1>1, <1>2, <2>1
    DEF StartReadOnly, repository, environment, history, processes, CallIsSound, PhaseIsSound, EventsAreSound, BarIsSound, ChildIsSound, TraceIsSound,
      UserIsSeen, Early, WriteBusy, ReadBusy, Refused, At
  <2> QED
    BY <2>2, <2>3, QuietKeeps
<1>4. CASE ~valid
  BY <1>2, <1>4, RunnerRefusalKeeps DEF StartReadOnly
<1> QED
  BY <1>3, <1>4

-----------------------------------------------------------------------------
(* The write path                                                          *)

\* A step of c beyond its record, of which the other calls notice nothing.
LEMMA OneCallMoves ==
  ASSUME DispatchInv, NEW c \in Calls, Moves(c), RestTyped',
         \A d \in Calls \ {c} : Spares(d),
         CallIsSound(c)', StoreIsKept', PermitExecutesOnce'
  PROVE  DispatchInv'
<1>1. DispatchTypeOK'
  BY DEF DispatchTypeOK, TypeOK, CallsTyped, RestTyped, Moves
<1> QED
  BY <1>1, SparedIsSound DEF DispatchInv

LEMMA ProbeHeadKeeps ==
  ASSUME DispatchInv, NEW c \in Calls, ProbeHead(c), UNCHANGED processes
  PROVE  DispatchInv'
<1>1. CallsTyped /\ CallIsSound(c)
  BY TypesSplit DEF DispatchInv
<1>2. At(c, "head") /\ call[c].todo = {} /\ call[c].permit # NoPermit
  BY <1>1 DEF ProbeHead, At, CallsTyped
<1> DEFINE r == [call[c] EXCEPT !.phase = "status", !.gate = @ /\ ~moved]
<1>3. r \in CallStates
  <2>1. (call[c].gate /\ ~moved) \in BOOLEAN /\ call[c] \in CallStates
    BY <1>1 DEF CallsTyped
  <2> QED
    BY <2>1, Zenon DEF CallStates, Phases
<1>4. /\ r.phase = "status" /\ r.permit = call[c].permit /\ r.executed = call[c].executed
      /\ r.todo = {} /\ r.result = call[c].result /\ r.gate = (call[c].gate /\ ~moved)
  BY <1>1, <1>2 DEF CallsTyped, CallStates
<1>5. call' = [call EXCEPT ![c] = r]
  BY DEF ProbeHead
<1> HIDE DEF r
<1>6. Moves(c) /\ call'[c] = r
  BY <1>1, <1>2, <1>3, <1>4, <1>5, ReplacedMoves
<1>7. Quiet(c) /\ TargetsIn(c)' = TargetsIn(c)
  BY <1>4, <1>6 DEF Quiet, ProbeHead, events, TargetsIn
<1>8. CallIsSound(c)'
  BY <1>1, <1>2, <1>4, <1>6, <1>7
  DEF ProbeHead, repository, environment, events, history, processes, CallIsSound, PhaseIsSound, EventsAreSound, BarIsSound, ChildIsSound, TraceIsSound,
      UserIsSeen, Early, WriteBusy, ReadBusy, Refused, At
<1> QED
  BY <1>7, <1>8, QuietKeeps

LEMMA ProbeStatusKeeps ==
  ASSUME DispatchInv, NEW c \in Calls, ProbeStatus(c), UNCHANGED processes
  PROVE  DispatchInv'
<1>1. CallsTyped /\ RestTyped /\ CallIsSound(c)
  BY TypesSplit DEF DispatchInv
<1>2. At(c, "status") /\ call[c].todo = {} /\ call[c].permit # NoPermit
  BY <1>1 DEF ProbeStatus, At, CallsTyped
<1> DEFINE r == [call[c] EXCEPT !.phase = "consume", !.gate = @ /\ WorktreeClean(c)]
<1>3. r \in CallStates
  <2>1. (call[c].gate /\ WorktreeClean(c)) \in BOOLEAN /\ call[c] \in CallStates
    BY <1>1 DEF CallsTyped
  <2> QED
    BY <2>1, Zenon DEF CallStates, Phases
<1>4. /\ r.phase = "consume" /\ r.permit = call[c].permit /\ r.executed = call[c].executed
      /\ r.todo = {} /\ r.result = call[c].result /\ r.gate = (call[c].gate /\ WorktreeClean(c))
  BY <1>1, <1>2 DEF CallsTyped, CallStates
<1>5. call' = [call EXCEPT ![c] = r]
  BY DEF ProbeStatus
<1> HIDE DEF r
<1>6. Moves(c) /\ call'[c] = r /\ TargetsIn(c)' = TargetsIn(c)
  BY <1>1, <1>2, <1>3, <1>4, <1>5, ReplacedMoves DEF TargetsIn
<1>7. RestTyped'
  BY <1>1 DEF RestTyped, ProbeStatus, repository, environment, events, processes
<1>8. \A d \in Calls \ {c} : Spares(d)
  <2>1. faults' + crashes' >= faults + crashes
    BY <1>1 DEF ProbeStatus, environment, RestTyped
  <2> QED
    BY <1>1, <1>6, <2>1
    DEF Spares, Moves, ProbeStatus, repository, environment, events, processes, RestTyped
<1>9. PhaseIsSound(c)' /\ EventsAreSound(c)' /\ BarIsSound(c)' /\ ChildIsSound(c)' /\ TraceIsSound(c)'
  BY <1>1, <1>2, <1>4, <1>6
  DEF ProbeStatus, repository, environment, events, processes, CallIsSound, PhaseIsSound, EventsAreSound, BarIsSound, ChildIsSound, TraceIsSound,
      UserIsSeen, Early, WriteBusy, ReadBusy, Refused, At
<1>10. UserIsSeen(c)'
  BY <1>4, <1>6
  DEF ProbeStatus, repository, UserIsSeen, At, WriteBusy, WorktreeClean, ChangedPaths
<1>11. CallIsSound(c)'
  BY <1>9, <1>10 DEF CallIsSound
<1>12. StoreIsKept' /\ PermitExecutesOnce'
  BY <1>4, <1>6, StoreUntouched DEF DispatchInv, Moves, ProbeStatus, environment
<1> QED
  BY <1>6, <1>7, <1>8, <1>11, <1>12, OneCallMoves

LEMMA ProbeFailsKeeps ==
  ASSUME DispatchInv, NEW c \in Calls, ProbeFails(c), UNCHANGED processes
  PROVE  DispatchInv'
<1>1. CallsTyped /\ CallIsSound(c)
  BY TypesSplit DEF DispatchInv
<1>2. ~At(c, "new") /\ ~call[c].executed
  BY <1>1 DEF ProbeFails, At, CallIsSound, PhaseIsSound, Early
<1>3. Quiet(c) /\ call'[c].phase = "finalize" /\ call'[c].todo = {} /\ call'[c].result = "validation_failed"
  BY <1>1, <1>2, Finishes DEF ProbeFails, events, Results, Quiet
<1> QED
  BY <1>2, <1>3, RefusalKeeps

\* The consumption: whoever executed under this permit before would have
\* left it in the store.
LEMMA ConsumptionKeeps ==
  ASSUME DispatchInv, NEW c \in Calls, Unused(c), ~call[c].executed, Moves(c),
         call'[c].executed, call'[c].permit = call[c].permit,
         consumed' = consumed \cup {call[c].permit}, UNCHANGED <<durable, crashes>>
  PROVE  StoreIsKept' /\ PermitExecutesOnce'
<1>1. StoreIsKept'
  BY DEF DispatchInv, StoreIsKept, Moves
<1>2. PermitExecutesOnce'
  BY DEF DispatchInv, StoreIsKept, PermitExecutesOnce, Moves, Unused
<1> QED
  BY <1>1, <1>2

LEMMA ConsumePermitKeeps ==
  ASSUME DispatchInv, NEW c \in Calls, NEW permitted \in BOOLEAN,
         ConsumePermit(c, permitted), UNCHANGED processes
  PROVE  DispatchInv'
<1>1. CallsTyped /\ RestTyped /\ CallIsSound(c)
  BY TypesSplit DEF DispatchInv
<1>2. /\ At(c, "consume") /\ call[c].todo = {} /\ call[c].permit \in Permits
      /\ ~call[c].executed /\ ~At(c, "new")
  BY <1>1 DEF ConsumePermit, At, CallsTyped, CallStates, CallIsSound, PhaseIsSound, Early
<1>3. CASE call[c].gate /\ permitted /\ Unused(c)
  <2> DEFINE r == [call[c] EXCEPT !.phase = "apply", !.executed = TRUE, !.todo = TargetsIn(c)]
  <2>1. r \in CallStates
    <3>1. TargetsIn(c) \in SUBSET Paths /\ call[c] \in CallStates
      BY <1>1, <1>2, WorkspaceWriteAssumption DEF WorkspaceWriteAssumption, TargetsIn, CallsTyped
    <3> QED
      BY <3>1 DEF CallStates, Phases
  <2>2. /\ r.phase = "apply" /\ r.permit = call[c].permit /\ r.executed = TRUE
        /\ r.todo = TargetsIn(c) /\ r.result = call[c].result
    BY <1>1, <1>2 DEF CallsTyped, CallStates
  <2>3. /\ call' = [call EXCEPT ![c] = r] /\ consumed' = consumed \cup {call[c].permit}
        /\ UNCHANGED <<repository, environment, events, faults, history>>
    BY <1>3 DEF ConsumePermit
  <2>4. r.permit # NoPermit
    BY <1>2, <2>2, WorkspaceWriteAssumption DEF WorkspaceWriteAssumption
  <2> HIDE DEF r
  <2>5. Moves(c) /\ call'[c] = r /\ TargetsIn(c)' = TargetsIn(c)
    BY <1>1, <2>1, <2>2, <2>3, <2>4, ReplacedMoves DEF TargetsIn
  <2>6. RestTyped'
    BY <1>1, <1>2, <2>3 DEF RestTyped, repository, environment, events, history, processes
  <2>7. \A d \in Calls \ {c} : Spares(d)
    <3>1. faults' + crashes' >= faults + crashes
      BY <1>1, <2>3 DEF environment, RestTyped
    <3> QED
      BY <2>3, <2>5, <3>1 DEF Spares, Moves, repository, environment, events, history, processes
  <2>8. CallIsSound(c)'
    BY <1>1, <1>2, <1>3, <2>2, <2>3, <2>5
    DEF repository, environment, events, history, processes, CallIsSound, PhaseIsSound, EventsAreSound, BarIsSound, ChildIsSound, TraceIsSound,
      UserIsSeen, Early, WriteBusy, ReadBusy, Refused, At
  <2>9. StoreIsKept' /\ PermitExecutesOnce'
    BY <1>2, <1>3, <2>2, <2>3, <2>5, ConsumptionKeeps DEF environment
  <2> QED
    BY <2>5, <2>6, <2>7, <2>8, <2>9, OneCallMoves
<1>4. CASE ~(call[c].gate /\ permitted /\ Unused(c))
  <2>1. Quiet(c) /\ call'[c].phase = "finalize" /\ call'[c].todo = {} /\ call'[c].result = "validation_failed"
    BY <1>1, <1>2, <1>4, Finishes DEF ConsumePermit, events, Results, Quiet
  <2> QED
    BY <1>2, <2>1, RefusalKeeps
<1> QED
  BY <1>3, <1>4

\* WriteTarget and RestoreTarget change one target of c; what they put there
\* is no content of another call and no user's edit.
LEMMA TargetStepKeeps ==
  ASSUME DispatchInv, NEW c \in Calls, NEW f \in call[c].todo, NEW v \in Calls \cup {"base"},
         v \in {c, "base"}, call[c].phase \in {"apply", "restore"},
         work' = [work EXCEPT ![f] = v], Moves(c), CallIsSound(c)',
         call'[c].executed = call[c].executed, call'[c].permit = call[c].permit,
         UNCHANGED <<tree, moved, environment, consumed, events, faults, history, processes>>
  PROVE  DispatchInv'
<1>1. CallsTyped /\ RestTyped /\ f \in Paths
  BY TypesSplit DEF DispatchInv, CallsTyped, CallStates
<1>2. v \in Contents /\ v # "edited"
  BY WorkspaceWriteAssumption DEF WorkspaceWriteAssumption, Contents
<1>3. RestTyped'
  BY <1>1, <1>2 DEF RestTyped, environment, events, history, processes
<1>4. \A d \in Calls \ {c} : Spares(d)
  <2>1. faults' + crashes' >= faults + crashes
    BY <1>1 DEF environment, RestTyped
  <2>2. "base" \notin Calls
    BY WorkspaceWriteAssumption DEF WorkspaceWriteAssumption
  <2> QED
    BY <1>1, <1>2, <2>1, <2>2
    DEF Spares, Moves, RestTyped, environment, events, history, processes
<1>5. StoreIsKept' /\ PermitExecutesOnce'
  BY StoreUntouched DEF DispatchInv, Moves, environment
<1> QED
  BY <1>3, <1>4, <1>5, OneCallMoves

LEMMA WriteTargetKeeps ==
  ASSUME DispatchInv, NEW c \in Calls, NEW f \in Paths, WriteTarget(c, f), UNCHANGED processes
  PROVE  DispatchInv'
<1>1. CallsTyped /\ RestTyped /\ CallIsSound(c)
  BY TypesSplit DEF DispatchInv
<1>2. At(c, "apply") /\ f \in call[c].todo /\ call[c].permit # NoPermit
  BY <1>1 DEF WriteTarget, At, CallsTyped
<1> DEFINE r == [call[c] EXCEPT !.todo = @ \ {f}]
<1>3. r \in CallStates
  BY <1>1 DEF CallsTyped, CallStates
<1>4. /\ r.phase = "apply" /\ r.permit = call[c].permit /\ r.executed = call[c].executed
      /\ r.todo = call[c].todo \ {f} /\ r.result = call[c].result
  BY <1>1, <1>2 DEF CallsTyped, CallStates, At
<1>5. call' = [call EXCEPT ![c] = r]
  BY DEF WriteTarget
<1> HIDE DEF r
<1>6. Moves(c) /\ call'[c] = r /\ TargetsIn(c)' = TargetsIn(c)
  BY <1>1, <1>2, <1>3, <1>4, <1>5, ReplacedMoves DEF TargetsIn
<1>7. /\ work' = [work EXCEPT ![f] = c]
      /\ UNCHANGED <<tree, moved, environment, consumed, events, faults, history, processes>>
  BY DEF WriteTarget
<1>8. PhaseIsSound(c)' /\ EventsAreSound(c)' /\ BarIsSound(c)' /\ ChildIsSound(c)'
  BY <1>1, <1>2, <1>4, <1>6, <1>7
  DEF environment, events, history, processes, CallIsSound, PhaseIsSound, EventsAreSound, BarIsSound, ChildIsSound, TraceIsSound,
      UserIsSeen, Early, WriteBusy, ReadBusy, Refused, At
<1>9. TraceIsSound(c)'
  BY <1>1, <1>2, <1>4, <1>6, <1>7
  DEF RestTyped, CallIsSound, TraceIsSound, PhaseIsSound, WriteBusy, At
<1>10. UserIsSeen(c)'
  <2>1. c # "edited"
    BY WorkspaceWriteAssumption DEF WorkspaceWriteAssumption
  <2> QED
    BY <1>1, <1>2, <1>7, <2>1
    DEF RestTyped, history, CallIsSound, UserIsSeen, WriteBusy, At
<1>11. CallIsSound(c)'
  BY <1>8, <1>9, <1>10 DEF CallIsSound
<1> QED
  BY <1>2, <1>4, <1>6, <1>7, <1>11, TargetStepKeeps DEF At

LEMMA RestoreTargetKeeps ==
  ASSUME DispatchInv, NEW c \in Calls, NEW f \in Paths, RestoreTarget(c, f), UNCHANGED processes
  PROVE  DispatchInv'
<1>1. CallsTyped /\ RestTyped /\ CallIsSound(c)
  BY TypesSplit DEF DispatchInv
<1>2. At(c, "restore") /\ f \in call[c].todo /\ call[c].permit # NoPermit
  BY <1>1 DEF RestoreTarget, At, CallsTyped
<1> DEFINE ph == IF call[c].todo = {f} THEN "verify" ELSE "restore"
           r == [call[c] EXCEPT !.todo = @ \ {f}, !.phase = ph]
<1>3. r \in CallStates
  BY <1>1 DEF CallsTyped, CallStates, Phases
<1>4. /\ r.phase = ph /\ r.permit = call[c].permit /\ r.executed = call[c].executed
      /\ r.todo = call[c].todo \ {f} /\ r.result = call[c].result
  BY <1>1, <1>2 DEF CallsTyped, CallStates, At
<1>5. call' = [call EXCEPT ![c] = r]
  BY <1>2 DEF RestoreTarget, At
<1>6. ph \in {"verify", "restore"} /\ (ph = "verify" <=> r.todo = {})
  BY <1>2, <1>4
<1> HIDE DEF r, ph
<1>7. Moves(c) /\ call'[c] = r /\ TargetsIn(c)' = TargetsIn(c)
  BY <1>1, <1>2, <1>3, <1>4, <1>5, <1>6, ReplacedMoves DEF TargetsIn
<1>8. /\ work' = [work EXCEPT ![f] = "base"]
      /\ UNCHANGED <<tree, moved, environment, consumed, events, faults, history, processes>>
  BY DEF RestoreTarget
<1>9. PhaseIsSound(c)' /\ EventsAreSound(c)' /\ BarIsSound(c)' /\ ChildIsSound(c)'
  BY <1>1, <1>2, <1>4, <1>6, <1>7, <1>8
  DEF environment, events, history, processes, CallIsSound, PhaseIsSound, EventsAreSound, BarIsSound, ChildIsSound, TraceIsSound,
      UserIsSeen, Early, WriteBusy, ReadBusy, Refused, At
<1>10. TraceIsSound(c)'
  <2>1. c # "base"
    BY WorkspaceWriteAssumption DEF WorkspaceWriteAssumption
  <2> QED
    BY <1>1, <1>2, <1>4, <1>6, <1>7, <1>8, <2>1
    DEF RestTyped, CallIsSound, TraceIsSound, PhaseIsSound, WriteBusy, At
<1>11. UserIsSeen(c)'
  BY <1>1, <1>2, <1>8 DEF RestTyped, history, CallIsSound, UserIsSeen, WriteBusy, At
<1>12. CallIsSound(c)'
  BY <1>9, <1>10, <1>11 DEF CallIsSound
<1> QED
  BY <1>2, <1>4, <1>7, <1>8, <1>12, TargetStepKeeps DEF At

\* InspectDiff and ApplyFails.
LEMMA RestoreBegins ==
  ASSUME DispatchInv, NEW c \in Calls, At(c, "apply"), NEW guard \in BOOLEAN,
         call' = [call EXCEPT ![c].phase = "restore", ![c].ok = guard, ![c].todo = TargetsIn(c)],
         faults' = faults \/ Fault,
         UNCHANGED <<repository, environment, consumed, events, history, processes>>
  PROVE  DispatchInv'
<1>1. CallsTyped /\ RestTyped /\ CallIsSound(c)
  BY TypesSplit DEF DispatchInv
<1>2. call[c].permit \in Permits /\ call[c].permit # NoPermit
  BY <1>1 DEF At, CallsTyped, CallStates
<1> DEFINE r == [call[c] EXCEPT !.phase = "restore", !.ok = guard, !.todo = TargetsIn(c)]
<1>3. r \in CallStates
  <2>1. TargetsIn(c) \in SUBSET Paths /\ call[c] \in CallStates
    BY <1>1, <1>2, WorkspaceWriteAssumption DEF WorkspaceWriteAssumption, TargetsIn, CallsTyped
  <2> QED
    BY <2>1 DEF CallStates, Phases
<1>4. /\ r.phase = "restore" /\ r.permit = call[c].permit /\ r.executed = call[c].executed
      /\ r.todo = TargetsIn(c) /\ r.result = call[c].result
  BY <1>1 DEF CallsTyped, CallStates
<1>5. call' = [call EXCEPT ![c] = r]
  OBVIOUS
<1> HIDE DEF r
<1>6. Moves(c) /\ call'[c] = r /\ TargetsIn(c)' = TargetsIn(c)
  BY <1>1, <1>2, <1>3, <1>4, <1>5, ReplacedMoves DEF TargetsIn
<1>7. Quiet(c)
  BY <1>4, <1>6 DEF Quiet, events
<1>8. CallIsSound(c)'
  BY <1>1, <1>4, <1>6
  DEF repository, environment, events, history, processes, CallIsSound, PhaseIsSound, EventsAreSound, BarIsSound, ChildIsSound, TraceIsSound,
      UserIsSeen, Early, WriteBusy, ReadBusy, Refused, At
<1> QED
  BY <1>7, <1>8, QuietKeeps

\* HashingThrows, RestoreFails, and Finalize when it fails: content of c may
\* stay where it is, but the fault is on record.
LEMMA FaultEnds ==
  ASSUME DispatchInv, NEW c \in Calls, call[c].phase \in WriteBusy \cup {"finalize"}, Fault,
         NEW ph \in {"finalize", "done"}, NEW res \in {"execution_failed", "rejected"},
         Finish(c, ph, res), UNCHANGED <<repository, environment, consumed, events, history, processes>>
  PROVE  DispatchInv'
<1>1. CallsTyped /\ RestTyped /\ CallIsSound(c) /\ ~At(c, "new")
  BY TypesSplit DEF DispatchInv, At, WriteBusy
<1>2. /\ Moves(c)
      /\ call'[c].phase = ph /\ call'[c].result = res /\ call'[c].todo = {}
      /\ call'[c].permit = call[c].permit /\ call'[c].executed = call[c].executed
      /\ TargetsIn(c)' = TargetsIn(c)
  BY <1>1, Finishes DEF Results
<1>3. Quiet(c)
  BY <1>2 DEF Quiet, events
<1>4. faults' + crashes' > 0
  <2>1. faults' + crashes > 0 /\ crashes' = crashes
    BY <1>1, FaultCounts DEF environment
  <2> QED
    BY <2>1
<1>5. CallIsSound(c)'
  BY <1>1, <1>2, <1>4
  DEF repository, environment, events, history, processes, CallIsSound, PhaseIsSound, EventsAreSound, BarIsSound, ChildIsSound, TraceIsSound,
      UserIsSeen, Early, WriteBusy, ReadBusy, Refused, At
<1> QED
  BY <1>3, <1>5, QuietKeeps

LEMMA VerifyKeeps ==
  ASSUME DispatchInv, NEW c \in Calls, Verify(c), UNCHANGED processes
  PROVE  DispatchInv'
<1> DEFINE res == IF call[c].ok /\ TargetsClean(c) THEN "succeeded" ELSE "execution_failed"
<1>1. CallsTyped /\ CallIsSound(c) /\ At(c, "verify") /\ ~At(c, "new")
  BY TypesSplit DEF DispatchInv, Verify, At
<1>2. /\ Moves(c)
      /\ call'[c].phase = "finalize" /\ call'[c].result = res /\ call'[c].todo = {}
      /\ call'[c].permit = call[c].permit /\ call'[c].executed = call[c].executed
      /\ TargetsIn(c)' = TargetsIn(c)
  <2>1. Finish(c, "finalize", res) /\ res \in Results
    BY DEF Verify, Results
  <2> HIDE DEF res
  <2> QED
    BY <1>1, <2>1, Finishes
<1>3. Quiet(c)
  BY <1>2 DEF Quiet, Verify, events
<1>4. res \in {"succeeded", "execution_failed"} /\ (res = "succeeded" => TargetsClean(c))
  OBVIOUS
<1> HIDE DEF res
<1>5. \A f \in Paths : work[f] # c /\ (res = "succeeded" => tree[f] # c)
  BY <1>1, <1>4 DEF CallIsSound, TraceIsSound, TargetsClean, At
<1>6. CallIsSound(c)'
  BY <1>1, <1>2, <1>4, <1>5
  DEF Verify, repository, environment, events, history, processes, CallIsSound, PhaseIsSound, EventsAreSound, BarIsSound, ChildIsSound, TraceIsSound,
      UserIsSeen, Early, WriteBusy, ReadBusy, Refused, At
<1> QED
  BY <1>3, <1>6, QuietKeeps

LEMMA FinalizeKeeps ==
  ASSUME DispatchInv, NEW c \in Calls, Finalize(c), UNCHANGED processes
  PROVE  DispatchInv'
<1>1. CallsTyped /\ CallIsSound(c) /\ At(c, "finalize") /\ ~At(c, "new") /\ call[c].todo = {}
  BY TypesSplit DEF DispatchInv, Finalize, At, CallsTyped
<1>2. CASE completed' = completed \cup {c} /\ Goto(c, "done") /\ UNCHANGED faults
  <2>1. /\ Moves(c)
        /\ call'[c].phase = "done" /\ call'[c].result = call[c].result /\ call'[c].todo = {}
        /\ call'[c].permit = call[c].permit /\ call'[c].executed = call[c].executed
        /\ TargetsIn(c)' = TargetsIn(c)
    BY <1>1, <1>2, Goes DEF Phases
  <2>2. Quiet(c)
    BY <1>2, <2>1 DEF Quiet, Finalize
  <2>3. CallIsSound(c)'
    BY <1>1, <1>2, <2>1
    DEF Finalize, repository, environment, history, processes, CallIsSound, PhaseIsSound, EventsAreSound, BarIsSound, ChildIsSound, TraceIsSound,
      UserIsSeen, Early, WriteBusy, ReadBusy, Refused, At
  <2> QED
    BY <2>2, <2>3, QuietKeeps
<1>3. CASE Fault /\ Finish(c, "done", "rejected") /\ UNCHANGED completed
  BY <1>1, <1>3, FaultEnds DEF Finalize, events, At
<1> QED
  BY <1>2, <1>3 DEF Finalize

LEMMA WriteStepKeeps ==
  ASSUME DispatchInv, NEW c \in Calls, ~IsReadOnly(c), Step(c), UNCHANGED processes
  PROVE  DispatchInv'
<1>1. ASSUME NEW ready \in BOOLEAN, Review(c, ready) PROVE DispatchInv'
  BY <1>1, ReviewKeeps
<1>2. ASSUME NEW valid \in BOOLEAN, StartAndValidate(c, valid) PROVE DispatchInv'
  BY <1>2, StartAndValidateKeeps
<1>3. ASSUME NEW permitted \in BOOLEAN, ConsumePermit(c, permitted) PROVE DispatchInv'
  BY <1>3, ConsumePermitKeeps
<1>4. ASSUME NEW guard \in BOOLEAN, InspectDiff(c, guard) PROVE DispatchInv'
  BY <1>4, RestoreBegins DEF InspectDiff
<1>5. CASE RunnerBlocks(c)
  BY <1>5, RunnerRefusalKeeps DEF RunnerBlocks, events
<1>6. CASE ProbeHead(c)
  BY <1>6, ProbeHeadKeeps
<1>7. CASE ProbeStatus(c)
  BY <1>7, ProbeStatusKeeps
<1>8. CASE ProbeFails(c)
  BY <1>8, ProbeFailsKeeps
<1>9. ASSUME NEW f \in Paths, WriteTarget(c, f) PROVE DispatchInv'
  BY <1>9, WriteTargetKeeps
<1>10. ASSUME NEW f \in Paths, RestoreTarget(c, f) PROVE DispatchInv'
  BY <1>10, RestoreTargetKeeps
<1>11. CASE ApplyFails(c)
  BY <1>11, RestoreBegins DEF ApplyFails
<1>12. CASE HashingThrows(c)
  BY <1>12, FaultEnds DEF HashingThrows, At, WriteBusy
<1>13. CASE RestoreFails(c)
  BY <1>13, FaultEnds DEF RestoreFails, WriteBusy
<1>14. CASE Verify(c)
  BY <1>14, VerifyKeeps
<1>15. CASE Finalize(c)
  BY <1>15, FinalizeKeeps
<1> QED
  BY <1>1, <1>2, <1>3, <1>4, <1>5, <1>6, <1>7, <1>8, <1>9, <1>10, <1>11, <1>12, <1>13, <1>14,
     <1>15 DEF Step

-----------------------------------------------------------------------------
(* The read-only execution                                                 *)

\* Permit and prompt are consumed; Execute goes on, PromptLapses ends.
LEMMA PromptTaken ==
  ASSUME DispatchInv, NEW c \in Calls, At(c, "execute"), PermitIsValid(c), Unused(c),
         NEW r \in CallStates, call' = [call EXCEPT ![c] = r],
         r.permit = call[c].permit, r.executed = TRUE, r.todo = {},
         \/ r.phase = "probe" /\ r.result = call[c].result
         \/ r.phase = "finalize" /\ r.result = "execution_failed",
         acts' \in 0..MaxActs, consumed' = consumed \cup {call[c].permit},
         handoff' = handoff \ {call[c].permit},
         UNCHANGED <<repository, running, expired, durable, crashes, events, faults, history, child>>
  PROVE  DispatchInv'
<1>1. CallsTyped /\ RestTyped /\ CallIsSound(c)
  BY TypesSplit DEF DispatchInv
<1>2. call[c].permit \in Permits /\ call[c].permit # NoPermit /\ ~call[c].executed
  BY <1>1 DEF At, CallsTyped, CallStates, CallIsSound, PhaseIsSound, Early
<1>3. Moves(c) /\ call'[c] = r /\ TargetsIn(c)' = TargetsIn(c)
  BY <1>1, <1>2, ReplacedMoves DEF TargetsIn
<1>4. RestTyped'
  BY <1>1, <1>2 DEF RestTyped, repository, events, history
<1>5. \A d \in Calls \ {c} : Spares(d)
  <2>1. faults' + crashes' >= faults + crashes
    BY <1>1 DEF RestTyped
  <2> QED
    BY <1>3, <2>1 DEF Spares, Moves, repository, events, history
<1>6. CallIsSound(c)'
  BY <1>1, <1>2, <1>3
  DEF PermitIsValid, repository, events, history, CallIsSound, PhaseIsSound, EventsAreSound, BarIsSound, ChildIsSound, TraceIsSound,
      UserIsSeen, Early, WriteBusy, ReadBusy, Refused, At
<1>7. StoreIsKept' /\ PermitExecutesOnce'
  BY <1>2, <1>3, ConsumptionKeeps
<1> QED
  BY <1>3, <1>4, <1>5, <1>6, <1>7, OneCallMoves

LEMMA ExecuteKeeps ==
  ASSUME DispatchInv, NEW c \in Calls, NEW accepted \in BOOLEAN, Execute(c, accepted)
  PROVE  DispatchInv'
<1>1. CallsTyped /\ RestTyped /\ CallIsSound(c) /\ At(c, "execute") /\ ~At(c, "new")
  BY TypesSplit DEF DispatchInv, Execute, At
<1>2. call[c] \in CallStates /\ call[c].todo = {} /\ ~call[c].executed
  BY <1>1 DEF CallsTyped, At, CallIsSound, PhaseIsSound, Early
<1>3. CASE PermitIsValid(c) /\ accepted /\ call[c].permit \in handoff /\ Unused(c)
  <2> DEFINE r == [call[c] EXCEPT !.phase = "probe", !.executed = TRUE]
  <2>1. r \in CallStates
    BY <1>2 DEF CallStates, Phases
  <2>2. /\ r.permit = call[c].permit /\ r.executed = TRUE /\ r.todo = {}
        /\ r.phase = "probe" /\ r.result = call[c].result
    BY <1>2 DEF CallStates
  <2>3. /\ call' = [call EXCEPT ![c] = r] /\ consumed' = consumed \cup {call[c].permit}
        /\ handoff' = handoff \ {call[c].permit}
        /\ UNCHANGED <<repository, environment, events, faults, history, child>>
    BY <1>3 DEF Execute
  <2>4. acts' \in 0..MaxActs /\ UNCHANGED <<running, expired, durable, crashes>>
    BY <1>1, <2>3 DEF RestTyped, environment
  <2> HIDE DEF r
  <2> QED
    BY <1>1, <1>3, <2>1, <2>2, <2>3, <2>4, PromptTaken
<1>4. CASE ~(PermitIsValid(c) /\ accepted /\ call[c].permit \in handoff /\ Unused(c))
  <2> DEFINE res == IF PermitIsValid(c) THEN "execution_failed" ELSE "validation_failed"
  <2>1. Finish(c, "finalize", res) /\ res \in Results /\ res # "succeeded"
    BY <1>4 DEF Execute, Results
  <2>2. UNCHANGED <<repository, environment, consumed, events, faults, history, processes>>
    BY <1>4 DEF Execute, processes
  <2> HIDE DEF res
  <2>3. Quiet(c) /\ call'[c].phase = "finalize" /\ call'[c].todo = {} /\ call'[c].result = res
    BY <1>1, <2>1, <2>2, Finishes DEF Quiet, events
  <2> QED
    BY <1>2, <2>1, <2>3, RefusalKeeps
<1> QED
  BY <1>3, <1>4

LEMMA PromptLapsesKeeps ==
  ASSUME DispatchInv, NEW c \in Calls, PromptLapses(c)
  PROVE  DispatchInv'
<1>1. CallsTyped /\ RestTyped
  BY TypesSplit DEF DispatchInv
<1>2. At(c, "execute") /\ call[c] \in CallStates /\ call[c].todo = {}
  BY <1>1 DEF PromptLapses, CallsTyped, At
<1> DEFINE r == [call[c] EXCEPT !.phase = "finalize", !.executed = TRUE, !.result = "execution_failed"]
<1>3. r \in CallStates
  BY <1>2 DEF CallStates, Phases, Results
<1>4. /\ r.permit = call[c].permit /\ r.executed = TRUE /\ r.todo = {}
      /\ r.phase = "finalize" /\ r.result = "execution_failed"
  BY <1>2 DEF CallStates
<1>5. call' = [call EXCEPT ![c] = r]
  BY DEF PromptLapses
<1>6. acts' \in 0..MaxActs
  BY <1>1, WorkspaceWriteAssumption DEF WorkspaceWriteAssumption, RestTyped, PromptLapses
<1> HIDE DEF r
<1> QED
  BY <1>2, <1>3, <1>4, <1>5, <1>6, PromptTaken DEF PromptLapses

\* A step of c that may also change its child.
LEMMA ChildMoves ==
  ASSUME DispatchInv, NEW c \in Calls, NEW p \in ChildStates, child' = [child EXCEPT ![c] = p],
         Moves(c), call'[c].permit = call[c].permit, call'[c].executed = call[c].executed,
         faults' = faults \/ Fault, CallIsSound(c)',
         UNCHANGED <<repository, environment, consumed, events, history, handoff>>
  PROVE  DispatchInv'
<1>1. CallsTyped /\ RestTyped
  BY TypesSplit DEF DispatchInv
<1>2. faults' \in 0..MaxFaults /\ faults' + crashes' >= faults + crashes
  <2>1. crashes' = crashes /\ faults \in Nat /\ crashes \in Nat
    BY <1>1, WorkspaceWriteAssumption DEF WorkspaceWriteAssumption, RestTyped, environment
  <2>2. CASE faults' = faults
    BY <2>1, <2>2, <1>1 DEF RestTyped
  <2>3. CASE Fault
    BY <2>1, <2>3, <1>1, FaultCounts
  <2> QED
    BY <2>2, <2>3
<1>3. RestTyped'
  BY <1>1, <1>2 DEF RestTyped, repository, environment, events, history
<1>4. \A d \in Calls \ {c} : Spares(d)
  BY <1>1, <1>2 DEF Spares, Moves, RestTyped, repository, environment, events, history
<1>5. StoreIsKept' /\ PermitExecutesOnce'
  BY StoreUntouched DEF DispatchInv, Moves, environment
<1> QED
  BY <1>3, <1>4, <1>5, OneCallMoves

LEMMA NotSpawnedKeeps ==
  ASSUME DispatchInv, NEW c \in Calls, NotSpawned(c)
  PROVE  DispatchInv'
<1>1. CallsTyped /\ CallIsSound(c) /\ At(c, "probe") /\ ~At(c, "new")
  BY TypesSplit DEF DispatchInv, NotSpawned, At
<1>2. /\ Moves(c) /\ call'[c].phase = "finalize" /\ call'[c].result = "execution_failed"
      /\ call'[c].todo = {} /\ call'[c].permit = call[c].permit
      /\ call'[c].executed = call[c].executed /\ TargetsIn(c)' = TargetsIn(c)
  BY <1>1, Finishes DEF NotSpawned, Results
<1>3. Quiet(c)
  BY <1>2 DEF Quiet, NotSpawned, events
<1>4. CallIsSound(c)'
  BY <1>1, <1>2
  DEF NotSpawned, repository, environment, events, history, processes, CallIsSound, PhaseIsSound, EventsAreSound, BarIsSound, ChildIsSound, TraceIsSound,
      UserIsSeen, Early, WriteBusy, ReadBusy, Refused, At
<1> QED
  BY <1>3, <1>4, QuietKeeps

LEMMA SpawnKeeps ==
  ASSUME DispatchInv, NEW c \in Calls, Spawn(c)
  PROVE  DispatchInv'
<1> DEFINE p == [state |-> "alive", good |-> FALSE, timer |-> "timeout"]
<1>1. /\ CallsTyped /\ CallIsSound(c) /\ At(c, "probe") /\ ~At(c, "new") /\ call[c].todo = {}
      /\ child \in [Calls -> ChildStates]
  BY TypesSplit DEF DispatchInv, Spawn, At, CallsTyped, RestTyped
<1>2. /\ Moves(c) /\ call'[c].phase = "run" /\ call'[c].result = call[c].result
      /\ call'[c].todo = {} /\ call'[c].permit = call[c].permit
      /\ call'[c].executed = call[c].executed /\ TargetsIn(c)' = TargetsIn(c)
  BY <1>1, Goes DEF Spawn, Phases
<1>3. child' = [child EXCEPT ![c] = p] /\ p \in ChildStates
  BY DEF Spawn, ChildStates
<1>4. child'[c].state = "alive" /\ child'[c].timer = "timeout"
  BY <1>1, <1>3
<1> HIDE DEF p
<1>5. CallIsSound(c)'
  BY <1>1, <1>2, <1>4
  DEF Spawn, repository, environment, events, history, CallIsSound, PhaseIsSound, EventsAreSound, BarIsSound, ChildIsSound, TraceIsSound,
      UserIsSeen, Early, WriteBusy, ReadBusy, Refused, At
<1> QED
  BY <1>2, <1>3, <1>5, ChildMoves DEF Spawn

\* The child changes while its call goes on, or after it was answered.
LEMMA ChildAloneMoves ==
  ASSUME DispatchInv, NEW c \in Calls, NEW p \in ChildStates, child' = [child EXCEPT ![c] = p],
         child[c].state # "none", p.state # "none", UNCHANGED <<dispatching, handoff>>,
         p.state = "alive" => child[c].state = "alive",
         At(c, "run") => p.state \in {"alive", "ended"} /\ p.timer \in {"timeout", "grace"},
         ~At(c, "run") => p.timer = child[c].timer /\ child[c].state # "closed"
  PROVE  DispatchInv'
<1>1. CallsTyped /\ RestTyped /\ CallIsSound(c) /\ child[c] \in ChildStates
  BY TypesSplit DEF DispatchInv, RestTyped
<1>2. child'[c] = p /\ UNCHANGED call /\ TargetsIn(c)' = TargetsIn(c)
  BY <1>1 DEF RestTyped, dispatching, TargetsIn
<1>3. Moves(c)
  BY <1>1, <1>2 DEF Moves, CallsTyped
<1>4. CallIsSound(c)'
  BY <1>1, <1>2
  DEF dispatching, repository, events, history, CallIsSound, PhaseIsSound, EventsAreSound, BarIsSound, ChildIsSound, TraceIsSound,
      UserIsSeen, Early, WriteBusy, ReadBusy, Refused, At
<1> QED
  BY <1>2, <1>3, <1>4, ChildMoves DEF dispatching, environment, repository, events, history

LEMMA TimeoutFiresKeeps ==
  ASSUME DispatchInv, NEW c \in Calls, TimeoutFires(c)
  PROVE  DispatchInv'
<1> DEFINE p == [child[c] EXCEPT !.timer = "grace"]
<1>1. child[c] \in ChildStates /\ CallIsSound(c) /\ At(c, "run") /\ child[c].timer = "timeout"
  BY TypesSplit DEF DispatchInv, RestTyped, TimeoutFires, Armed
<1>2. child[c].state \in {"alive", "ended"}
  BY <1>1 DEF CallIsSound, ChildIsSound
<1>3. child' = [child EXCEPT ![c] = p] /\ UNCHANGED <<dispatching, handoff>>
  BY DEF TimeoutFires
<1>4. p \in ChildStates /\ p.state = child[c].state /\ p.timer = "grace"
  BY <1>1 DEF ChildStates
<1> HIDE DEF p
<1> QED
  BY <1>1, <1>2, <1>3, <1>4, ChildAloneMoves

LEMMA ChildEndsKeeps ==
  ASSUME DispatchInv, NEW c \in Calls, NEW good \in BOOLEAN, ChildEnds(c, good)
  PROVE  DispatchInv'
<1> DEFINE p == [child[c] EXCEPT !.state = "ended", !.good = good]
<1>1. child[c] \in ChildStates /\ CallIsSound(c) /\ child[c].state = "alive"
  BY TypesSplit DEF DispatchInv, RestTyped, ChildEnds
<1>2. At(c, "run") => child[c].timer \in {"timeout", "grace"}
  BY <1>1 DEF CallIsSound, ChildIsSound
<1>3. child' = [child EXCEPT ![c] = p] /\ UNCHANGED <<dispatching, handoff>>
  BY DEF ChildEnds
<1>4. p \in ChildStates /\ p.state = "ended" /\ p.timer = child[c].timer
  BY <1>1 DEF ChildStates
<1> HIDE DEF p
<1> QED
  BY <1>1, <1>2, <1>3, <1>4, ChildAloneMoves

\* A call that waits for its child is settled without success: the child is
\* closed or killed, or the fault is on record.
LEMMA SettlesBadly ==
  ASSUME DispatchInv, NEW c \in Calls, At(c, "run"), Settle(c, "execution_failed"),
         NEW p \in ChildStates, child' = [child EXCEPT ![c] = p], p.state # "none",
         faults' = faults \/ Fault,
         p.state = "alive" => p.timer = "killed" \/ Fault,
         UNCHANGED <<repository, environment, consumed, events, history, handoff>>
  PROVE  DispatchInv'
<1>1. CallsTyped /\ RestTyped /\ CallIsSound(c) /\ ~At(c, "new")
  BY TypesSplit DEF DispatchInv, At
<1>2. /\ Moves(c) /\ call'[c].phase = "finalize" /\ call'[c].result = "execution_failed"
      /\ call'[c].todo = {} /\ call'[c].permit = call[c].permit
      /\ call'[c].executed = call[c].executed /\ TargetsIn(c)' = TargetsIn(c)
  BY <1>1, Finishes DEF Settle, Results
<1>3. child'[c] = p
  BY <1>1 DEF RestTyped
<1>4. Fault => faults' + crashes' > 0
  <2>1. Fault => faults' + crashes > 0
    BY <1>1, FaultCounts
  <2>2. crashes' = crashes
    BY DEF environment
  <2> QED
    BY <2>1, <2>2
<1>5. CallIsSound(c)'
  BY <1>1, <1>2, <1>3, <1>4
  DEF repository, environment, events, history, CallIsSound, PhaseIsSound, EventsAreSound, BarIsSound, ChildIsSound, TraceIsSound,
      UserIsSeen, Early, WriteBusy, ReadBusy, Refused, At
<1> QED
  BY <1>2, <1>5, ChildMoves

LEMMA SettlingKeeps ==
  ASSUME DispatchInv, NEW c \in Calls, KillFails(c) \/ ForceSettle(c) \/ OnError(c)
  PROVE  DispatchInv'
<1>1. child[c] \in ChildStates /\ CallIsSound(c) /\ At(c, "run") /\ child[c].state # "none"
  BY TypesSplit
  DEF DispatchInv, RestTyped, KillFails, ForceSettle, OnError, Armed, CallIsSound, ChildIsSound
<1>2. CASE KillFails(c)
  <2> DEFINE p == [child[c] EXCEPT !.timer = "grace"]
  <2>1. p \in ChildStates /\ p.state = child[c].state
    BY <1>1 DEF ChildStates
  <2>2. child' = [child EXCEPT ![c] = p] /\ Fault /\ Settle(c, "execution_failed")
    BY <1>2 DEF KillFails
  <2> HIDE DEF p
  <2> QED
    BY <1>1, <1>2, <2>1, <2>2, SettlesBadly DEF KillFails
<1>3. CASE ForceSettle(c)
  <2> DEFINE p == [child[c] EXCEPT !.timer = "killed"]
  <2>1. p \in ChildStates /\ p.state = child[c].state /\ p.timer = "killed"
    BY <1>1 DEF ChildStates
  <2>2. child' = [child EXCEPT ![c] = p] /\ Settle(c, "execution_failed")
    BY <1>3 DEF ForceSettle
  <2> HIDE DEF p
  <2> QED
    BY <1>1, <1>3, <2>1, <2>2, SettlesBadly DEF ForceSettle
<1>4. CASE OnError(c)
  <2> DEFINE p == [child[c] EXCEPT !.state = "closed"]
  <2>1. p \in ChildStates /\ p.state = "closed"
    BY <1>1 DEF ChildStates
  <2>2. child' = [child EXCEPT ![c] = p] /\ Settle(c, "execution_failed")
    BY <1>4 DEF OnError
  <2> HIDE DEF p
  <2> QED
    BY <1>1, <1>4, <2>1, <2>2, SettlesBadly DEF OnError
<1> QED
  BY <1>2, <1>3, <1>4

LEMMA OnCloseKeeps ==
  ASSUME DispatchInv, NEW c \in Calls, NEW clean \in BOOLEAN, OnClose(c, clean)
  PROVE  DispatchInv'
<1> DEFINE p == [child[c] EXCEPT !.state = "closed"]
           res == IF clean /\ InspectionPasses(c) THEN "succeeded" ELSE "execution_failed"
<1>1. CallsTyped /\ child \in [Calls -> ChildStates] /\ CallIsSound(c) /\ child[c].state = "ended"
  BY TypesSplit DEF DispatchInv, RestTyped, OnClose
<1>2. p \in ChildStates /\ p.state = "closed" /\ p.timer = child[c].timer /\ p.good = child[c].good
  BY <1>1 DEF ChildStates
<1>3. /\ child' = [child EXCEPT ![c] = p] /\ Settle(c, res)
      /\ UNCHANGED <<repository, environment, consumed, events, faults, history, handoff>>
  BY DEF OnClose
<1>4. /\ res \in {"succeeded", "execution_failed"}
      /\ res = "succeeded" => child[c].good /\ child[c].timer = "timeout"
  BY DEF InspectionPasses
<1> HIDE DEF p, res
<1>5. child'[c] = p
  BY <1>1, <1>3
<1>6. CASE At(c, "run")
  <2>1. ~At(c, "new")
    BY <1>6 DEF At
  <2>2. /\ Moves(c) /\ call'[c].phase = "finalize" /\ call'[c].result = res
        /\ call'[c].todo = {} /\ call'[c].permit = call[c].permit
        /\ call'[c].executed = call[c].executed /\ TargetsIn(c)' = TargetsIn(c)
    BY <1>1, <1>3, <1>4, <1>6, <2>1, Finishes DEF Settle, Results
  <2>3. PhaseIsSound(c)' /\ EventsAreSound(c)' /\ BarIsSound(c)' /\ UserIsSeen(c)'
    BY <1>1, <1>3, <1>4, <1>6, <2>2
    DEF repository, environment, events, history, CallIsSound, PhaseIsSound, EventsAreSound, BarIsSound, ChildIsSound, TraceIsSound,
      UserIsSeen, Early, WriteBusy, ReadBusy, Refused, At
  <2>4. \A f \in Paths : work[f] # c /\ tree[f] # c
    BY <1>1, <1>6 DEF CallIsSound, PhaseIsSound, TraceIsSound, ReadBusy, At
  <2>5. TraceIsSound(c)'
    BY <1>3, <2>4 DEF TraceIsSound, repository
  <2>6. ChildIsSound(c)'
    <3>1. call[c].executed /\ TargetsIn(c) = {}
      BY <1>1, <1>6 DEF CallIsSound, PhaseIsSound, ReadBusy, At
    <3>2. res = "succeeded" => p.good
      BY <1>2, <1>4, Zenon
    <3> QED
      BY <1>2, <1>4, <1>5, <2>2, <3>1, <3>2 DEF ChildIsSound, At
  <2> QED
    BY <1>2, <1>3, <2>2, <2>3, <2>5, <2>6, ChildMoves DEF CallIsSound
<1>7. CASE ~At(c, "run")
  <2>1. UNCHANGED call
    BY <1>3, <1>7 DEF Settle
  <2>2. UNCHANGED <<dispatching, handoff>>
    BY <1>3, <2>1 DEF dispatching, environment, repository, events, history
  <2> QED
    BY <1>1, <1>2, <1>3, <1>7, <2>2, ChildAloneMoves
<1> QED
  BY <1>6, <1>7

LEMMA ReadOnlyStepKeeps ==
  ASSUME DispatchInv, NEW c \in Calls, IsReadOnly(c), ReadOnlyStep(c)
  PROVE  DispatchInv'
<1>1. ASSUME NEW ok \in BOOLEAN, ReviewReadOnly(c, ok) PROVE DispatchInv'
  BY <1>1, ReviewKeeps DEF ReviewReadOnly
<1>2. ASSUME NEW ok \in BOOLEAN, StartReadOnly(c, ok) PROVE DispatchInv'
  BY <1>2, StartReadOnlyKeeps
<1>3. ASSUME NEW ok \in BOOLEAN, Execute(c, ok) PROVE DispatchInv'
  BY <1>3, ExecuteKeeps
<1>4. ASSUME NEW ok \in BOOLEAN, OnClose(c, ok) PROVE DispatchInv'
  BY <1>4, OnCloseKeeps
<1>5. ASSUME NEW ok \in BOOLEAN, ChildEnds(c, ok) PROVE DispatchInv'
  BY <1>5, ChildEndsKeeps
<1>6. CASE ReadOnlyBlocked(c)
  BY <1>6, RunnerRefusalKeeps DEF ReadOnlyBlocked, RunnerBlocks, events
<1>7. CASE PromptLapses(c)
  BY <1>7, PromptLapsesKeeps
<1>8. CASE NotSpawned(c)
  BY <1>8, NotSpawnedKeeps
<1>9. CASE Spawn(c)
  BY <1>9, SpawnKeeps
<1>10. CASE TimeoutFires(c)
  BY <1>10, TimeoutFiresKeeps
<1>11. CASE KillFails(c) \/ ForceSettle(c) \/ OnError(c)
  BY <1>11, SettlingKeeps
<1>12. CASE FinalizeReadOnly(c)
  BY <1>12, FinalizeKeeps DEF FinalizeReadOnly
<1> QED
  BY <1>1, <1>2, <1>3, <1>4, <1>5, <1>6, <1>7, <1>8, <1>9, <1>10, <1>11, <1>12 DEF ReadOnlyStep

-----------------------------------------------------------------------------
(* Begin, environment, crash                                               *)

\* Prepare and PlanExecution.
LEMMA BeginKeeps ==
  ASSUME DispatchInv, NEW c \in Calls, NEW k \in Permits, At(c, "new"),
         call' = [call EXCEPT ![c].phase = "review", ![c].permit = k, ![c].live = running],
         barred' = IF running /\ k \notin expired THEN barred ELSE barred \cup {c},
         handoff' \subseteq Permits,
         UNCHANGED <<repository, environment, consumed, events, faults, raced, child>>
  PROVE  DispatchInv'
<1>1. CallsTyped /\ RestTyped /\ CallIsSound(c)
  BY TypesSplit DEF DispatchInv
<1>2. call[c] \in CallStates /\ call[c].todo = {} /\ ~call[c].executed /\ c \notin barred
  BY <1>1 DEF CallsTyped, At, CallIsSound, PhaseIsSound, BarIsSound, Early
<1> DEFINE r == [call[c] EXCEPT !.phase = "review", !.permit = k, !.live = running]
<1>3. r \in CallStates
  BY <1>1, <1>2 DEF CallStates, Phases, RestTyped
<1>4. /\ r.phase = "review" /\ r.permit = k /\ r.live = running /\ r.todo = {}
      /\ r.executed = call[c].executed /\ r.result = call[c].result
  BY <1>2 DEF CallStates
<1>5. call' = [call EXCEPT ![c] = r]
  OBVIOUS
<1>6. k # NoPermit
  BY WorkspaceWriteAssumption DEF WorkspaceWriteAssumption
<1> HIDE DEF r
<1>7. Moves(c) /\ call'[c] = r
  BY <1>1, <1>3, <1>4, <1>5, <1>6, ReplacedMoves
<1>8. RestTyped'
  BY <1>1 DEF RestTyped, repository, environment, events
<1>9. \A d \in Calls \ {c} : Spares(d)
  <2>1. faults' + crashes' >= faults + crashes
    BY <1>1 DEF environment, RestTyped
  <2> QED
    BY <1>7, <2>1 DEF Spares, Moves, repository, environment, events
<1>10. child[c].state = "none" /\ \A f \in Paths : work[f] # c /\ tree[f] # c
  BY <1>1, <1>2 DEF CallIsSound, ChildIsSound, TraceIsSound, At
<1>11. CallIsSound(c)'
  <2>1. BarIsSound(c)'
    <3>1. c \in barred' => ~running \/ k \in expired
      BY <1>2
    <3> QED
      BY <1>2, <1>4, <1>7, <3>1 DEF BarIsSound, environment, At
  <2>2. PhaseIsSound(c)' /\ EventsAreSound(c)' /\ UserIsSeen(c)'
    BY <1>1, <1>2, <1>4, <1>7
    DEF CallIsSound, PhaseIsSound, EventsAreSound, UserIsSeen, Early, WriteBusy, ReadBusy, Refused, At
  <2>3. ChildIsSound(c)' /\ TraceIsSound(c)'
    BY <1>1, <1>2, <1>4, <1>7, <1>10
    DEF CallIsSound, PhaseIsSound, ChildIsSound, TraceIsSound, repository, At
  <2> QED
    BY <2>1, <2>2, <2>3 DEF CallIsSound
<1>12. StoreIsKept' /\ PermitExecutesOnce'
  BY <1>2, <1>4, <1>7, StoreUntouched DEF DispatchInv, Moves, environment
<1> QED
  BY <1>7, <1>8, <1>9, <1>11, <1>12, OneCallMoves

\* No call moves.
LEMMA EnvironmentMoves ==
  ASSUME DispatchInv, RestTyped', UNCHANGED <<call, child, consumed, durable, crashes>>,
         \A c \in Calls : Spares(c) \/ CallIsSound(c)'
  PROVE  DispatchInv'
<1>1. DispatchTypeOK'
  BY TypesSplit DEF DispatchInv, DispatchTypeOK, TypeOK, CallsTyped, RestTyped
<1>2. StoreIsKept' /\ PermitExecutesOnce'
  BY StoreUntouched DEF DispatchInv
<1> QED
  BY <1>1, <1>2, SparedIsSound DEF DispatchInv

LEMMA ActCounts == ASSUME RestTyped, Act PROVE acts' \in 0..MaxActs
BY WorkspaceWriteAssumption DEF WorkspaceWriteAssumption, RestTyped, Act

LEMMA OutsideKeeps ==
  ASSUME DispatchInv, Outside, UNCHANGED processes
  PROVE  DispatchInv'
<1>1. CallsTyped /\ RestTyped
  BY TypesSplit DEF DispatchInv
<1>2. faults' = faults /\ crashes' = crashes => faults' + crashes' >= faults + crashes
  BY <1>1 DEF RestTyped
<1>3. \A c \in Calls : c # "base" /\ c # "edited"
  BY WorkspaceWriteAssumption DEF WorkspaceWriteAssumption
<1>4. ASSUME NEW f \in Paths, NEW content \in {"base", "edited"}, UserEdits(f, content)
      PROVE  DispatchInv'
  <2>1. RestTyped'
    BY <1>1, <1>4, ActCounts DEF RestTyped, UserEdits, events, processes, Contents
  <2>2. \A c \in Calls : Spares(c)
    BY <1>1, <1>2, <1>3, <1>4 DEF Spares, UserEdits, RestTyped, events, processes
  <2> QED
    BY <1>4, <2>1, <2>2, EnvironmentMoves DEF UserEdits, processes
<1>5. CASE UserCommits
  <2>1. RestTyped'
    BY <1>1, <1>5, ActCounts DEF RestTyped, UserCommits, events, history, processes
  <2>2. \A c \in Calls : Spares(c)
    BY <1>2, <1>5 DEF Spares, UserCommits, events, history, processes
  <2> QED
    BY <1>5, <2>1, <2>2, EnvironmentMoves DEF UserCommits, processes
<1>6. CASE CancelRun
  <2>1. RestTyped'
    BY <1>1, <1>6, ActCounts DEF RestTyped, CancelRun, repository, events, history, processes
  <2>2. \A c \in Calls : Spares(c)
    BY <1>2, <1>6 DEF Spares, CancelRun, repository, events, history, processes
  <2> QED
    BY <1>6, <2>1, <2>2, EnvironmentMoves DEF CancelRun, processes
<1>7. ASSUME NEW k \in Permits, Expire(k)
      PROVE  DispatchInv'
  <2>1. RestTyped'
    BY <1>1, <1>7, ActCounts DEF RestTyped, Expire, repository, events, processes
  <2>2. ASSUME NEW c \in Calls PROVE Spares(c) \/ CallIsSound(c)'
    <3>1. CASE c \in barred' => c \in barred
      BY <1>2, <1>7, <3>1 DEF Spares, Expire, repository, events, processes
    <3>2. CASE c \in barred' /\ c \notin barred
      <4>1. /\ CallIsSound(c) /\ call[c].phase \in {"review", "validate", "execute"}
            /\ call[c].permit = k
        BY <1>7, <3>2 DEF DispatchInv, Expire
      <4>2. /\ expired' = expired \cup {k} /\ TargetsIn(c)' = TargetsIn(c)
            /\ UNCHANGED <<repository, call, events, faults, crashes, raced, child>>
        BY <1>7 DEF Expire, TargetsIn, processes
      <4> QED
        BY <4>1, <4>2 DEF repository, events, CallIsSound, PhaseIsSound, EventsAreSound, BarIsSound, ChildIsSound, TraceIsSound,
      UserIsSeen, Early, WriteBusy, ReadBusy, Refused, At
    <3> QED
      BY <3>1, <3>2
  <2> QED
    BY <1>7, <2>1, <2>2, EnvironmentMoves DEF Expire, processes
<1> QED
  BY <1>4, <1>5, <1>6, <1>7 DEF Outside

LEMMA PromptExpiresKeeps ==
  ASSUME DispatchInv, NEW k \in Permits, PromptExpires(k)
  PROVE  DispatchInv'
<1>1. CallsTyped /\ RestTyped
  BY TypesSplit DEF DispatchInv
<1>2. RestTyped'
  BY <1>1, ActCounts DEF RestTyped, PromptExpires, Act, repository, events, history
<1>3. \A c \in Calls : Spares(c)
  <2>1. faults' + crashes' >= faults + crashes
    BY <1>1 DEF PromptExpires, RestTyped
  <2> QED
    BY <2>1 DEF Spares, PromptExpires, repository, events, history
<1> QED
  BY <1>2, <1>3, EnvironmentMoves DEF PromptExpires

LEMMA HostCrashKeeps ==
  ASSUME DispatchInv, HostCrash
  PROVE  DispatchInv'
<1>1. CallsTyped /\ RestTyped
  BY TypesSplit DEF DispatchInv
<1>2. /\ crashes' = crashes + 1 /\ crashes < MaxCrashes /\ handoff' = {} /\ UNCHANGED child
      /\ UNCHANGED <<repository, running, expired, durable, events, acts, faults, history>>
      /\ consumed' = IF durable THEN consumed ELSE {}
  BY DEF HostCrash, Crash
<1>3. crashes \in Nat /\ MaxCrashes \in Nat /\ faults \in Nat
  BY <1>1, WorkspaceWriteAssumption DEF WorkspaceWriteAssumption, RestTyped
<1>4. /\ crashes' \in 0..MaxCrashes /\ faults' + crashes' > 0 /\ crashes' # 0
      /\ faults' + crashes' >= faults + crashes
  <2>1. faults' = faults
    BY <1>2
  <2>2. crashes + 1 \in 0..MaxCrashes /\ faults + (crashes + 1) > 0 /\ crashes + 1 # 0
        /\ faults + (crashes + 1) >= faults + crashes
    BY <1>2, <1>3
  <2> QED
    BY <1>2, <2>1, <2>2
<1>5. RestTyped'
  BY <1>1, <1>2, <1>4 DEF RestTyped, repository, events, history
<1>6. \A c \in Calls :
        call'[c] = IF call[c].phase \in {"new", "done"} THEN call[c]
                   ELSE [call[c] EXCEPT !.phase = "done", !.todo = {}, !.result = "rejected"]
  BY DEF HostCrash, Crash
<1>7. ASSUME NEW c \in Calls, call[c].phase \notin {"new", "done"}
      PROVE  /\ call'[c] \in CallStates /\ call'[c].phase = "done" /\ call'[c].todo = {}
             /\ call'[c].result = "rejected" /\ call'[c].permit = call[c].permit
             /\ call'[c].executed = call[c].executed
  <2> DEFINE r == [call[c] EXCEPT !.phase = "done", !.todo = {}, !.result = "rejected"]
  <2>1. call'[c] = r /\ call[c] \in CallStates
    BY <1>1, <1>6, <1>7 DEF CallsTyped
  <2>2. /\ r \in CallStates /\ r.phase = "done" /\ r.todo = {} /\ r.result = "rejected"
        /\ r.permit = call[c].permit /\ r.executed = call[c].executed
    BY <2>1 DEF CallStates, Phases, Results
  <2> HIDE DEF r
  <2> QED
    BY <2>1, <2>2
<1>8. ASSUME NEW c \in Calls, call[c].phase \in {"new", "done"}
      PROVE  call'[c] = call[c]
  BY <1>6, <1>8
<1>9. CallsTyped'
  <2>1. call' \in [Calls -> CallStates]
    <3>1. call' = [c \in Calls |-> call'[c]]
      BY DEF HostCrash, Crash
    <3>2. \A c \in Calls : call'[c] \in CallStates
      BY <1>1, <1>7, <1>8 DEF CallsTyped
    <3> QED
      BY <3>1, <3>2
  <2> QED
    BY <1>1, <1>7, <1>8, <2>1 DEF CallsTyped
<1>10. DispatchTypeOK'
  BY <1>5, <1>9 DEF DispatchTypeOK, TypeOK, CallsTyped, RestTyped
<1>11. ASSUME NEW c \in Calls PROVE CallIsSound(c)'
  <2>1. CallIsSound(c)
    BY DEF DispatchInv
  <2>2. CASE call[c].phase \in {"new", "done"}
    <3>1. Spares(c)
      BY <1>2, <1>4, <1>8, <2>2 DEF Spares, repository, events, history
    <3> QED
      BY <1>10, <2>1, <3>1, SparedIsSound DEF DispatchInv
  <2>3. CASE call[c].phase \notin {"new", "done"}
    <3>1. TargetsIn(c)' = TargetsIn(c)
      BY <1>7, <2>3 DEF TargetsIn
    <3> QED
      BY <1>2, <1>4, <1>7, <2>1, <2>3, <3>1
      DEF repository, events, history, CallIsSound, PhaseIsSound, EventsAreSound, BarIsSound, ChildIsSound, TraceIsSound,
      UserIsSeen, Early, WriteBusy, ReadBusy, Refused, At
  <2> QED
    BY <2>2, <2>3
<1>12. \A c \in Calls : call'[c].executed = call[c].executed /\ call'[c].permit = call[c].permit
  BY <1>7, <1>8
<1>13. StoreIsKept'
  BY <1>2, <1>3, <1>4, <1>12 DEF DispatchInv, StoreIsKept
<1>14. PermitExecutesOnce'
  BY <1>2, <1>4, <1>12 DEF DispatchInv, PermitExecutesOnce
<1> QED
  BY <1>10, <1>11, <1>13, <1>14 DEF DispatchInv

-----------------------------------------------------------------------------
(* The theorems                                                            *)

LEMMA InitInv == Init => DispatchInv
<1> SUFFICES ASSUME Init PROVE DispatchInv
  OBVIOUS
<1>1. /\ NewCall \in CallStates /\ NewCall.phase = "new" /\ NewCall.permit = NoPermit
      /\ NewCall.executed = FALSE /\ NewCall.todo = {} /\ NewCall.result = "none"
  BY DEF NewCall, CallStates, Phases, Results
<1>2. NoChild \in ChildStates /\ NoChild.state = "none"
  BY DEF NoChild, ChildStates
<1>3. \A c \in Calls : call[c] = NewCall /\ child[c] = NoChild
  BY DEF Init, WriteInit
<1>4. CallsTyped
  BY <1>1, <1>3 DEF Init, WriteInit, CallsTyped
<1>5. RestTyped
  <2>1. work \in [Paths -> Contents] /\ tree \in [Paths -> Contents]
    BY DEF Init, WriteInit, Contents
  <2>2. acts \in 0..MaxActs /\ faults \in 0..MaxFaults /\ crashes \in 0..MaxCrashes
    BY WorkspaceWriteAssumption DEF WorkspaceWriteAssumption, Init, WriteInit
  <2>3. raced \in [Calls -> SUBSET Paths] /\ child \in [Calls -> ChildStates]
    BY <1>2 DEF Init, WriteInit
  <2> QED
    BY <2>1, <2>2, <2>3 DEF Init, WriteInit, RestTyped
<1>6. \A c \in Calls, f \in Paths : work[f] # c /\ tree[f] # c
  BY WorkspaceWriteAssumption DEF WorkspaceWriteAssumption, Init, WriteInit
<1>7. ASSUME NEW c \in Calls PROVE CallIsSound(c)
  <2>1. /\ call[c].phase = "new" /\ ~call[c].executed /\ call[c].result = "none"
        /\ child[c].state = "none" /\ c \notin barred
    BY <1>1, <1>2, <1>3 DEF Init, WriteInit
  <2>2. PhaseIsSound(c) /\ EventsAreSound(c) /\ BarIsSound(c)
    BY <2>1 DEF PhaseIsSound, EventsAreSound, BarIsSound, Early, WriteBusy, ReadBusy, Refused, At
  <2>3. ChildIsSound(c) /\ TraceIsSound(c) /\ UserIsSeen(c)
    BY <2>1, <1>6 DEF ChildIsSound, TraceIsSound, UserIsSeen, WriteBusy, At
  <2> QED
    BY <2>2, <2>3 DEF CallIsSound
<1>8. StoreIsKept /\ PermitExecutesOnce
  BY <1>1, <1>3 DEF Init, WriteInit, StoreIsKept, PermitExecutesOnce
<1> QED
  BY <1>4, <1>5, <1>7, <1>8, TypesSplit DEF DispatchInv

LEMMA StepInv == DispatchInv /\ [Next]_vars => DispatchInv'
<1> SUFFICES ASSUME DispatchInv, [Next]_vars PROVE DispatchInv'
  OBVIOUS
<1>1. ASSUME NEW c \in Calls, NEW k \in Permits, Prepare(c, k), UNCHANGED processes
      PROVE  DispatchInv'
  <2>1. handoff' \subseteq Permits
    BY <1>1 DEF DispatchInv, DispatchTypeOK, processes
  <2> QED
    BY <1>1, <2>1, BeginKeeps DEF Prepare, processes
<1>2. ASSUME NEW c \in Calls, NEW k \in Permits, PlanExecution(c, k)
      PROVE  DispatchInv'
  <2>1. handoff' \subseteq Permits
    BY <1>2 DEF DispatchInv, DispatchTypeOK, PlanExecution
  <2> QED
    BY <1>2, <2>1, BeginKeeps DEF PlanExecution
<1>3. ASSUME NEW c \in Calls, ~IsReadOnly(c), Step(c), UNCHANGED processes
      PROVE  DispatchInv'
  BY <1>3, WriteStepKeeps
<1>4. ASSUME NEW c \in Calls, IsReadOnly(c), ReadOnlyStep(c)
      PROVE  DispatchInv'
  BY <1>4, ReadOnlyStepKeeps
<1>5. CASE Outside /\ UNCHANGED processes
  BY <1>5, OutsideKeeps
<1>6. ASSUME NEW k \in Permits, PromptExpires(k)
      PROVE  DispatchInv'
  BY <1>6, PromptExpiresKeeps
<1>7. CASE HostCrash
  BY <1>7, HostCrashKeeps
<1>8. CASE UNCHANGED vars
  <2>1. CallsTyped /\ RestTyped
    BY TypesSplit DEF DispatchInv
  <2>2. /\ UNCHANGED <<work, tree, moved, running, expired, durable, consumed, call>>
        /\ UNCHANGED <<started, completed, acts, faults, crashes, raced, barred, handoff, child>>
    BY <1>8 DEF vars, dispatching, repository, events, history, processes
  <2>3. RestTyped'
    BY <2>1, <2>2 DEF RestTyped
  <2>4. faults' + crashes' >= faults + crashes
    BY <2>1, <2>2 DEF RestTyped
  <2>5. \A c \in Calls : Spares(c)
    BY <2>2, <2>4 DEF Spares
  <2> QED
    BY <2>2, <2>3, <2>5, EnvironmentMoves
<1> QED
  BY <1>1, <1>2, <1>3, <1>4, <1>5, <1>6, <1>7, <1>8 DEF Next, Terminating

(* The inductive invariant: in every reachable state every call is where     *)
(* its phase says, with the permit, events, child and contents that go with  *)
(* it, and the consumption store knows who executed.                         *)
THEOREM DispatchInvariant == Spec => []DispatchInv
BY InitInv, StepInv, PTL DEF Spec

(* However many dispatches present a permit, write or read-only, and         *)
(* wherever they interleave or crash, at most one executes under it, unless  *)
(* the store was not durable and there was a crash (consumeIfUnused).        *)
THEOREM DispatchOnce == Spec => []PermitExecutesOnce
<1>1. DispatchInv => PermitExecutesOnce
  BY DEF DispatchInv
<1> QED
  BY <1>1, DispatchInvariant, PTL

(* A dispatch that is over has left no content of its own and no process     *)
(* that was not killed, and one that was refused has left no trace.          *)
THEOREM DispatchLeavesNothing == Spec => []NothingIsLeft
<1>1. DispatchInv => NothingIsLeft
  <2> SUFFICES ASSUME DispatchInv PROVE NothingIsLeft
    OBVIOUS
  <2>1. WritesAreTemporary
    BY DEF DispatchInv, CallIsSound, TraceIsSound, WritesAreTemporary
  <2>2. SuccessLeavesNothing
    <3> SUFFICES ASSUME NEW c \in Calls, call[c].result = "succeeded", NEW f \in Paths
                 PROVE  work[f] # c /\ tree[f] # c
      BY DEF SuccessLeavesNothing
    <3>1. PhaseIsSound(c) /\ TraceIsSound(c)
      BY DEF DispatchInv, CallIsSound
    <3>2. call[c].phase \in {"finalize", "done"}
      BY <3>1 DEF PhaseIsSound
    <3> QED
      BY <3>1, <3>2 DEF TraceIsSound, At
  <2>3. RefusedLeavesNoTrace
    <3>1. ASSUME NEW c \in Calls, NEW f \in Paths,
                 call[c].result \in {"dispatch_blocked", "validation_failed"}
          PROVE  work[f] # c /\ tree[f] # c
      <4>1. PhaseIsSound(c) /\ TraceIsSound(c)
        BY DEF DispatchInv, CallIsSound
      <4>2. ~call[c].executed /\ call[c].phase \notin WriteBusy
        BY <3>1, <4>1 DEF PhaseIsSound, Refused
      <4> QED
        BY <4>1, <4>2 DEF TraceIsSound, At, WriteBusy
    <3>2. ASSUME NEW k \in consumed
          PROVE  \E c \in Calls : /\ call[c].permit = k
                                  /\ call[c].result \notin {"dispatch_blocked", "validation_failed"}
      BY DEF DispatchInv, StoreIsKept, CallIsSound, PhaseIsSound, Refused
    <3> QED
      BY <3>1, <3>2 DEF RefusedLeavesNoTrace
  <2>4. ChildIsContained
    BY DEF DispatchInv, CallIsSound, ChildIsSound, ChildIsContained
  <2> QED
    BY <2>1, <2>2, <2>3, <2>4 DEF DispatchInv, NothingIsLeft
<1> QED
  BY <1>1, DispatchInvariant, PTL

(* Who executes came in time, has its started event and consumed its permit, *)
(* and success of a read-only execution is the child's own.                  *)
THEOREM DispatchIsAccountable == Spec => []ExecutionIsAccountable
<1>1. DispatchInv => ExecutionIsAccountable
  <2> SUFFICES ASSUME DispatchInv PROVE ExecutionIsAccountable
    OBVIOUS
  <2>1. LicenceIsRequired
    BY DEF DispatchInv, DispatchTypeOK, TypeOK, CallIsSound, BarIsSound, LicenceIsRequired
  <2>2. ExecutionIsLogged
    BY DEF DispatchInv, CallIsSound, EventsAreSound, ExecutionIsLogged
  <2>3. ChildIsLicensed
    BY DEF DispatchInv, CallIsSound, ChildIsSound, ChildIsLicensed
  <2>4. SuccessIsGenuine
    BY DEF DispatchInv, CallIsSound, ChildIsSound, SuccessIsGenuine, IsReadOnly
  <2> QED
    BY <2>1, <2>2, <2>3, <2>4 DEF ExecutionIsAccountable
<1> QED
  BY <1>1, DispatchInvariant, PTL

(* Writing and restoring destroy an uncommitted edit of a user only if it    *)
(* was made after the git status of the call that executes.                  *)
THEOREM DispatchSparesSeenEdits == Spec => SeenEditsSurvive
<1>1. DispatchInv /\ [Next]_vars =>
        [\A f \in Paths :
           work[f] = "edited" /\ tree[f] # "edited" /\ acts' = acts /\ work'[f] # "edited" =>
             \E c \in Calls : call[c].executed /\ f \in TargetsIn(c) \cap raced[c]]_dispatching
  <2> SUFFICES ASSUME DispatchInv, [Next]_vars, NEW f \in Paths,
                      work[f] = "edited", tree[f] # "edited", acts' = acts, work'[f] # "edited"
               PROVE  \E c \in Calls : call[c].executed /\ f \in TargetsIn(c) \cap raced[c]
    OBVIOUS
  <2>1. work' # work /\ RestTyped /\ CallsTyped /\ acts' # acts + 1
    BY TypesSplit DEF DispatchInv, RestTyped
  <2>2. PICK c \in Calls : ~IsReadOnly(c) /\ Step(c)
    BY <2>1
    DEF Next, vars, dispatching, repository, Terminating, Prepare, PlanExecution, ReadOnlyStep,
        ReviewReadOnly, Review, StartReadOnly, Execute, OnClose, ChildEnds, ReadOnlyBlocked,
        RunnerBlocks, PromptLapses, NotSpawned, Spawn, TimeoutFires, KillFails, ForceSettle,
        OnError, FinalizeReadOnly, Finalize, Outside, UserEdits, UserCommits, CancelRun, Expire,
        Act, PromptExpires, HostCrash, Crash
  <2>3. PICK g \in Paths : WriteTarget(c, g) \/ RestoreTarget(c, g)
    BY <2>1, <2>2
    DEF Step, Review, StartAndValidate, ConsumePermit, InspectDiff, RunnerBlocks, ProbeHead,
        ProbeStatus, ProbeFails, ApplyFails, HashingThrows, RestoreFails, Verify, Finalize, repository
  <2>4. g = f
    BY <2>1, <2>3 DEF WriteTarget, RestoreTarget, RestTyped
  <2>5. CallIsSound(c) /\ call[c].phase \in {"apply", "restore"} /\ f \in call[c].todo
    BY <2>3, <2>4 DEF DispatchInv, WriteTarget, RestoreTarget, At
  <2>6. call[c].executed /\ f \in TargetsIn(c) /\ f \in raced[c]
    BY <2>5 DEF CallIsSound, PhaseIsSound, UserIsSeen, WriteBusy, At
  <2> QED
    BY <2>6
<1> QED
  BY <1>1, DispatchInvariant, PTL DEF Spec, SeenEditsSurvive
=============================================================================
