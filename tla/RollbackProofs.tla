--------------------------- MODULE RollbackProofs ---------------------------
(***************************************************************************)
(* Proofs about Rollback, for every set of processes, permits and paths    *)
(* and every number of user actions, I/O errors and crashes.               *)
(*                                                                         *)
(* PermitRestoresOnce is not inductive: it needs that a call which has     *)
(* consumed its permit has not restored yet, that a permit under which     *)
(* files were restored has a marker, and that no second call is past the   *)
(* lock at the same time.                                                  *)
(*                                                                         *)
(* What the answers claim needs a second invariant: what a check has read  *)
(* is true as long as nobody acts, and the restore writes only targets its *)
(* own last check has read.                                                *)
(***************************************************************************)
EXTENDS Rollback, TLAPS

InLock(c) == c.phase \notin {"idle", "retain"}

\* What a call may rely on, by its phase, when the permits in used have a
\* marker and restored counts the restores.
Licensed(c, used, restored) ==
  /\ InLock(c) => c.permit \in Permits
  /\ c.phase \in {"adjacent", "recheck", "filters", "restore", "remove"} => c.permit \in used
  /\ c.phase \in {"adjacent", "recheck", "filters"} => restored[c.permit] = 0
  /\ c.phase = "restore" /\ c.todo = Updates => restored[c.permit] = 0
  /\ c.phase = "remove" /\ Updates = {} /\ c.todo = Creates => restored[c.permit] = 0

Spent == \A k \in Permits : applied[k] <= 1 /\ (applied[k] # 0 => k \in consumed)

RollbackInv ==
  /\ TypeOK
  /\ LockIsExclusive
  /\ \A p \in Processes : Licensed(proc[p], consumed, applied)
  /\ Spent

\* Type correctness of everything but the calls.
RestTyped ==
  /\ work \in [Paths -> Contents] /\ tree \in [Paths -> Contents]
  /\ head \in {"receipt", "moved"} /\ staged \in BOOLEAN
  /\ config \in {"same", "converted", "unsupported"}
  /\ receipt \in BOOLEAN /\ lock \in BOOLEAN /\ orphaned \in BOOLEAN /\ consumed \subseteq Permits
  /\ edits \in 0..MaxEdits /\ faults \in 0..MaxFaults /\ crashes \in 0..MaxCrashes
  /\ applied \in [Permits -> Nat]
  /\ raced \subseteq Targets /\ disturbed \subseteq Processes

\* A step that changes one call, without removing the lock: the call stays
\* outside the lock or was inside, and if it restored it was inside.
LEMMA OneCallMoves ==
  ASSUME RollbackInv, RestTyped', Spent',
         NEW p \in Processes, NEW c \in Calls, proc' = [proc EXCEPT ![p] = c],
         lock => lock', InLock(c) => Holding(p),
         consumed \subseteq consumed', applied' # applied => Holding(p),
         Licensed(c, consumed', applied')
  PROVE  RollbackInv'
<1>0. proc \in [Processes -> Calls]
  BY DEF RollbackInv, TypeOK
<1>1. proc' \in [Processes -> Calls]
  BY <1>0
<1>6. TypeOK'
  BY <1>1 DEF RestTyped, TypeOK
<1>2. \A q \in Processes : q # p => proc'[q] = proc[q]
  BY <1>0
<1>3. proc'[p] = c
  BY <1>0
<1>4. LockIsExclusive'
  BY <1>2, <1>3 DEF RollbackInv, LockIsExclusive, Holding, InLock
<1>5. ASSUME NEW q \in Processes PROVE Licensed(proc'[q], consumed', applied')
  <2>1. CASE q = p
    BY <2>1, <1>3 DEF Licensed, InLock
  <2>2. CASE q # p /\ ~InLock(proc[q])
    BY <2>2, <1>2 DEF Licensed, InLock
  <2>3. CASE q # p /\ InLock(proc[q])
    <3>1. ~Holding(p)
      BY <2>3 DEF RollbackInv, LockIsExclusive, Holding, InLock
    <3>2. applied' = applied
      BY <3>1
    <3> QED
      BY <2>3, <1>2, <3>2 DEF RollbackInv, Licensed, InLock
  <2> QED
    BY <2>1, <2>2, <2>3
<1> QED
  BY <1>4, <1>5, <1>6 DEF RollbackInv

LEMMA NewCallType ==
  ASSUME NEW ph \in Phases, NEW k \in Permits \cup {NoPermit}, NEW v \in BOOLEAN
  PROVE  /\ NewCall(ph, k, v) \in Calls
         /\ NewCall(ph, k, v).phase = ph
         /\ NewCall(ph, k, v).permit = k
BY DEF NewCall, Calls, Results

LEMMA IdleType ==
  ASSUME NEW r \in Results
  PROVE  Idle(r) \in Calls /\ Idle(r).phase = "idle"
BY DEF Idle, NewCall, Calls, Results, Phases, CheckPhases

LEMMA InitInv == Init => RollbackInv
<1> SUFFICES ASSUME Init PROVE RollbackInv
  OBVIOUS
<1>1. Idle("none") \in Calls /\ Idle("none").phase = "idle"
  BY IdleType DEF Results
<1>2. \A p \in Processes : proc[p] = Idle("none")
  BY DEF Init
<1>3. TypeOK
  <2>1. proc \in [Processes -> Calls]
    BY <1>1 DEF Init
  <2>2. work \in [Paths -> Contents] /\ tree \in [Paths -> Contents]
    BY DEF Init, Contents
  <2>3. edits \in 0..MaxEdits /\ faults \in 0..MaxFaults /\ crashes \in 0..MaxCrashes
    BY RollbackAssumption DEF RollbackAssumption, Init
  <2>4. applied \in [Permits -> Nat]
    BY DEF Init
  <2> QED
    BY <2>1, <2>2, <2>3, <2>4 DEF Init, TypeOK
<1>4. LockIsExclusive /\ \A p \in Processes : Licensed(proc[p], consumed, applied)
  BY <1>1, <1>2 DEF LockIsExclusive, Holding, Licensed, InLock
<1>5. Spent
  BY DEF Init, Spent
<1> QED
  BY <1>3, <1>4, <1>5 DEF RollbackInv

\* A call that leaves the phases before the restore or gives up keeps its
\* licence, as nothing it relies on changed.
LEMMA CallGoesOn ==
  ASSUME RollbackInv, RestTyped', NEW p \in Processes, NEW c \in Calls,
         proc' = [proc EXCEPT ![p] = c],
         lock => lock', UNCHANGED <<consumed, applied>>,
         InLock(c) => Holding(p), Licensed(c, consumed, applied)
  PROVE  RollbackInv'
<1>1. Spent'
  BY DEF RollbackInv, Spent
<1>2. Licensed(c, consumed', applied')
  BY DEF Licensed, InLock
<1> QED
  BY <1>1, <1>2, OneCallMoves

\* Failed(p) with everything else unchanged or typed.
LEMMA CallFails ==
  ASSUME RollbackInv, RestTyped', NEW p \in Processes, Failed(p),
         proc[p].phase # "idle", UNCHANGED <<lock, consumed, applied>>
  PROVE  RollbackInv'
<1>1. proc[p] \in Calls /\ Licensed(proc[p], consumed, applied)
  BY DEF RollbackInv, TypeOK
<1>2. CASE proc[p].phase = "retain"
  <2>1. proc' = [proc EXCEPT ![p] = Idle("reconciliation_required")]
    BY <1>2 DEF Failed
  <2>2. Idle("reconciliation_required") \in Calls /\ Idle("reconciliation_required").phase = "idle"
    BY IdleType DEF Results
  <2>3. Licensed(Idle("reconciliation_required"), consumed, applied) /\ ~InLock(Idle("reconciliation_required"))
    BY <2>2 DEF Licensed, InLock
  <2> QED
    BY <2>1, <2>2, <2>3, CallGoesOn
<1>3. CASE proc[p].phase # "retain"
  <2> DEFINE r == IF proc[p].phase = "preflight" THEN "blocked" ELSE "reconciliation_required"
             c == [proc[p] EXCEPT !.phase = "release", !.result = r]
  <2>1. proc' = [proc EXCEPT ![p] = c]
    BY <1>3 DEF Failed
  <2>2. r \in Results
    BY DEF Results
  <2>3. c \in Calls /\ c.phase = "release" /\ c.permit = proc[p].permit
    BY <1>1, <2>2 DEF Calls, Phases
  <2>4. Holding(p)
    BY <1>3 DEF Holding
  <2>5. proc[p].permit \in Permits
    BY <1>1, <2>4 DEF Licensed, InLock, Holding
  <2> HIDE DEF c
  <2>6. Licensed(c, consumed, applied)
    BY <2>3, <2>5 DEF Licensed
  <2> QED
    BY <2>1, <2>3, <2>4, <2>6, CallGoesOn
<1> QED
  BY <1>2, <1>3

\* The three steps of a check.
LEMMA CheckSteps ==
  ASSUME RollbackInv, NEW p \in Processes,
         \/ InspectHead(p)
         \/ InspectStatus(p)
         \/ \E f \in Targets : ReadHash(p, f)
  PROVE  RollbackInv'
<1>0. /\ proc[p] \in Calls /\ Licensed(proc[p], consumed, applied)
      /\ RestTyped
      /\ proc[p].todo \subseteq Targets
  BY DEF RollbackInv, TypeOK, RestTyped, Calls
<1>1. proc[p].phase \in CheckPhases /\ proc[p].phase # "idle"
  BY DEF InspectHead, InspectStatus, ReadHash, CheckPhases
<1>2. UNCHANGED <<repository, lock, orphaned, consumed, bounds, applied>>
  BY DEF InspectHead, InspectStatus, ReadHash
<1>3. raced' \subseteq Targets /\ disturbed' \subseteq Processes
  BY <1>0 DEF InspectHead, InspectStatus, ReadHash, RestTyped
<1>4. ASSUME receipt' \in BOOLEAN PROVE RestTyped'
  BY <1>0, <1>2, <1>3, <1>4 DEF RestTyped, repository, bounds
<1>5. CASE Failed(p)
  <2>1. RestTyped'
    BY <1>0, <1>4, <1>5 DEF Failed, RestTyped
  <2> QED
    BY <2>1, <1>1, <1>2, <1>5, CallFails
<1>6. CASE Passed(p)
  <2>1. RestTyped'
    BY <1>0, <1>4, <1>6 DEF Passed, RestTyped
  <2> DEFINE c == CASE proc[p].phase = "retain"    -> Idle("retained")
                    [] proc[p].phase = "preflight" -> [proc[p] EXCEPT !.phase = "consume"]
                    [] proc[p].phase = "adjacent"  -> [proc[p] EXCEPT !.phase = "recheck", !.read = "head"]
                    [] proc[p].phase = "recheck"   ->
                         [proc[p] EXCEPT !.phase = IF Updates = {} THEN "restore" ELSE "filters",
                                         !.todo = Updates]
                    [] proc[p].phase = "verify"    -> [proc[p] EXCEPT !.phase = "release",
                                                                      !.result = "rolled_back"]
  <2>2. proc' = [proc EXCEPT ![p] = c]
    BY <1>6 DEF Passed
  <2>3. c \in Calls /\ Licensed(c, consumed, applied) /\ (InLock(c) => Holding(p))
    <3>1. CASE proc[p].phase = "retain"
      <4>1. c = Idle("retained")
        BY <3>1
      <4> HIDE DEF c
      <4>2. Idle("retained") \in Calls /\ Idle("retained").phase = "idle"
        BY IdleType DEF Results
      <4> QED
        BY <4>1, <4>2 DEF Licensed, InLock
    <3>2. CASE proc[p].phase = "preflight"
      <4>1. c = [proc[p] EXCEPT !.phase = "consume"]
        BY <3>2
      <4> HIDE DEF c
      <4>2. c \in Calls /\ c.phase = "consume" /\ c.permit = proc[p].permit
        BY <4>1, <1>0 DEF Calls, Phases
      <4> QED
        BY <4>2, <3>2, <1>0 DEF Licensed, InLock, Holding
    <3>3. CASE proc[p].phase = "adjacent"
      <4>1. c = [proc[p] EXCEPT !.phase = "recheck", !.read = "head"]
        BY <3>3
      <4> HIDE DEF c
      <4>2. c \in Calls /\ c.phase = "recheck" /\ c.permit = proc[p].permit
        BY <4>1, <1>0 DEF Calls, Phases, CheckPhases
      <4> QED
        BY <4>2, <3>3, <1>0 DEF Licensed, InLock, Holding
    <3>4. CASE proc[p].phase = "recheck"
      <4> DEFINE ph == IF Updates = {} THEN "restore" ELSE "filters"
      <4>1. c = [proc[p] EXCEPT !.phase = ph, !.todo = Updates]
        BY <3>4
      <4>2. ph \in Phases /\ ph \in {"restore", "filters"} /\ Updates \in SUBSET Targets
        BY DEF Phases, Targets
      <4> HIDE DEF ph, c
      <4>3. c \in Calls /\ c.phase = ph /\ c.permit = proc[p].permit
        BY <4>1, <4>2, <1>0 DEF Calls
      <4> QED
        BY <4>2, <4>3, <3>4, <1>0 DEF Licensed, InLock, Holding
    <3>5. CASE proc[p].phase = "verify"
      <4>1. c = [proc[p] EXCEPT !.phase = "release", !.result = "rolled_back"]
        BY <3>5
      <4> HIDE DEF c
      <4>2. c \in Calls /\ c.phase = "release" /\ c.permit = proc[p].permit
        BY <4>1, <1>0 DEF Calls, Phases, Results
      <4> QED
        BY <4>2, <3>5, <1>0 DEF Licensed, InLock, Holding
    <3> QED
      BY <3>1, <3>2, <3>3, <3>4, <3>5, <1>1 DEF CheckPhases
  <2> HIDE DEF c
  <2> QED
    BY <2>1, <2>2, <2>3, <1>2, CallGoesOn
<1>7. ASSUME NEW c \in Calls, proc' = [proc EXCEPT ![p] = c], UNCHANGED receipt,
             c.phase = proc[p].phase, c.permit = proc[p].permit
      PROVE  RollbackInv'
  <2>1. RestTyped'
    BY <1>0, <1>4, <1>7 DEF RestTyped
  <2>2. Licensed(c, consumed, applied) /\ (InLock(c) => Holding(p))
    BY <1>0, <1>1, <1>7 DEF Licensed, InLock, Holding, CheckPhases
  <2> QED
    BY <2>1, <2>2, <1>2, <1>7, CallGoesOn
<1>8. CASE InspectHead(p) /\ ~Failed(p)
  <2> DEFINE c == [proc[p] EXCEPT !.read = "status"]
  <2>1. proc' = [proc EXCEPT ![p] = c] /\ UNCHANGED receipt
    BY <1>8 DEF InspectHead
  <2>2. c \in Calls /\ c.phase = proc[p].phase /\ c.permit = proc[p].permit
    BY <1>0 DEF Calls
  <2> HIDE DEF c
  <2> QED
    BY <2>1, <2>2, <1>7
<1>9. CASE InspectStatus(p) /\ ~Failed(p)
  <2> DEFINE c == [proc[p] EXCEPT !.read = "hash", !.todo = Targets]
  <2>1. proc' = [proc EXCEPT ![p] = c] /\ UNCHANGED receipt
    BY <1>9 DEF InspectStatus
  <2>2. c \in Calls /\ c.phase = proc[p].phase /\ c.permit = proc[p].permit
    BY <1>0 DEF Calls
  <2> HIDE DEF c
  <2> QED
    BY <2>1, <2>2, <1>7
<1>10. CASE (\E f \in Targets : ReadHash(p, f)) /\ ~Failed(p) /\ ~Passed(p)
  <2>1. PICK f \in Targets : ReadHash(p, f)
    BY <1>10
  <2> DEFINE c == [proc[p] EXCEPT !.todo = @ \ {f}]
  <2>2. proc' = [proc EXCEPT ![p] = c] /\ UNCHANGED receipt
    BY <1>10, <2>1 DEF ReadHash
  <2>3. c \in Calls /\ c.phase = proc[p].phase /\ c.permit = proc[p].permit
    BY <1>0 DEF Calls
  <2> HIDE DEF c
  <2> QED
    BY <2>2, <2>3, <1>7
<1> QED
  BY <1>5, <1>6, <1>8, <1>9, <1>10

\* A call ends outside the lock, or a new one starts there.
LEMMA OutsideCall ==
  ASSUME RollbackInv, NEW p \in Processes,
         \/ \E valid \in BOOLEAN : VerifyRetainedChange(p, valid)
         \/ StoreUntrusted(p)
         \/ LockUnavailable(p)
         \/ Crash(p)
  PROVE  RollbackInv'
<1>0. RestTyped
  BY DEF RollbackInv, TypeOK, RestTyped
<1>1. RestTyped'
  <2>1. CASE Crash(p)
    <3>1. orphaned' \in BOOLEAN
      BY <2>1 DEF Crash
    <3> QED
      BY <1>0, <2>1, <3>1, RollbackAssumption
      DEF RollbackAssumption, RestTyped, repository, Crash
  <2>2. CASE ~Crash(p)
    BY <1>0, <2>2, RollbackAssumption
    DEF RollbackAssumption, RestTyped, repository, bounds, VerifyRetainedChange,
        StoreUntrusted, LockUnavailable
  <2> QED
    BY <2>1, <2>2
<1>2. (lock => lock') /\ UNCHANGED <<consumed, applied>>
  BY DEF VerifyRetainedChange, StoreUntrusted, LockUnavailable, Crash
<1>3. \E c \in Calls : proc' = [proc EXCEPT ![p] = c] /\ ~InLock(c)
  <2>1. \A r \in Results : Idle(r) \in Calls /\ ~InLock(Idle(r))
    BY IdleType DEF InLock
  <2>2. \A v \in BOOLEAN : /\ NewCall("retain", NoPermit, v) \in Calls
                           /\ ~InLock(NewCall("retain", NoPermit, v))
    BY NewCallType DEF InLock, Phases, CheckPhases
  <2> QED
    BY <2>1, <2>2 DEF VerifyRetainedChange, StoreUntrusted, LockUnavailable, Crash, Results
<1>4. PICK c \in Calls : proc' = [proc EXCEPT ![p] = c] /\ ~InLock(c)
  BY <1>3
<1>5. Licensed(c, consumed, applied)
  BY <1>4 DEF Licensed, InLock
<1> QED
  BY <1>1, <1>2, <1>4, <1>5, CallGoesOn

\* acquireRollbackLock: no other call is inside, as the lock did not exist.
LEMMA Acquire ==
  ASSUME RollbackInv, NEW p \in Processes, NEW k \in Permits, NEW valid \in BOOLEAN,
         RunGovernedRollback(p, k, valid)
  PROVE  RollbackInv'
<1> DEFINE c == NewCall("preflight", k, valid)
<1>0. proc \in [Processes -> Calls] /\ RestTyped
  BY DEF RollbackInv, TypeOK, RestTyped
<1>1. c \in Calls /\ c.phase = "preflight" /\ c.permit = k
  BY NewCallType DEF Phases, CheckPhases
<1>2. proc' = [proc EXCEPT ![p] = c]
  BY DEF RunGovernedRollback
<1> HIDE DEF c
<1>3. proc' \in [Processes -> Calls] /\ proc'[p] = c
      /\ \A q \in Processes \ {p} : proc'[q] = proc[q]
  BY <1>0, <1>1, <1>2
<1>4. \A q \in Processes : ~Holding(q)
  BY DEF RollbackInv, LockIsExclusive, RunGovernedRollback, LockIsFree
<1>5. lock' = TRUE /\ UNCHANGED <<repository, receipt, orphaned, consumed, bounds, applied, raced, disturbed>>
  BY DEF RunGovernedRollback
<1>6. TypeOK'
  BY <1>0, <1>3, <1>5 DEF TypeOK, RestTyped, repository, bounds
<1>7. \A q \in Processes \ {p} : ~Holding(q)'
  BY <1>3, <1>4 DEF Holding
<1>8. LockIsExclusive'
  BY <1>5, <1>7 DEF LockIsExclusive
<1>9. ASSUME NEW q \in Processes PROVE Licensed(proc'[q], consumed', applied')
  <2>1. CASE q = p
    BY <2>1, <1>1, <1>3 DEF Licensed, InLock
  <2>2. CASE q # p
    BY <2>2, <1>7 DEF Licensed, InLock, Holding
  <2> QED
    BY <2>1, <2>2
<1>10. Spent'
  BY <1>5 DEF RollbackInv, Spent
<1> QED
  BY <1>6, <1>8, <1>9, <1>10 DEF RollbackInv

\* The permit: consumed once, or not at all.
LEMMA Consumption ==
  ASSUME RollbackInv, NEW p \in Processes, Consume(p) \/ Replay(p) \/ ConsumeThrows(p)
  PROVE  RollbackInv'
<1>0. /\ proc[p] \in Calls /\ Licensed(proc[p], consumed, applied)
      /\ RestTyped /\ Spent
  BY DEF RollbackInv, TypeOK, RestTyped
<1>1. proc[p].phase = "consume" /\ Holding(p) /\ proc[p].permit \in Permits
  BY <1>0 DEF Consume, Replay, ConsumeThrows, Holding, Licensed, InLock
<1>2. /\ lock' = lock /\ applied' = applied
      /\ consumed \subseteq consumed' /\ consumed' \subseteq Permits
  BY <1>0, <1>1 DEF Consume, Replay, ConsumeThrows, RestTyped, Release
<1>3. Spent'
  BY <1>0, <1>2 DEF Spent
<1>4. RestTyped'
  BY <1>0, <1>2, RollbackAssumption
  DEF RollbackAssumption, RestTyped, repository, bounds, Consume, Replay, ConsumeThrows
<1>5. CASE Consume(p)
  <2> DEFINE c == [proc[p] EXCEPT !.phase = "adjacent", !.read = "head", !.touched = TRUE]
  <2>1. proc' = [proc EXCEPT ![p] = c]
    BY <1>5 DEF Consume
  <2>2. c \in Calls /\ c.phase = "adjacent" /\ c.permit = proc[p].permit
    BY <1>0 DEF Calls, Phases, CheckPhases
  <2>3. proc[p].permit \notin consumed /\ proc[p].permit \in consumed'
    BY <1>5 DEF Consume, MarkerIsNew
  <2>4. applied[proc[p].permit] = 0
    BY <1>0, <1>1, <2>3 DEF Spent
  <2> HIDE DEF c
  <2>5. Licensed(c, consumed', applied')
    BY <1>1, <1>2, <2>2, <2>3, <2>4 DEF Licensed, InLock
  <2> QED
    BY <1>1, <1>2, <1>3, <1>4, <2>1, <2>2, <2>5, OneCallMoves
<1>6. ASSUME NEW c \in Calls, proc' = [proc EXCEPT ![p] = c], c.phase = "release",
             c.permit = proc[p].permit
      PROVE  RollbackInv'
  <2>1. Licensed(c, consumed', applied')
    BY <1>1, <1>6 DEF Licensed, InLock
  <2> QED
    BY <1>1, <1>2, <1>3, <1>4, <1>6, <2>1, OneCallMoves
<1>7. CASE Replay(p)
  <2> DEFINE c == [proc[p] EXCEPT !.phase = "release", !.result = "blocked"]
  <2>1. proc' = [proc EXCEPT ![p] = c]
    BY <1>7 DEF Replay, Release
  <2>2. c \in Calls /\ c.phase = "release" /\ c.permit = proc[p].permit
    BY <1>0 DEF Calls, Phases, Results
  <2> HIDE DEF c
  <2> QED
    BY <2>1, <2>2, <1>6
<1>8. CASE ConsumeThrows(p)
  <2> DEFINE c == [proc[p] EXCEPT !.phase = "release", !.touched = TRUE,
                                  !.result = "reconciliation_required"]
  <2>1. proc' = [proc EXCEPT ![p] = c]
    BY <1>8 DEF ConsumeThrows
  <2>2. c \in Calls /\ c.phase = "release" /\ c.permit = proc[p].permit
    BY <1>0 DEF Calls, Phases, Results
  <2> HIDE DEF c
  <2> QED
    BY <2>1, <2>2, <1>6
<1> QED
  BY <1>5, <1>7, <1>8

\* The restore primitive after its own check.
LEMMA RestoreSteps ==
  ASSUME RollbackInv, NEW p \in Processes,
         \/ FinalFilterCheck(p)
         \/ \E f \in Updates : RestoreUpdate(p, f)
         \/ RestoreDone(p)
         \/ \E f \in Creates : RemoveCreated(p, f)
         \/ RemoveDone(p)
         \/ RestoreThrows(p)
  PROVE  RollbackInv'
<1>0. /\ proc[p] \in Calls /\ Licensed(proc[p], consumed, applied)
      /\ RestTyped /\ Spent /\ proc[p].todo \subseteq Targets
  BY DEF RollbackInv, TypeOK, RestTyped, Calls
<1>1. /\ proc[p].phase \in {"filters", "restore", "remove"} /\ proc[p].phase # "idle"
      /\ Holding(p)
  BY DEF FinalFilterCheck, RestoreUpdate, RestoreDone, RemoveCreated, RemoveDone,
         RestoreThrows, Holding
<1>2. proc[p].permit \in Permits /\ proc[p].permit \in consumed
  BY <1>0, <1>1 DEF Licensed, InLock
<1>3. Updates \subseteq Targets /\ Creates \subseteq Targets
  BY DEF Targets
\* A step that goes on, without restoring a first file.
<1>4. ASSUME NEW c \in Calls, proc' = [proc EXCEPT ![p] = c], RestTyped',
             UNCHANGED <<lock, consumed, applied>>,
             c.permit = proc[p].permit, Licensed(c, consumed, applied)
      PROVE  RollbackInv'
  BY <1>1, <1>4, CallGoesOn
<1>5. CASE FinalFilterCheck(p)
  <2>1. RestTyped'
    BY <1>0, <1>5 DEF FinalFilterCheck, Failed, RestTyped, repository, bounds
  <2>2. UNCHANGED <<lock, consumed, applied>>
    BY <1>5 DEF FinalFilterCheck
  <2>3. CASE Failed(p)
    BY <2>1, <2>2, <2>3, <1>1, CallFails
  <2>4. CASE ~Failed(p)
    <3> DEFINE c == [proc[p] EXCEPT !.phase = "restore"]
    <3>1. proc' = [proc EXCEPT ![p] = c] /\ proc[p].phase = "filters"
      BY <1>5, <2>4 DEF FinalFilterCheck
    <3>2. c \in Calls /\ c.phase = "restore" /\ c.permit = proc[p].permit
      BY <1>0 DEF Calls, Phases
    <3> HIDE DEF c
    <3>3. Licensed(c, consumed, applied)
      BY <1>0, <1>2, <3>1, <3>2 DEF Licensed, InLock
    <3> QED
      BY <1>4, <2>1, <2>2, <3>1, <3>2, <3>3
  <2> QED
    BY <2>3, <2>4
<1>6. ASSUME NEW f \in Updates, RestoreUpdate(p, f)
      PROVE  RollbackInv'
  <2> DEFINE c == [proc[p] EXCEPT !.todo = @ \ {f}]
             k == proc[p].permit
             n == IF proc[p].todo = Updates THEN applied[k] + 1 ELSE applied[k]
  <2>1. /\ proc' = [proc EXCEPT ![p] = c]
        /\ applied' = [applied EXCEPT ![k] = n]
        /\ proc[p].phase = "restore" /\ f \in proc[p].todo
    BY <1>6 DEF RestoreUpdate
  <2>2. c \in Calls /\ c.phase = "restore" /\ c.permit = k /\ c.todo = proc[p].todo \ {f}
    BY <1>0, <2>1 DEF Calls
  <2>3. applied[k] \in Nat /\ applied[k] <= 1
    BY <1>0, <1>2 DEF Spent, RestTyped
  <2>4. n \in Nat /\ n <= 1
    BY <1>0, <2>1, <2>3 DEF Licensed
  <2>5. applied' \in [Permits -> Nat] /\ applied'[k] = n
        /\ \A j \in Permits \ {k} : applied'[j] = applied[j]
    BY <1>0, <1>2, <2>1, <2>4 DEF RestTyped
  <2> HIDE DEF c, n
  <2>6. work' \in [Paths -> Contents]
    BY <1>0, <1>6 DEF RestoreUpdate, RestTyped, Contents
  <2>7. RestTyped'
    BY <1>0, <1>6, <2>5, <2>6 DEF RestTyped, RestoreUpdate, bounds
  <2>8. Spent'
    BY <1>0, <1>2, <1>6, <2>4, <2>5 DEF Spent, RestoreUpdate
  <2>9. Licensed(c, consumed', applied')
    BY <1>2, <1>6, <2>2 DEF Licensed, InLock, RestoreUpdate
  <2>10. lock' = lock /\ consumed' = consumed
    BY <1>6 DEF RestoreUpdate
  <2> QED
    BY <1>1, <2>1, <2>2, <2>7, <2>8, <2>9, <2>10, OneCallMoves
<1>7. CASE RestoreDone(p)
  <2> DEFINE c == [proc[p] EXCEPT !.phase = "remove", !.todo = Creates]
  <2>1. proc' = [proc EXCEPT ![p] = c] /\ proc[p].phase = "restore" /\ proc[p].todo = {}
    BY <1>7 DEF RestoreDone
  <2>2. c \in Calls /\ c.phase = "remove" /\ c.permit = proc[p].permit
    BY <1>0, <1>3 DEF Calls, Phases
  <2> HIDE DEF c
  <2>3. Licensed(c, consumed, applied)
    BY <1>0, <1>2, <2>1, <2>2 DEF Licensed, InLock
  <2>4. RestTyped' /\ UNCHANGED <<lock, consumed, applied>>
    BY <1>0, <1>7 DEF RestTyped, RestoreDone, repository, bounds
  <2> QED
    BY <1>4, <2>1, <2>2, <2>3, <2>4
<1>8. ASSUME NEW f \in Creates, RemoveCreated(p, f)
      PROVE  RollbackInv'
  <2>1. CASE work[f] = "base"
    <3>1. Failed(p) /\ UNCHANGED <<lock, consumed, applied>>
      BY <1>8, <2>1 DEF RemoveCreated
    <3>2. RestTyped'
      BY <1>0, <1>8, <2>1 DEF RemoveCreated, Failed, RestTyped, bounds
    <3> QED
      BY <1>1, <3>1, <3>2, CallFails
  <2>2. CASE work[f] # "base"
    <3> DEFINE c == [proc[p] EXCEPT !.todo = @ \ {f}]
               k == proc[p].permit
               n == IF Updates = {} /\ proc[p].todo = Creates THEN applied[k] + 1 ELSE applied[k]
    <3>1. /\ proc' = [proc EXCEPT ![p] = c]
          /\ applied' = [applied EXCEPT ![k] = n]
          /\ proc[p].phase = "remove" /\ f \in proc[p].todo
      BY <1>8, <2>2 DEF RemoveCreated
    <3>2. c \in Calls /\ c.phase = "remove" /\ c.permit = k /\ c.todo = proc[p].todo \ {f}
      BY <1>0, <3>1 DEF Calls
    <3>3. applied[k] \in Nat /\ applied[k] <= 1
      BY <1>0, <1>2 DEF Spent, RestTyped
    <3>4. n \in Nat /\ n <= 1
      BY <1>0, <3>1, <3>3 DEF Licensed
    <3>5. applied' \in [Permits -> Nat] /\ applied'[k] = n
          /\ \A j \in Permits \ {k} : applied'[j] = applied[j]
      BY <1>0, <1>2, <3>1, <3>4 DEF RestTyped
    <3> HIDE DEF c, n
    <3>6. work' \in [Paths -> Contents]
      BY <1>0, <1>8, <2>2 DEF RemoveCreated, RestTyped, Contents
    <3>7. RestTyped'
      BY <1>0, <1>8, <2>2, <3>5, <3>6 DEF RestTyped, RemoveCreated, bounds
    <3>8. Spent'
      BY <1>0, <1>2, <1>8, <2>2, <3>4, <3>5 DEF Spent, RemoveCreated
    <3>9. Licensed(c, consumed', applied')
      BY <1>2, <1>8, <2>2, <3>2 DEF Licensed, InLock, RemoveCreated
    <3>10. lock' = lock /\ consumed' = consumed
      BY <1>8 DEF RemoveCreated
    <3> QED
      BY <1>1, <3>1, <3>2, <3>7, <3>8, <3>9, <3>10, OneCallMoves
  <2> QED
    BY <2>1, <2>2
<1>9. CASE RemoveDone(p)
  <2> DEFINE c == [proc[p] EXCEPT !.phase = "verify", !.read = "head"]
  <2>1. proc' = [proc EXCEPT ![p] = c]
    BY <1>9 DEF RemoveDone, Check
  <2>2. c \in Calls /\ c.phase = "verify" /\ c.permit = proc[p].permit
    BY <1>0 DEF Calls, Phases, CheckPhases
  <2> HIDE DEF c
  <2>3. Licensed(c, consumed, applied)
    BY <1>2, <2>2 DEF Licensed, InLock
  <2>4. RestTyped' /\ UNCHANGED <<lock, consumed, applied>>
    BY <1>0, <1>9 DEF RestTyped, RemoveDone, repository, bounds
  <2> QED
    BY <1>4, <2>1, <2>2, <2>3, <2>4
<1>10. CASE RestoreThrows(p)
  <2>1. RestTyped' /\ UNCHANGED <<lock, consumed, applied>>
    BY <1>0, <1>10, RollbackAssumption
    DEF RollbackAssumption, RestTyped, RestoreThrows, Failed, repository, bounds
  <2> QED
    BY <1>1, <1>10, <2>1, CallFails DEF RestoreThrows
<1> QED
  BY <1>5, <1>6, <1>7, <1>8, <1>9, <1>10

\* lock.release(): the only call inside leaves.
LEMMA ReleaseStep ==
  ASSUME RollbackInv, NEW p \in Processes, ReleaseLock(p)
  PROVE  RollbackInv'
<1> DEFINE c == [Idle(proc[p].result) EXCEPT !.permit = proc[p].permit,
                                             !.touched = proc[p].touched]
<1>0. /\ proc \in [Processes -> Calls] /\ proc[p] \in Calls /\ RestTyped
      /\ \A q \in Processes : Licensed(proc[q], consumed, applied)
  BY DEF RollbackInv, TypeOK, RestTyped
<1>1. proc' = [proc EXCEPT ![p] = c] /\ Holding(p)
  BY DEF ReleaseLock, Holding
<1>2. /\ proc[p].result \in Results
      /\ proc[p].permit \in Permits \cup {NoPermit}
      /\ proc[p].touched \in BOOLEAN
  BY <1>0 DEF Calls
<1>3. Idle(proc[p].result) \in Calls /\ Idle(proc[p].result).phase = "idle"
  BY <1>2, IdleType
<1>4. c \in Calls /\ c.phase = "idle"
  BY <1>2, <1>3 DEF Calls
<1> HIDE DEF c
<1>5. proc' \in [Processes -> Calls] /\ proc'[p] = c
      /\ \A q \in Processes \ {p} : proc'[q] = proc[q]
  BY <1>0, <1>1, <1>4
<1>c. \/ lock' = FALSE /\ orphaned' = orphaned /\ faults' = faults
      \/ lock' = lock /\ orphaned' = TRUE /\ faults < MaxFaults /\ faults' = faults + 1
  BY DEF ReleaseLock
<1>a. lock' \in BOOLEAN /\ orphaned' \in BOOLEAN /\ faults' \in 0..MaxFaults
  <2>1. lock \in BOOLEAN /\ orphaned \in BOOLEAN
    BY <1>0 DEF RestTyped
  <2>2. lock' \in BOOLEAN /\ orphaned' \in BOOLEAN
    BY <1>c, <2>1, Zenon
  <2>3. faults' \in 0..MaxFaults
    BY <1>0, <1>c, RollbackAssumption DEF RollbackAssumption, RestTyped
  <2> QED
    BY <2>2, <2>3
<1>b. UNCHANGED <<work, tree, head, staged, config, receipt, consumed, edits, crashes,
                  applied, raced, disturbed>>
  BY DEF ReleaseLock, repository
<1>6. RestTyped'
  BY <1>0, <1>a, <1>b DEF RestTyped
<1>7. TypeOK'
  BY <1>5, <1>6 DEF TypeOK, RestTyped
<1>8. \A q \in Processes : ~Holding(q)'
  BY <1>1, <1>4, <1>5 DEF RollbackInv, LockIsExclusive, Holding
<1>9. LockIsExclusive'
  BY <1>8 DEF LockIsExclusive
<1>10. \A q \in Processes : Licensed(proc'[q], consumed', applied')
  BY <1>8 DEF Licensed, InLock, Holding
<1>11. Spent'
  BY DEF RollbackInv, Spent, ReleaseLock
<1> QED
  BY <1>7, <1>9, <1>10, <1>11 DEF RollbackInv

\* Steps of the user and of the operator.
LEMMA OutsiderSteps ==
  ASSUME RollbackInv, OperatorRemovesLock \/ User
  PROVE  RollbackInv'
<1>0. /\ proc \in [Processes -> Calls] /\ RestTyped
  BY DEF RollbackInv, TypeOK, RestTyped
<1>1. UNCHANGED <<proc, consumed, applied, receipt, faults, crashes>>
  BY DEF OperatorRemovesLock, User, UserEdits, UserStages, UserCommits, UserConfigures, bounds
<1>2. \A f \in Paths : Blob(f) \in Contents
  BY <1>0 DEF Blob, RestTyped, Contents
<1>3. CASE OperatorRemovesLock
  <2>1. RestTyped'
    BY <1>0, <1>1, <1>3 DEF OperatorRemovesLock, RestTyped, repository, bounds
  <2>2. LockIsExclusive'
    BY <1>1, <1>3 DEF OperatorRemovesLock, LockIsExclusive, Holding
  <2> QED
    BY <1>0, <1>1, <2>1, <2>2 DEF RollbackInv, RestTyped, TypeOK, Spent
<1>4. CASE User
  <2>1. edits' \in 0..MaxEdits /\ disturbed' = Processes /\ lock' = lock /\ orphaned' = orphaned
    BY <1>0, <1>4, RollbackAssumption
    DEF RollbackAssumption, RestTyped, User, UserEdits, UserStages, UserCommits,
        UserConfigures, UserActs
  <2>2. work' \in [Paths -> Contents] /\ raced' \subseteq Targets
    BY <1>0, <1>4 DEF RestTyped, User, UserEdits, UserStages, UserCommits, UserConfigures, Contents
  <2>3. tree' \in [Paths -> Contents]
    BY <1>0, <1>2, <1>4 DEF RestTyped, User, UserEdits, UserStages, UserCommits, UserConfigures
  <2>4. head' \in {"receipt", "moved"} /\ staged' \in BOOLEAN
        /\ config' \in {"same", "converted", "unsupported"}
    BY <1>0, <1>4 DEF RestTyped, User, UserEdits, UserStages, UserCommits, UserConfigures
  <2>5. TypeOK'
    BY <1>0, <1>1, <2>1, <2>2, <2>3, <2>4 DEF RestTyped, TypeOK
  <2>6. LockIsExclusive'
    BY <1>1, <2>1 DEF RollbackInv, LockIsExclusive, Holding
  <2> QED
    BY <1>1, <2>5, <2>6 DEF RollbackInv, Spent
<1> QED
  BY <1>3, <1>4

\* The inductive invariant holds: a call past the lock is alone there and
\* acts within the licence of the permit it consumed.
THEOREM RollbackInvariant == Spec => []RollbackInv
<1>1. RollbackInv /\ [Next]_vars => RollbackInv'
  <2> SUFFICES ASSUME RollbackInv, [Next]_vars PROVE RollbackInv'
    OBVIOUS
  <2>1. ASSUME NEW p \in Processes, Step(p) PROVE RollbackInv'
    BY <2>1, CheckSteps, Consumption, RestoreSteps, ReleaseStep DEF Step
  <2>2. ASSUME NEW p \in Processes, Start(p) PROVE RollbackInv'
    BY <2>2, OutsideCall, Acquire DEF Start
  <2>3. ASSUME NEW p \in Processes, Crash(p) PROVE RollbackInv'
    BY <2>3, OutsideCall
  <2>4. CASE UNCHANGED vars
    BY <2>4 DEF vars, repository, bounds, RollbackInv, TypeOK, LockIsExclusive, Holding, Spent
  <2> QED
    BY <2>1, <2>2, <2>3, <2>4, OutsiderSteps DEF Next
<1> QED
  BY <1>1, InitInv, PTL DEF Spec

\* runGovernedRollback is mutually exclusive, whatever crashed, failed or was
\* cleaned up by hand.
THEOREM RollbackExclusion == Spec => []LockIsExclusive
<1>1. RollbackInv => LockIsExclusive
  BY DEF RollbackInv
<1> QED
  BY <1>1, RollbackInvariant, PTL

\* Files are restored at most once under a rollback permit, whoever presents
\* it, how often, and whatever crashed in between.
THEOREM RollbackPermitOnce == Spec => []PermitRestoresOnce
<1>1. RollbackInv => PermitRestoresOnce
  BY DEF RollbackInv, Spent, PermitRestoresOnce
<1> QED
  BY <1>1, RollbackInvariant, PTL

-----------------------------------------------------------------------------
(* What the answers and the receipt say                                    *)

\* A commit moves HEAD, and a checkout conversion concerns what Git restored.
RepositoryIsKnown ==
  /\ head = "receipt" => \A f \in Paths : tree[f] = "base"
  /\ \A f \in Outside : work[f] # "converted"

\* What a check has read still holds if nobody acted since it began.
CheckIsTrue(p) ==
  proc[p].phase \in {"retain", "verify"} /\ p \notin disturbed =>
    /\ proc[p].read \in {"status", "hash"} => head = "receipt"
    /\ proc[p].read = "hash" =>
         /\ StatusHolds(proc[p].phase)
         /\ \A f \in Targets \ proc[p].todo : HashHolds(proc[p].phase, f)

Restored ==
  (\A f \in Paths : work[f] = "base" /\ tree[f] = "base") /\ head = "receipt" /\ staged = FALSE

ReportIsTrue(p) ==
  proc[p].phase = "release" /\ proc[p].result = "rolled_back" /\ p \notin disturbed => Restored

Unedited(f) == work[f] # "edited" \/ f \in raced

\* The restore primitive has read every target that it is about to write.
EditsAreSeen(p) ==
  /\ proc[p].phase = "recheck" /\ proc[p].read = "hash" =>
       \A f \in Targets \ proc[p].todo : Unedited(f)
  /\ proc[p].phase \in {"filters", "restore", "remove"} => \A f \in Targets : Unedited(f)

TraceIsTrue(p) ==
  /\ proc[p].phase \in {"retain", "preflight", "consume"} => proc[p].touched = FALSE
  /\ proc[p].phase \notin {"idle", "release"} => proc[p].result = "none"
  /\ proc[p].result = "blocked" => proc[p].touched = FALSE

TruthInv ==
  /\ RepositoryIsKnown
  /\ \A p \in Processes :
       CheckIsTrue(p) /\ ReportIsTrue(p) /\ EditsAreSeen(p) /\ TraceIsTrue(p)

\* One process moved; what the others rely on was shown to hold.
LEMMA ActorMoves ==
  ASSUME TruthInv, NEW p \in Processes, \A q \in Processes \ {p} : proc'[q] = proc[q],
         RepositoryIsKnown', (CheckIsTrue(p) /\ ReportIsTrue(p) /\ EditsAreSeen(p))',
         TraceIsTrue(p)',
         \A q \in Processes \ {p} : (CheckIsTrue(q) /\ ReportIsTrue(q) /\ EditsAreSeen(q))'
  PROVE  TruthInv'
<1>1. \A q \in Processes \ {p} : TraceIsTrue(q)'
  BY DEF TruthInv, TraceIsTrue
<1>2. \A q \in Processes : (CheckIsTrue(q) /\ ReportIsTrue(q) /\ EditsAreSeen(q))' /\ TraceIsTrue(q)'
  BY <1>1
<1> QED
  BY <1>2, Zenon DEF TruthInv

LEMMA SameStatus ==
  ASSUME UNCHANGED <<work, tree, head, staged, config>>
  PROVE  /\ \A phase : StatusHolds(phase)' <=> StatusHolds(phase)
         /\ Restored' <=> Restored
         /\ RepositoryIsKnown' <=> RepositoryIsKnown
<1>1. ChangedPaths' = ChangedPaths
  BY DEF ChangedPaths, Blob
<1> QED
  BY <1>1 DEF StatusHolds, Supported, Restored, RepositoryIsKnown

\* A step that leaves the repository alone, and raced too if q is inside.
LEMMA OthersUndisturbed ==
  ASSUME NEW q \in Processes, CheckIsTrue(q), ReportIsTrue(q), EditsAreSeen(q),
         UNCHANGED <<work, tree, head, staged, config>>, proc'[q] = proc[q],
         q \in disturbed => q \in disturbed', Holding(q) => raced' = raced
  PROVE  (CheckIsTrue(q) /\ ReportIsTrue(q) /\ EditsAreSeen(q))'
<1>1. CheckIsTrue(q)'
  BY SameStatus DEF CheckIsTrue, HashHolds
<1>2. ReportIsTrue(q)'
  BY SameStatus DEF ReportIsTrue
<1>3. EditsAreSeen(q)'
  BY DEF EditsAreSeen, Unedited, Holding
<1> QED
  BY <1>1, <1>2, <1>3

\* A step of p that leaves the repository, raced and disturbed alone.
LEMMA QuietStep ==
  ASSUME TruthInv, NEW p \in Processes, \A q \in Processes \ {p} : proc'[q] = proc[q],
         UNCHANGED <<work, tree, head, staged, config, raced, disturbed>>,
         (CheckIsTrue(p) /\ ReportIsTrue(p) /\ EditsAreSeen(p))', TraceIsTrue(p)'
  PROVE  TruthInv'
<1>1. RepositoryIsKnown'
  BY SameStatus DEF TruthInv
<1>2. \A q \in Processes \ {p} : (CheckIsTrue(q) /\ ReportIsTrue(q) /\ EditsAreSeen(q))'
  BY OthersUndisturbed DEF TruthInv
<1> QED
  BY <1>1, <1>2, ActorMoves

LEMMA OthersStay ==
  ASSUME RollbackInv, NEW p \in Processes, NEW c, proc' = [proc EXCEPT ![p] = c]
  PROVE  proc'[p] = c /\ \A q \in Processes \ {p} : proc'[q] = proc[q]
BY DEF RollbackInv, TypeOK

LEMMA IdleFields ==
  ASSUME NEW r
  PROVE  Idle(r).phase = "idle" /\ Idle(r).result = r /\ Idle(r).touched = FALSE
BY DEF Idle, NewCall

\* A call that is over makes no claim but about its trace.
LEMMA CallEnds ==
  ASSUME TruthInv, NEW p \in Processes, \A q \in Processes \ {p} : proc'[q] = proc[q],
         UNCHANGED <<work, tree, head, staged, config, raced, disturbed>>,
         proc'[p].phase = "idle", proc'[p].result = "blocked" => proc'[p].touched = FALSE
  PROVE  TruthInv'
<1>1. (CheckIsTrue(p) /\ ReportIsTrue(p) /\ EditsAreSeen(p))' /\ TraceIsTrue(p)'
  BY DEF CheckIsTrue, ReportIsTrue, EditsAreSeen, TraceIsTrue
<1> QED
  BY <1>1, QuietStep

LEMMA FailedFields ==
  ASSUME RollbackInv, TruthInv, NEW p \in Processes, Failed(p), proc[p].phase # "idle"
  PROVE  /\ \A q \in Processes \ {p} : proc'[q] = proc[q]
         /\ proc'[p].phase \in {"idle", "release"} /\ proc'[p].result # "rolled_back"
         /\ proc'[p].result = "blocked" => proc'[p].touched = FALSE
         /\ receipt' = receipt /\ proc'[p].result # "retained"
<1>0. proc[p] \in Calls /\ TraceIsTrue(p)
  BY DEF RollbackInv, TypeOK, TruthInv
<1>1. CASE proc[p].phase = "retain"
  <2>1. proc' = [proc EXCEPT ![p] = Idle("reconciliation_required")] /\ receipt' = receipt
    BY <1>1 DEF Failed
  <2>2. PICK c : c = Idle("reconciliation_required")
    OBVIOUS
  <2>3. c.phase = "idle" /\ c.result = "reconciliation_required"
    BY <2>2, IdleFields
  <2>4. proc'[p] = c /\ \A q \in Processes \ {p} : proc'[q] = proc[q]
    BY <2>1, <2>2, OthersStay
  <2> QED
    BY <2>1, <2>3, <2>4
<1>2. CASE proc[p].phase # "retain"
  <2> DEFINE r == IF proc[p].phase = "preflight" THEN "blocked" ELSE "reconciliation_required"
             c == [proc[p] EXCEPT !.phase = "release", !.result = r]
  <2>1. proc' = [proc EXCEPT ![p] = c] /\ receipt' = receipt
    BY <1>2 DEF Failed
  <2>2. c.phase = "release" /\ c.result = r /\ c.touched = proc[p].touched
    BY <1>0 DEF Calls
  <2>3. r \notin {"rolled_back", "retained"} /\ (r = "blocked" => proc[p].touched = FALSE)
    BY <1>0 DEF TraceIsTrue
  <2> HIDE DEF c, r
  <2> QED
    BY <2>1, <2>2, <2>3, OthersStay
<1> QED
  BY <1>1, <1>2

\* A check that failed, or a restore that did.
LEMMA FailedIsTrue ==
  ASSUME RollbackInv, TruthInv, NEW p \in Processes, Failed(p), proc[p].phase # "idle",
         UNCHANGED <<work, tree, head, staged, config>>,
         raced' = raced \/ Holding(p),
         disturbed' = disturbed \/ disturbed' = disturbed \ {p}
  PROVE  TruthInv'
<1>1. /\ \A q \in Processes \ {p} : proc'[q] = proc[q]
      /\ proc'[p].phase \in {"idle", "release"} /\ proc'[p].result # "rolled_back"
      /\ proc'[p].result = "blocked" => proc'[p].touched = FALSE
  BY FailedFields
<1>2. (CheckIsTrue(p) /\ ReportIsTrue(p) /\ EditsAreSeen(p))' /\ TraceIsTrue(p)'
  BY <1>1 DEF CheckIsTrue, ReportIsTrue, EditsAreSeen, TraceIsTrue
<1>3. RepositoryIsKnown'
  BY SameStatus DEF TruthInv
<1>4. \A q \in Processes \ {p} : Holding(q) => raced' = raced
  BY DEF RollbackInv, LockIsExclusive
<1>5. \A q \in Processes \ {p} : (CheckIsTrue(q) /\ ReportIsTrue(q) /\ EditsAreSeen(q))'
  BY <1>1, <1>4, OthersUndisturbed DEF TruthInv
<1> QED
  BY <1>1, <1>2, <1>3, <1>5, ActorMoves

LEMMA InspectHeadIsTrue ==
  ASSUME RollbackInv, TruthInv, NEW p \in Processes, InspectHead(p)
  PROVE  TruthInv'
<1>0. /\ proc[p] \in Calls /\ TraceIsTrue(p) /\ RepositoryIsKnown
      /\ UNCHANGED <<work, tree, head, staged, config, raced>> /\ disturbed' = disturbed \ {p}
      /\ proc[p].phase \in CheckPhases
  BY DEF RollbackInv, TypeOK, TruthInv, InspectHead, repository
<1>1. CASE Failed(p)
  BY <1>0, <1>1, FailedIsTrue DEF CheckPhases
<1>2. CASE ~Failed(p)
  <2> DEFINE c == [proc[p] EXCEPT !.read = "status"]
  <2>1. proc' = [proc EXCEPT ![p] = c] /\ head = "receipt"
    BY <1>2 DEF InspectHead
  <2>2. /\ c.read = "status" /\ c.phase = proc[p].phase /\ c.result = proc[p].result
        /\ c.touched = proc[p].touched
    BY <1>0 DEF Calls
  <2> HIDE DEF c
  <2>3. proc'[p] = c /\ \A q \in Processes \ {p} : proc'[q] = proc[q]
    BY <2>1, OthersStay
  <2>4. (CheckIsTrue(p) /\ ReportIsTrue(p) /\ EditsAreSeen(p))' /\ TraceIsTrue(p)'
    BY <1>0, <2>1, <2>2, <2>3
    DEF CheckIsTrue, ReportIsTrue, EditsAreSeen, TraceIsTrue, CheckPhases
  <2>5. RepositoryIsKnown'
    BY <1>0, SameStatus
  <2>6. \A q \in Processes \ {p} : (CheckIsTrue(q) /\ ReportIsTrue(q) /\ EditsAreSeen(q))'
    BY <1>0, <2>3, OthersUndisturbed DEF TruthInv
  <2> QED
    BY <2>3, <2>4, <2>5, <2>6, ActorMoves
<1> QED
  BY <1>1, <1>2

LEMMA InspectStatusIsTrue ==
  ASSUME RollbackInv, TruthInv, NEW p \in Processes, InspectStatus(p)
  PROVE  TruthInv'
<1>0. /\ proc[p] \in Calls /\ TraceIsTrue(p) /\ CheckIsTrue(p)
      /\ UNCHANGED <<work, tree, head, staged, config, raced, disturbed>>
      /\ proc[p].phase \in CheckPhases /\ proc[p].read = "status"
  BY DEF RollbackInv, TypeOK, TruthInv, InspectStatus, repository
<1>1. CASE Failed(p)
  BY <1>0, <1>1, FailedIsTrue DEF CheckPhases
<1>2. CASE ~Failed(p)
  <2> DEFINE c == [proc[p] EXCEPT !.read = "hash", !.todo = Targets]
  <2>1. proc' = [proc EXCEPT ![p] = c] /\ StatusHolds(proc[p].phase)
    BY <1>2 DEF InspectStatus
  <2>2. /\ c.read = "hash" /\ c.todo = Targets /\ c.phase = proc[p].phase
        /\ c.result = proc[p].result /\ c.touched = proc[p].touched
    BY <1>0 DEF Calls
  <2> HIDE DEF c
  <2>3. proc'[p] = c /\ \A q \in Processes \ {p} : proc'[q] = proc[q]
    BY <2>1, OthersStay
  <2>4. PICK phase : phase = proc[p].phase
    OBVIOUS
  <2>5. CheckIsTrue(p)'
    <3>1. StatusHolds(phase)' /\ proc'[p].phase = phase
      BY <1>0, <2>1, <2>2, <2>3, <2>4, SameStatus
    <3>2. StatusHolds(proc[p].phase)'
      BY <3>1 DEF StatusHolds
    <3> QED
      BY <1>0, <2>2, <2>3, <2>4, <3>2 DEF CheckIsTrue
  <2>6. (ReportIsTrue(p) /\ EditsAreSeen(p))' /\ TraceIsTrue(p)'
    BY <1>0, <2>2, <2>3 DEF ReportIsTrue, EditsAreSeen, TraceIsTrue, CheckPhases
  <2> QED
    BY <1>0, <2>3, <2>5, <2>6, QuietStep
<1> QED
  BY <1>1, <1>2

\* What a check has seen when its last hash agrees.
LEMMA CheckedMeansRestored ==
  ASSUME RepositoryIsKnown, RollbackInv, NEW phase \in {"retain", "verify"},
         head = "receipt", StatusHolds(phase), \A f \in Targets : HashHolds(phase, f)
  PROVE  /\ phase = "verify" => Restored
         /\ phase = "retain" => /\ \A f \in Paths : work[f] = IF f \in Targets THEN "after" ELSE "base"
                                /\ staged = FALSE
<1>1. \A f \in Paths : tree[f] = "base"
  BY DEF RepositoryIsKnown
<1>2. \A f \in Outside : f \in Paths /\ f \notin Targets /\ work[f] # "converted"
  BY RollbackAssumption DEF RollbackAssumption, RepositoryIsKnown, Paths, Targets
<1>3. staged \in BOOLEAN /\ ~staged
  BY DEF RollbackInv, TypeOK, StatusHolds
<1>4. staged = FALSE
  BY <1>3, Zenon
<1>5. CASE phase = "verify"
  <2>1. \A f \in Paths : Blob(f) = "base"
    BY <1>1, <1>5 DEF StatusHolds, ChangedPaths
  <2>2. \A f \in Outside : work[f] = "base"
    BY <1>2, <2>1 DEF Blob
  <2>3. \A f \in Targets : work[f] = "base"
    BY <1>5 DEF HashHolds
  <2> QED
    BY <1>1, <1>4, <1>5, <2>2, <2>3 DEF Restored, Paths
<1>6. CASE phase = "retain"
  <2>1. \A f \in Outside : Blob(f) = "base"
    BY <1>1, <1>2, <1>6 DEF StatusHolds, ChangedPaths
  <2>2. \A f \in Outside : work[f] = "base"
    BY <1>2, <2>1 DEF Blob
  <2>3. \A f \in Targets : work[f] = "after"
    BY <1>6 DEF HashHolds
  <2> QED
    BY <1>2, <1>4, <1>6, <2>2, <2>3 DEF Paths
<1> QED
  BY <1>5, <1>6

LEMMA ReadHashIsTrue ==
  ASSUME RollbackInv, TruthInv, NEW p \in Processes, NEW f \in Targets, ReadHash(p, f)
  PROVE  TruthInv'
<1>0. /\ proc[p] \in Calls /\ TraceIsTrue(p) /\ CheckIsTrue(p) /\ EditsAreSeen(p)
      /\ RepositoryIsKnown
      /\ UNCHANGED <<work, tree, head, staged, config, disturbed>>
      /\ proc[p].phase \in CheckPhases /\ proc[p].read = "hash" /\ f \in proc[p].todo
      /\ raced' = (IF Holding(p) THEN raced \ {f} ELSE raced)
  BY DEF RollbackInv, TypeOK, TruthInv, ReadHash, repository
<1>1. CASE Failed(p)
  BY <1>0, <1>1, FailedIsTrue DEF CheckPhases
<1>2. RepositoryIsKnown'
  BY <1>0, SameStatus
<1>3. \A q \in Processes \ {p} : Holding(q) => raced' = raced
  BY <1>0 DEF RollbackInv, LockIsExclusive
<1>4. ASSUME \A q \in Processes \ {p} : proc'[q] = proc[q],
             (CheckIsTrue(p) /\ ReportIsTrue(p) /\ EditsAreSeen(p))', TraceIsTrue(p)'
      PROVE  TruthInv'
  <2>1. \A q \in Processes \ {p} : (CheckIsTrue(q) /\ ReportIsTrue(q) /\ EditsAreSeen(q))'
    BY <1>0, <1>3, <1>4, OthersUndisturbed DEF TruthInv
  <2> QED
    BY <1>2, <1>4, <2>1, ActorMoves
<1>5. CASE HashHolds(proc[p].phase, f) /\ ~Failed(p) /\ proc[p].todo # {f}
  <2> DEFINE c == [proc[p] EXCEPT !.todo = @ \ {f}]
  <2>1. proc' = [proc EXCEPT ![p] = c]
    BY <1>5 DEF ReadHash
  <2>2. /\ c.read = "hash" /\ c.todo = proc[p].todo \ {f} /\ c.phase = proc[p].phase
        /\ c.result = proc[p].result /\ c.touched = proc[p].touched
    BY <1>0 DEF Calls
  <2> HIDE DEF c
  <2>3. proc'[p] = c /\ \A q \in Processes \ {p} : proc'[q] = proc[q]
    BY <2>1, OthersStay
  <2>4. CheckIsTrue(p)'
    <3>1. StatusHolds(proc[p].phase)' <=> StatusHolds(proc[p].phase)
      BY <1>0, <2>2, <2>3, SameStatus
    <3> QED
      BY <1>0, <1>5, <2>2, <2>3, SameStatus DEF CheckIsTrue, HashHolds
  <2>5. ReportIsTrue(p)' /\ TraceIsTrue(p)'
    BY <1>0, <2>2, <2>3 DEF ReportIsTrue, TraceIsTrue, CheckPhases
  <2>6. EditsAreSeen(p)'
    BY <1>0, <1>5, <2>2, <2>3 DEF EditsAreSeen, Unedited, HashHolds, CheckPhases
  <2> QED
    BY <1>4, <2>3, <2>4, <2>5, <2>6
<1>6. CASE HashHolds(proc[p].phase, f) /\ Passed(p) /\ proc[p].todo = {f}
  <2>1. CASE proc[p].phase = "retain"
    <3>1. proc' = [proc EXCEPT ![p] = Idle("retained")]
      BY <1>6, <2>1 DEF Passed
    <3>2. PICK c : c = Idle("retained")
      OBVIOUS
    <3>3. c.phase = "idle" /\ c.result = "retained"
      BY <3>2, IdleFields
    <3>4. proc'[p] = c /\ \A q \in Processes \ {p} : proc'[q] = proc[q]
      BY <3>1, <3>2, OthersStay
    <3>5. (CheckIsTrue(p) /\ ReportIsTrue(p) /\ EditsAreSeen(p))' /\ TraceIsTrue(p)'
      BY <3>3, <3>4 DEF CheckIsTrue, ReportIsTrue, EditsAreSeen, TraceIsTrue
    <3> QED
      BY <1>4, <3>4, <3>5
  <2>2. CASE proc[p].phase = "preflight"
    <3> DEFINE c == [proc[p] EXCEPT !.phase = "consume"]
    <3>1. proc' = [proc EXCEPT ![p] = c]
      BY <1>6, <2>2 DEF Passed
    <3>2. c.phase = "consume" /\ c.result = proc[p].result /\ c.touched = proc[p].touched
      BY <1>0 DEF Calls
    <3> HIDE DEF c
    <3>3. proc'[p] = c /\ \A q \in Processes \ {p} : proc'[q] = proc[q]
      BY <3>1, OthersStay
    <3>4. (CheckIsTrue(p) /\ ReportIsTrue(p) /\ EditsAreSeen(p))' /\ TraceIsTrue(p)'
      BY <1>0, <2>2, <3>2, <3>3 DEF CheckIsTrue, ReportIsTrue, EditsAreSeen, TraceIsTrue
    <3> QED
      BY <1>4, <3>3, <3>4
  <2>3. CASE proc[p].phase = "adjacent"
    <3> DEFINE c == [proc[p] EXCEPT !.phase = "recheck", !.read = "head"]
    <3>1. proc' = [proc EXCEPT ![p] = c]
      BY <1>6, <2>3 DEF Passed
    <3>2. /\ c.phase = "recheck" /\ c.read = "head"
          /\ c.result = proc[p].result /\ c.touched = proc[p].touched
      BY <1>0 DEF Calls
    <3> HIDE DEF c
    <3>3. proc'[p] = c /\ \A q \in Processes \ {p} : proc'[q] = proc[q]
      BY <3>1, OthersStay
    <3>4. (CheckIsTrue(p) /\ ReportIsTrue(p) /\ EditsAreSeen(p))' /\ TraceIsTrue(p)'
      BY <1>0, <2>3, <3>2, <3>3 DEF CheckIsTrue, ReportIsTrue, EditsAreSeen, TraceIsTrue
    <3> QED
      BY <1>4, <3>3, <3>4
  <2>4. CASE proc[p].phase = "recheck"
    <3> DEFINE ph == IF Updates = {} THEN "restore" ELSE "filters"
               c == [proc[p] EXCEPT !.phase = ph, !.todo = Updates]
    <3>1. proc' = [proc EXCEPT ![p] = c]
      BY <1>6, <2>4 DEF Passed
    <3>2. c.phase \in {"restore", "filters"} /\ c.result = proc[p].result /\ c.touched = proc[p].touched
      BY <1>0 DEF Calls
    <3> HIDE DEF c
    <3>3. proc'[p] = c /\ \A q \in Processes \ {p} : proc'[q] = proc[q]
      BY <3>1, OthersStay
    <3>4. \A g \in Targets : Unedited(g)'
      BY <1>0, <1>6, <2>4 DEF EditsAreSeen, Unedited, HashHolds
    <3>5. (CheckIsTrue(p) /\ ReportIsTrue(p) /\ EditsAreSeen(p))' /\ TraceIsTrue(p)'
      BY <1>0, <2>4, <3>2, <3>3, <3>4 DEF CheckIsTrue, ReportIsTrue, EditsAreSeen, TraceIsTrue
    <3> QED
      BY <1>4, <3>3, <3>5
  <2>5. CASE proc[p].phase = "verify"
    <3> DEFINE c == [proc[p] EXCEPT !.phase = "release", !.result = "rolled_back"]
    <3>1. proc' = [proc EXCEPT ![p] = c]
      BY <1>6, <2>5 DEF Passed
    <3>2. c.phase = "release" /\ c.result = "rolled_back"
      BY <1>0 DEF Calls
    <3> HIDE DEF c
    <3>3. proc'[p] = c /\ \A q \in Processes \ {p} : proc'[q] = proc[q]
      BY <3>1, OthersStay
    <3>4. p \notin disturbed => Restored
      <4>1. p \notin disturbed => /\ head = "receipt" /\ StatusHolds("verify")
                                  /\ \A g \in Targets : HashHolds("verify", g)
        BY <1>0, <1>6, <2>5 DEF CheckIsTrue
      <4> QED
        BY <1>0, <4>1, CheckedMeansRestored
    <3>5. (CheckIsTrue(p) /\ ReportIsTrue(p) /\ EditsAreSeen(p))' /\ TraceIsTrue(p)'
      BY <1>0, <3>2, <3>3, <3>4, SameStatus DEF CheckIsTrue, ReportIsTrue, EditsAreSeen, TraceIsTrue
    <3> QED
      BY <1>4, <3>3, <3>5
  <2> QED
    BY <1>0, <2>1, <2>2, <2>3, <2>4, <2>5 DEF CheckPhases
<1> QED
  BY <1>1, <1>5, <1>6 DEF ReadHash

\* A call begins.
LEMMA BeginsTruly ==
  ASSUME RollbackInv, TruthInv, NEW p \in Processes,
         \/ \E valid \in BOOLEAN : VerifyRetainedChange(p, valid)
         \/ \E k \in Permits, valid \in BOOLEAN : RunGovernedRollback(p, k, valid)
  PROVE  TruthInv'
<1>2. PICK ph \in {"retain", "preflight"}, k \in Permits \cup {NoPermit}, valid \in BOOLEAN :
        proc' = [proc EXCEPT ![p] = NewCall(ph, k, valid)]
  BY DEF VerifyRetainedChange, RunGovernedRollback
<1> DEFINE c == NewCall(ph, k, valid)
<1>3. c.phase = ph /\ c.read = "head" /\ c.result = "none" /\ c.touched = FALSE
  BY DEF NewCall
<1>4. proc'[p] = c /\ \A q \in Processes \ {p} : proc'[q] = proc[q]
  BY <1>2, OthersStay
<1>5. UNCHANGED <<work, tree, head, staged, config, raced, disturbed>>
  BY DEF VerifyRetainedChange, RunGovernedRollback, repository
<1> HIDE DEF c
<1>6. (CheckIsTrue(p) /\ ReportIsTrue(p) /\ EditsAreSeen(p))' /\ TraceIsTrue(p)'
  BY <1>3, <1>4 DEF CheckIsTrue, ReportIsTrue, EditsAreSeen, TraceIsTrue
<1> QED
  BY <1>4, <1>5, <1>6, QuietStep

\* A call ends: refused at the lock, dead, or through lock.release().
LEMMA EndsTruly ==
  ASSUME RollbackInv, TruthInv, NEW p \in Processes,
         StoreUntrusted(p) \/ LockUnavailable(p) \/ Crash(p) \/ ReleaseLock(p)
  PROVE  TruthInv'
<1>1. UNCHANGED <<work, tree, head, staged, config, raced, disturbed>>
  BY DEF StoreUntrusted, LockUnavailable, Crash, ReleaseLock, repository
<1>2. CASE StoreUntrusted(p) \/ LockUnavailable(p) \/ Crash(p)
  <2>1. PICK r : proc' = [proc EXCEPT ![p] = Idle(r)]
    BY <1>2 DEF StoreUntrusted, LockUnavailable, Crash
  <2>2. proc'[p] = Idle(r) /\ \A q \in Processes \ {p} : proc'[q] = proc[q]
    BY <2>1, OthersStay
  <2>3. /\ proc'[p].phase = "idle" /\ proc'[p].touched = FALSE
    BY <2>2, IdleFields
  <2> QED
    BY <1>1, <2>2, <2>3, CallEnds
<1>3. CASE ReleaseLock(p)
  <2> DEFINE c == [Idle(proc[p].result) EXCEPT !.permit = proc[p].permit,
                                               !.touched = proc[p].touched]
  <2>1. proc' = [proc EXCEPT ![p] = c]
    BY <1>3 DEF ReleaseLock
  <2>2. c.phase = "idle" /\ c.result = proc[p].result /\ c.touched = proc[p].touched
    BY DEF Idle, NewCall
  <2>3. TraceIsTrue(p)
    BY DEF TruthInv
  <2> HIDE DEF c
  <2>4. proc'[p] = c /\ \A q \in Processes \ {p} : proc'[q] = proc[q]
    BY <2>1, OthersStay
  <2> QED
    BY <1>1, <2>2, <2>3, <2>4, CallEnds DEF TraceIsTrue
<1> QED
  BY <1>2, <1>3

\* A step inside the lock that reads and writes no file.
LEMMA GoesOnTruly ==
  ASSUME RollbackInv, TruthInv, NEW p \in Processes,
         \/ Consume(p) \/ Replay(p) \/ ConsumeThrows(p)
         \/ FinalFilterCheck(p) \/ RestoreDone(p) \/ RemoveDone(p) \/ RestoreThrows(p)
  PROVE  TruthInv'
<1>0. /\ proc[p] \in Calls /\ TraceIsTrue(p) /\ EditsAreSeen(p)
      /\ UNCHANGED <<work, tree, head, staged, config, raced, disturbed>>
  BY DEF RollbackInv, TypeOK, TruthInv, Consume, Replay, ConsumeThrows, FinalFilterCheck,
         RestoreDone, RemoveDone, RestoreThrows, repository
<1>1. CASE Failed(p) /\ proc[p].phase # "idle"
  BY <1>0, <1>1, FailedIsTrue
<1>2. ASSUME NEW c, proc' = [proc EXCEPT ![p] = c],
             c.phase \in {"adjacent", "verify"} => c.read = "head" /\ c.result = "none",
             c.phase \in {"adjacent", "verify", "release", "restore", "remove"},
             c.phase \in {"restore", "remove"} =>
               proc[p].phase \in {"filters", "restore"} /\ c.result = "none",
             c.result # "rolled_back", c.result = "blocked" => c.touched = FALSE
      PROVE  TruthInv'
  <2>1. proc'[p] = c /\ \A q \in Processes \ {p} : proc'[q] = proc[q]
    BY <1>2, OthersStay
  <2>2. CheckIsTrue(p)' /\ ReportIsTrue(p)' /\ TraceIsTrue(p)'
    BY <1>2, <2>1 DEF CheckIsTrue, ReportIsTrue, TraceIsTrue
  <2>3. EditsAreSeen(p)'
    BY <1>0, <1>2, <2>1 DEF EditsAreSeen, Unedited
  <2> QED
    BY <1>0, <2>1, <2>2, <2>3, QuietStep
<1>3. CASE Consume(p)
  <2> DEFINE c == [proc[p] EXCEPT !.phase = "adjacent", !.read = "head", !.touched = TRUE]
  <2>1. proc' = [proc EXCEPT ![p] = c] /\ proc[p].phase = "consume"
    BY <1>3 DEF Consume
  <2>2. c.phase = "adjacent" /\ c.read = "head" /\ c.result = "none"
    BY <1>0, <2>1 DEF Calls, TraceIsTrue
  <2> HIDE DEF c
  <2> QED
    BY <1>2, <2>1, <2>2
<1>4. CASE Replay(p)
  <2> DEFINE c == [proc[p] EXCEPT !.phase = "release", !.result = "blocked"]
  <2>1. proc' = [proc EXCEPT ![p] = c] /\ proc[p].phase = "consume"
    BY <1>4 DEF Replay, Release
  <2>2. c.phase = "release" /\ c.result = "blocked" /\ c.touched = FALSE
    BY <1>0, <2>1 DEF Calls, TraceIsTrue
  <2> HIDE DEF c
  <2> QED
    BY <1>2, <2>1, <2>2
<1>5. CASE ConsumeThrows(p)
  <2> DEFINE c == [proc[p] EXCEPT !.phase = "release", !.touched = TRUE,
                                  !.result = "reconciliation_required"]
  <2>1. proc' = [proc EXCEPT ![p] = c]
    BY <1>5 DEF ConsumeThrows
  <2>2. c.phase = "release" /\ c.result = "reconciliation_required"
    BY <1>0 DEF Calls
  <2> HIDE DEF c
  <2> QED
    BY <1>2, <2>1, <2>2
<1>6. CASE FinalFilterCheck(p) /\ ~Failed(p)
  <2> DEFINE c == [proc[p] EXCEPT !.phase = "restore"]
  <2>1. proc' = [proc EXCEPT ![p] = c] /\ proc[p].phase = "filters"
    BY <1>6 DEF FinalFilterCheck
  <2>2. c.phase = "restore" /\ c.result = "none"
    BY <1>0, <2>1 DEF Calls, TraceIsTrue
  <2> HIDE DEF c
  <2> QED
    BY <1>2, <2>1, <2>2
<1>7. CASE RestoreDone(p)
  <2> DEFINE c == [proc[p] EXCEPT !.phase = "remove", !.todo = Creates]
  <2>1. proc' = [proc EXCEPT ![p] = c] /\ proc[p].phase = "restore"
    BY <1>7 DEF RestoreDone
  <2>2. c.phase = "remove" /\ c.result = "none"
    BY <1>0, <2>1 DEF Calls, TraceIsTrue
  <2> HIDE DEF c
  <2> QED
    BY <1>2, <2>1, <2>2
<1>8. CASE RemoveDone(p)
  <2> DEFINE c == [proc[p] EXCEPT !.phase = "verify", !.read = "head"]
  <2>1. proc' = [proc EXCEPT ![p] = c] /\ proc[p].phase = "remove"
    BY <1>8 DEF RemoveDone, Check
  <2>2. c.phase = "verify" /\ c.read = "head" /\ c.result = "none"
    BY <1>0, <2>1 DEF Calls, TraceIsTrue
  <2> HIDE DEF c
  <2> QED
    BY <1>2, <2>1, <2>2
<1>9. CASE FinalFilterCheck(p) /\ Failed(p)
  BY <1>1, <1>9 DEF FinalFilterCheck
<1>10. CASE RestoreThrows(p)
  BY <1>1, <1>10 DEF RestoreThrows
<1> QED
  BY <1>3, <1>4, <1>5, <1>6, <1>7, <1>8, <1>9, <1>10

\* p writes the target f, which is not a user's content.
LEMMA WritesTruly ==
  ASSUME RollbackInv, TruthInv, NEW p \in Processes, NEW f \in Targets,
         NEW new \in {"base", "converted"}, work' = [work EXCEPT ![f] = new],
         proc[p].phase \in {"restore", "remove"},
         proc' = [proc EXCEPT ![p].todo = @ \ {f}],
         disturbed' = disturbed \cup (Processes \ {p}),
         UNCHANGED <<tree, head, staged, config, raced>>
  PROVE  TruthInv'
<1>0. /\ proc[p] \in Calls /\ TraceIsTrue(p) /\ EditsAreSeen(p) /\ RepositoryIsKnown
      /\ work \in [Paths -> Contents] /\ Holding(p)
  BY DEF RollbackInv, TypeOK, TruthInv, Holding
<1>1. f \in Paths /\ f \notin Outside /\ Outside \subseteq Paths /\ Targets \subseteq Paths
  BY RollbackAssumption DEF RollbackAssumption, Paths, Targets
<1>2. work'[f] = new /\ \A g \in Paths \ {f} : work'[g] = work[g]
  BY <1>0, <1>1
<1>3. RepositoryIsKnown'
  BY <1>0, <1>1, <1>2 DEF RepositoryIsKnown
<1> DEFINE c == [proc[p] EXCEPT !.todo = @ \ {f}]
<1>4. proc' = [proc EXCEPT ![p] = c]
  OBVIOUS
<1>5. c.phase = proc[p].phase /\ c.result = proc[p].result /\ c.touched = proc[p].touched
  BY <1>0 DEF Calls
<1> HIDE DEF c
<1>6. proc'[p] = c /\ \A q \in Processes \ {p} : proc'[q] = proc[q]
  BY <1>4, OthersStay
<1>7. CheckIsTrue(p)' /\ ReportIsTrue(p)' /\ TraceIsTrue(p)'
  BY <1>0, <1>5, <1>6 DEF CheckIsTrue, ReportIsTrue, TraceIsTrue
<1>8. EditsAreSeen(p)'
  BY <1>0, <1>1, <1>2, <1>5, <1>6 DEF EditsAreSeen, Unedited
<1>9. ASSUME NEW q \in Processes \ {p} PROVE (CheckIsTrue(q) /\ ReportIsTrue(q) /\ EditsAreSeen(q))'
  <2>1. q \in disturbed'
    OBVIOUS
  <2>2. ~Holding(q)
    BY <1>0 DEF RollbackInv, LockIsExclusive
  <2> QED
    BY <1>6, <2>1, <2>2 DEF CheckIsTrue, ReportIsTrue, EditsAreSeen, Holding
<1> QED
  BY <1>3, <1>6, <1>7, <1>8, <1>9, ActorMoves

LEMMA RestoresTruly ==
  ASSUME RollbackInv, TruthInv, NEW p \in Processes,
         \/ \E f \in Updates : RestoreUpdate(p, f)
         \/ \E f \in Creates : RemoveCreated(p, f)
  PROVE  TruthInv'
<1>1. ASSUME NEW f \in Updates, RestoreUpdate(p, f) PROVE TruthInv'
  BY <1>1, WritesTruly DEF RestoreUpdate, Targets
<1>2. ASSUME NEW f \in Creates, RemoveCreated(p, f) PROVE TruthInv'
  <2>1. CASE work[f] = "base"
    BY <1>2, <2>1, FailedIsTrue DEF RemoveCreated
  <2>2. CASE work[f] # "base"
    BY <1>2, <2>2, WritesTruly DEF RemoveCreated, Targets
  <2> QED
    BY <2>1, <2>2
<1> QED
  BY <1>1, <1>2

\* Every check in progress notices, and what is edited now was not read.
LEMMA OutsidersTruly ==
  ASSUME RollbackInv, TruthInv, OperatorRemovesLock \/ User \/ UNCHANGED vars
  PROVE  TruthInv'
<1>0. work \in [Paths -> Contents] /\ tree \in [Paths -> Contents] /\ disturbed \subseteq Processes
      /\ RepositoryIsKnown
      /\ \A p \in Processes : CheckIsTrue(p) /\ ReportIsTrue(p) /\ EditsAreSeen(p) /\ TraceIsTrue(p)
  BY DEF RollbackInv, TypeOK, TruthInv
<1>1. proc' = proc
  BY DEF OperatorRemovesLock, User, UserEdits, UserStages, UserCommits, UserConfigures, vars
<1>2. \A p \in Processes : TraceIsTrue(p)'
  BY <1>0, <1>1 DEF TraceIsTrue
<1>3. CASE UNCHANGED <<work, tree, head, staged, config, raced, disturbed>>
  <2>1. RepositoryIsKnown'
    BY <1>0, <1>3, SameStatus
  <2>2. \A p \in Processes : (CheckIsTrue(p) /\ ReportIsTrue(p) /\ EditsAreSeen(p))'
    BY <1>0, <1>1, <1>3, OthersUndisturbed
  <2> QED
    BY <1>2, <2>1, <2>2, Zenon DEF TruthInv
<1>4. CASE User
  <2>1. disturbed' = Processes
    BY <1>4 DEF User, UserEdits, UserStages, UserCommits, UserConfigures, UserActs
  <2>2. \A p \in Processes : CheckIsTrue(p)' /\ ReportIsTrue(p)'
    BY <2>1 DEF CheckIsTrue, ReportIsTrue
  <2>3. \A f \in Targets : Unedited(f) => Unedited(f)'
    BY <1>0, <1>4 DEF User, UserEdits, UserStages, UserCommits, UserConfigures, Unedited, Paths
  <2>4. \A p \in Processes : EditsAreSeen(p)'
    BY <1>0, <1>1, <2>3 DEF EditsAreSeen
  <2>5. RepositoryIsKnown'
    <3>1. \A f \in Outside : work'[f] # "converted"
      BY <1>0, <1>4 DEF RepositoryIsKnown, User, UserEdits, UserStages, UserCommits, UserConfigures, Paths
    <3>2. head' = "receipt" => head = "receipt" /\ tree' = tree
      BY <1>4 DEF User, UserEdits, UserStages, UserCommits, UserConfigures
    <3> QED
      BY <1>0, <3>1, <3>2 DEF RepositoryIsKnown
  <2> QED
    BY <1>2, <2>2, <2>4, <2>5, Zenon DEF TruthInv
<1> QED
  BY <1>3, <1>4 DEF OperatorRemovesLock, vars, repository

LEMMA TruthInit == Init => TruthInv
<1> SUFFICES ASSUME Init PROVE TruthInv
  OBVIOUS
<1>1. \A p \in Processes : proc[p].phase = "idle" /\ proc[p].result = "none"
  BY IdleFields DEF Init
<1>2. \A p \in Processes : CheckIsTrue(p) /\ ReportIsTrue(p) /\ EditsAreSeen(p) /\ TraceIsTrue(p)
  BY <1>1 DEF CheckIsTrue, ReportIsTrue, EditsAreSeen, TraceIsTrue
<1>3. RepositoryIsKnown
  BY RollbackAssumption DEF RollbackAssumption, Init, RepositoryIsKnown, Paths, Targets
<1> QED
  BY <1>2, <1>3 DEF TruthInv

LEMMA TruthStep == RollbackInv /\ TruthInv /\ [Next]_vars => TruthInv'
<1> SUFFICES ASSUME RollbackInv, TruthInv, [Next]_vars PROVE TruthInv'
  OBVIOUS
<1>1. ASSUME NEW p \in Processes, Step(p) PROVE TruthInv'
  BY <1>1, InspectHeadIsTrue, InspectStatusIsTrue, ReadHashIsTrue, GoesOnTruly, RestoresTruly,
     EndsTruly DEF Step
<1>2. ASSUME NEW p \in Processes, Start(p) \/ Crash(p) PROVE TruthInv'
  BY <1>2, BeginsTruly, EndsTruly DEF Start
<1> QED
  BY <1>1, <1>2, OutsidersTruly DEF Next

(* What a check read stays true until somebody acts, what the restore is     *)
(* about to write was read, and a call that answers "blocked" did nothing.   *)
THEOREM RollbackTruth == Spec => []TruthInv
BY TruthInit, TruthStep, RollbackInvariant, PTL DEF Spec

(* "blocked" is only answered by a call that consumed nothing and wrote      *)
(* nothing, and "rolled_back" only of a repository that is, index and HEAD   *)
(* included, as the receipt's commit has it, if nobody acted meanwhile.      *)
THEOREM RollbackAnswers == Spec => []AnswersAreTrue
<1>1. RollbackInv /\ TruthInv => AnswersAreTrue
  <2> SUFFICES ASSUME RollbackInv, TruthInv PROVE AnswersAreTrue
    OBVIOUS
  <2>1. BlockedLeavesNoTrace
    BY DEF TruthInv, TraceIsTrue, BlockedLeavesNoTrace
  <2>2. work \in [Paths -> Contents] /\ tree \in [Paths -> Contents]
    BY DEF RollbackInv, TypeOK
  <2>3. Restored => /\ work = [f \in Paths |-> "base"] /\ tree = [f \in Paths |-> "base"]
                    /\ head = "receipt" /\ ~staged
    BY <2>2 DEF Restored
  <2>4. RolledBackIsTrue
    BY <2>3 DEF TruthInv, ReportIsTrue, RolledBackIsTrue
  <2> QED
    BY <2>1, <2>4 DEF AnswersAreTrue
<1> QED
  BY <1>1, RollbackInvariant, RollbackTruth, PTL

-----------------------------------------------------------------------------
(* What a rollback undoes, and its lock                                    *)

\* A receipt is issued by the last hash of a check, and by no other step.
LEMMA ReceiptStep ==
  ASSUME RollbackInv, TruthInv, [Next]_vars
  PROVE  ReceiptIsTrue
<1> SUFFICES ASSUME NEW p \in Processes, proc[p].phase = "retain", proc'[p].result = "retained",
                    p \notin disturbed
             PROVE  /\ \A f \in Paths : work[f] = IF f \in Targets THEN "after" ELSE "base"
                    /\ head = "receipt" /\ ~staged
  BY DEF ReceiptIsTrue
<1>0. /\ proc[p] \in Calls /\ TraceIsTrue(p) /\ CheckIsTrue(p) /\ RepositoryIsKnown
      /\ proc \in [Processes -> Calls] /\ proc[p].result = "none"
  BY DEF RollbackInv, TypeOK, TruthInv, TraceIsTrue
<1>1. proc' # proc
  BY <1>0
<1>2. ASSUME NEW q \in Processes, NEW c, proc' = [proc EXCEPT ![q] = c]
      PROVE  q = p /\ c.result = "retained"
  BY <1>0, <1>2
<1>3. \A c : proc' = [proc EXCEPT ![p] = c] => c.result = "retained"
  BY <1>2
<1>4. ASSUME NEW q \in Processes, Step(q) \/ Start(q) \/ Crash(q) PROVE q = p
  <2>1. CASE Step(q) /\ ~\E f \in Targets : ReadHash(q, f)
    BY <1>0, <2>1
    DEF Step, InspectHead, InspectStatus, Consume, Replay, ConsumeThrows, FinalFilterCheck,
        RestoreUpdate, RestoreDone, RemoveCreated, RemoveDone, RestoreThrows, ReleaseLock,
        Failed, Release, Check
  <2>2. CASE \E f \in Targets : ReadHash(q, f)
    BY <1>0, <2>2 DEF ReadHash, Failed, Passed
  <2>3. CASE Start(q) \/ Crash(q)
    BY <1>0, <2>3 DEF Start, VerifyRetainedChange, RunGovernedRollback, StoreUntrusted,
                      LockUnavailable, Crash
  <2> QED
    BY <1>4, <2>1, <2>2, <2>3
<1>5. ~Start(p)
  BY DEF Start, VerifyRetainedChange, RunGovernedRollback, StoreUntrusted, LockUnavailable
<1>6. ~Crash(p)
  <2>1. Idle("none").result # "retained"
    BY IdleFields
  <2> QED
    BY <1>3, <2>1 DEF Crash
<1>7. ~Failed(p)
  BY FailedFields
<1>8. Step(p)
  <2>1. ~(OperatorRemovesLock \/ User \/ UNCHANGED vars)
    BY <1>1
    DEF OperatorRemovesLock, User, UserEdits, UserStages, UserCommits, UserConfigures, vars
  <2> QED
    BY <1>4, <1>5, <1>6, <2>1 DEF Next
<1>9. ~InspectHead(p) /\ ~InspectStatus(p)
  <2>1. [proc[p] EXCEPT !.read = "status"].result = "none"
    BY <1>0 DEF Calls
  <2>2. [proc[p] EXCEPT !.read = "hash", !.todo = Targets].result = "none"
    BY <1>0 DEF Calls
  <2> QED
    BY <1>3, <1>7, <2>1, <2>2 DEF InspectHead, InspectStatus
<1>10. \E f \in Targets : ReadHash(p, f)
  BY <1>8, <1>9
  DEF Step, Consume, Replay, ConsumeThrows, FinalFilterCheck, RestoreUpdate, RestoreDone,
      RemoveCreated, RemoveDone, RestoreThrows, ReleaseLock
<1>11. PICK f \in Targets : ReadHash(p, f)
  BY <1>10
<1>12. proc[p].todo = {f} /\ HashHolds("retain", f) /\ proc[p].read = "hash"
  <2>1. [proc[p] EXCEPT !.todo = @ \ {f}].result = "none"
    BY <1>0 DEF Calls
  <2> QED
    BY <1>3, <1>7, <1>11, <2>1 DEF ReadHash
<1>13. /\ head = "receipt" /\ StatusHolds("retain") /\ \A g \in Targets : HashHolds("retain", g)
  BY <1>0, <1>12 DEF CheckIsTrue
<1>14. staged = FALSE /\ \A g \in Paths : work[g] = IF g \in Targets THEN "after" ELSE "base"
  BY <1>0, <1>13, CheckedMeansRestored
<1> QED
  BY <1>13, <1>14

\* Only the restore primitive writes, to targets it has read.
LEMMA EditsStep ==
  ASSUME RollbackInv, TruthInv, [Next]_vars
  PROVE  SeenEditsSurvive
<1>0. work \in [Paths -> Contents] /\ edits \in 0..MaxEdits
  BY DEF RollbackInv, TypeOK
<1>1. CASE work' = work
  BY <1>1 DEF SeenEditsSurvive
<1>2. CASE User
  <2>1. edits' # edits
    BY <1>0, <1>2, RollbackAssumption
    DEF RollbackAssumption, User, UserEdits, UserStages, UserCommits, UserConfigures, UserActs
  <2> QED
    BY <2>1 DEF SeenEditsSurvive
<1>3. ASSUME NEW p \in Processes, NEW f \in Targets, NEW new, work' = [work EXCEPT ![f] = new],
             proc[p].phase \in {"restore", "remove"}
      PROVE  SeenEditsSurvive
  <2>1. work[f] # "edited" \/ f \in raced
    BY <1>3 DEF TruthInv, EditsAreSeen, Unedited
  <2>2. \A g \in Paths \ {f} : work'[g] = work[g]
    BY <1>0, <1>3
  <2>3. f \notin Outside /\ Outside \subseteq Paths /\ Targets \subseteq Paths
    BY RollbackAssumption DEF RollbackAssumption, Paths, Targets
  <2> QED
    BY <2>1, <2>2, <2>3 DEF SeenEditsSurvive
<1>4. ASSUME NEW p \in Processes, Step(p) PROVE SeenEditsSurvive
  <2>1. CASE \E f \in Updates : RestoreUpdate(p, f)
    BY <1>3, <2>1 DEF RestoreUpdate, Targets
  <2>2. CASE \E f \in Creates : RemoveCreated(p, f)
    BY <1>1, <1>3, <2>2 DEF RemoveCreated, Targets
  <2>3. CASE ~(\E f \in Updates : RestoreUpdate(p, f)) /\ ~(\E f \in Creates : RemoveCreated(p, f))
    <3>1. work' = work
      BY <1>4, <2>3
      DEF Step, InspectHead, InspectStatus, ReadHash, Consume, Replay, ConsumeThrows,
          FinalFilterCheck, RestoreDone, RemoveDone, RestoreThrows, ReleaseLock, repository
    <3> QED
      BY <1>1, <3>1
  <2> QED
    BY <2>1, <2>2, <2>3
<1>5. ASSUME NEW p \in Processes, Start(p) \/ Crash(p) PROVE SeenEditsSurvive
  BY <1>1, <1>5 DEF Start, VerifyRetainedChange, RunGovernedRollback, StoreUntrusted,
                    LockUnavailable, Crash, repository
<1>6. CASE OperatorRemovesLock \/ UNCHANGED vars
  BY <1>1, <1>6 DEF OperatorRemovesLock, vars, repository
<1> QED
  BY <1>2, <1>4, <1>5, <1>6 DEF Next

(* A receipt vouches for the approved change and nothing else, and a         *)
(* rollback overwrites no content of a user's that its last check could      *)
(* have seen and no path outside the receipt.                                *)
THEOREM RollbackUndoesApproved == Spec => OnlyApprovedChangeIsUndone
<1>1. RollbackInv /\ TruthInv /\ [Next]_vars => [ReceiptIsTrue /\ SeenEditsSurvive]_vars
  BY ReceiptStep, EditsStep
<1> QED
  BY <1>1, RollbackInvariant, RollbackTruth, PTL DEF Spec, OnlyApprovedChangeIsUndone

\* A call inside the lock leaves it by its release or by a crash only.
LEMMA HolderStays ==
  ASSUME RollbackInv, NEW p \in Processes, Holding(p), Step(p), ~ReleaseLock(p)
  PROVE  Holding(p)'
<1>0. proc \in [Processes -> Calls] /\ proc[p] \in Calls
  BY DEF RollbackInv, TypeOK
<1>1. ASSUME Failed(p) PROVE Holding(p)'
  BY <1>0, <1>1 DEF Failed, Holding, Calls
<1>2. ASSUME Passed(p), proc[p].phase \in CheckPhases PROVE Holding(p)'
  BY <1>0, <1>2 DEF Passed, Holding, Calls, CheckPhases
<1>3. CASE InspectHead(p) \/ InspectStatus(p) \/ \E f \in Targets : ReadHash(p, f)
  BY <1>0, <1>1, <1>2, <1>3 DEF InspectHead, InspectStatus, ReadHash, Holding, Calls
<1>4. CASE Consume(p) \/ Replay(p) \/ ConsumeThrows(p)
  BY <1>0, <1>4 DEF Consume, Replay, Release, ConsumeThrows, Holding, Calls
<1>5. CASE FinalFilterCheck(p) \/ RestoreDone(p) \/ RemoveDone(p) \/ RestoreThrows(p)
  BY <1>0, <1>1, <1>5 DEF FinalFilterCheck, RestoreDone, RemoveDone, RestoreThrows, Check, Holding, Calls
<1>6. CASE (\E f \in Updates : RestoreUpdate(p, f)) \/ (\E f \in Creates : RemoveCreated(p, f))
  BY <1>0, <1>1, <1>6 DEF RestoreUpdate, RemoveCreated, Holding, Calls
<1> QED
  BY <1>3, <1>4, <1>5, <1>6 DEF Step

\* A call that is not inside takes no step into the lock but the one that
\* makes it.
LEMMA OutsiderStays ==
  ASSUME RollbackInv, NEW p \in Processes, ~Holding(p), Step(p)
  PROVE  ~Holding(p)'
<1>0. proc \in [Processes -> Calls] /\ proc[p] \in Calls
  BY DEF RollbackInv, TypeOK
<1>1. proc[p].phase = "retain"
  BY DEF Holding, Step, InspectHead, InspectStatus, ReadHash, Consume, Replay, ConsumeThrows,
         FinalFilterCheck, RestoreUpdate, RestoreDone, RemoveCreated, RemoveDone, RestoreThrows,
         ReleaseLock, CheckPhases
<1>2. \A r \in Results : Idle(r).phase = "idle"
  BY IdleType
<1>3. ASSUME Failed(p) \/ Passed(p) PROVE ~Holding(p)'
  BY <1>0, <1>1, <1>2, <1>3 DEF Failed, Passed, Holding, Results
<1>4. InspectHead(p) \/ InspectStatus(p) \/ \E f \in Targets : ReadHash(p, f)
  BY <1>1 DEF Step, Consume, Replay, ConsumeThrows, FinalFilterCheck, RestoreUpdate, RestoreDone,
              RemoveCreated, RemoveDone, RestoreThrows, ReleaseLock
<1> QED
  BY <1>0, <1>1, <1>3, <1>4 DEF InspectHead, InspectStatus, ReadHash, Holding, Calls

\* LockIsReleased is kept by a step that changes one call and not the lock,
\* unless the call comes out of it.
LEMMA ReleaseKept ==
  ASSUME RollbackInv, LockIsReleased, NEW p \in Processes, NEW c, proc' = [proc EXCEPT ![p] = c],
         Holding(p)' <=> Holding(p), UNCHANGED <<lock, orphaned>>
  PROVE  LockIsReleased'
<1>0. proc \in [Processes -> Calls]
  BY DEF RollbackInv, TypeOK
<1>1. \A q \in Processes : Holding(q)' = Holding(q)
  BY <1>0 DEF Holding
<1> QED
  BY <1>1 DEF LockIsReleased

\* The step of one process.
LEMMA ReleasedByStep ==
  ASSUME RollbackInv, LockIsReleased, NEW p \in Processes, Step(p)
  PROVE  LockIsReleased'
<1>1. CASE ReleaseLock(p)
  <2>1. Holding(p) /\ lock = TRUE /\ ~orphaned
    BY <1>1 DEF ReleaseLock, Holding, RollbackInv, TypeOK, LockIsExclusive, LockIsReleased
  <2>2. \A q \in Processes : ~Holding(q)'
    <3> DEFINE c == [Idle(proc[p].result) EXCEPT !.permit = proc[p].permit,
                                                 !.touched = proc[p].touched]
    <3>1. proc' = [proc EXCEPT ![p] = c] /\ proc \in [Processes -> Calls] /\ proc[p].result \in Results
      BY <1>1 DEF ReleaseLock, RollbackInv, TypeOK, Calls
    <3>2. c.phase = "idle"
      BY <3>1, IdleType DEF Calls
    <3> HIDE DEF c
    <3> QED
      BY <2>1, <3>1, <3>2 DEF RollbackInv, LockIsExclusive, Holding
  <2>3. \/ ~lock' /\ ~orphaned'
        \/ lock' /\ orphaned'
    BY <1>1, <2>1, Zenon DEF ReleaseLock
  <2> QED
    BY <2>2, <2>3, Zenon DEF LockIsReleased
<1>2. CASE ~ReleaseLock(p)
  <2>1. \E c : proc' = [proc EXCEPT ![p] = c]
    BY <1>2
    DEF Step, InspectHead, InspectStatus, ReadHash, Consume, Replay, ConsumeThrows,
        FinalFilterCheck, RestoreUpdate, RestoreDone, RemoveCreated, RemoveDone, RestoreThrows,
        Failed, Passed, Release, Check
  <2>2. UNCHANGED <<lock, orphaned>>
    BY <1>2
    DEF Step, InspectHead, InspectStatus, ReadHash, Consume, Replay, ConsumeThrows,
        FinalFilterCheck, RestoreUpdate, RestoreDone, RemoveCreated, RemoveDone, RestoreThrows
  <2>3. Holding(p)' <=> Holding(p)
    BY <1>2, HolderStays, OutsiderStays
  <2> QED
    BY <2>1, <2>2, <2>3, ReleaseKept
<1> QED
  BY <1>1, <1>2

\* A call that starts, or whose process dies.
LEMMA ReleasedByEnds ==
  ASSUME RollbackInv, LockIsReleased, NEW p \in Processes, Start(p) \/ Crash(p)
  PROVE  LockIsReleased'
<1>0. proc \in [Processes -> Calls] /\ lock \in BOOLEAN
  BY DEF RollbackInv, TypeOK
<1>1. \A r \in Results : Idle(r).phase = "idle"
  BY IdleType
<1>2. \A ph, k, v : NewCall(ph, k, v).phase = ph
  BY DEF NewCall
<1>3. ASSUME NEW k \in Permits, NEW v \in BOOLEAN, RunGovernedRollback(p, k, v)
      PROVE  LockIsReleased'
  <2>1. ~orphaned' /\ lock'
    BY <1>3 DEF RunGovernedRollback, LockIsFree, LockIsReleased
  <2>2. proc'[p] = NewCall("preflight", k, v)
    BY <1>0, <1>3 DEF RunGovernedRollback
  <2> QED
    BY <1>2, <2>1, <2>2 DEF LockIsReleased, Holding
<1>4. ASSUME NEW c, proc' = [proc EXCEPT ![p] = c], c.phase \in {"idle", "retain"}
      PROVE  /\ ~Holding(p)'
             /\ \A q \in Processes \ {p} : Holding(q)' = Holding(q)
  BY <1>0, <1>4 DEF Holding
<1>5. ASSUME NEW c, proc' = [proc EXCEPT ![p] = c], c.phase \in {"idle", "retain"},
             proc[p].phase = "idle", UNCHANGED <<lock, orphaned>>
      PROVE  LockIsReleased'
  BY <1>4, <1>5 DEF Holding, LockIsReleased
<1>6. CASE (\E v \in BOOLEAN : VerifyRetainedChange(p, v)) \/ StoreUntrusted(p)
  BY <1>1, <1>2, <1>5, <1>6 DEF VerifyRetainedChange, StoreUntrusted, Results
<1>7. CASE LockUnavailable(p)
  <2>1. /\ proc' = [proc EXCEPT ![p] = Idle("blocked")] /\ Idle("blocked").phase = "idle"
        /\ proc[p].phase = "idle"
    BY <1>1, <1>7 DEF LockUnavailable, Results
  <2>2. CASE UNCHANGED <<lock, orphaned>>
    BY <1>5, <2>1, <2>2
  <2>3. CASE ~lock /\ orphaned' = lock'
    <3>1. \A q \in Processes : ~Holding(q)
      BY <2>3 DEF RollbackInv, LockIsExclusive
    <3>2. \A q \in Processes : ~Holding(q)'
      BY <1>4, <2>1, <3>1
    <3> QED
      BY <2>3, <3>2 DEF LockIsReleased
  <2> QED
    BY <1>7, <2>2, <2>3 DEF LockUnavailable
<1>8. CASE Crash(p)
  <2>1. /\ proc' = [proc EXCEPT ![p] = Idle("none")] /\ Idle("none").phase = "idle"
        /\ lock' = lock
    BY <1>1, <1>8 DEF Crash, Results
  <2>2. CASE Holding(p)
    <3>1. orphaned' /\ lock
      BY <1>8, <2>2 DEF Crash, RollbackInv, LockIsExclusive
    <3>2. \A q \in Processes : ~Holding(q)'
      BY <1>4, <2>1, <2>2 DEF RollbackInv, LockIsExclusive
    <3> QED
      BY <2>1, <3>1, <3>2 DEF LockIsReleased
  <2>3. CASE ~Holding(p)
    <3>1. orphaned' <=> orphaned
      BY <1>8, <2>3 DEF Crash
    <3>2. \A q \in Processes : Holding(q)' = Holding(q)
      BY <1>4, <2>1, <2>3 DEF Holding
    <3> QED
      BY <2>1, <3>1, <3>2 DEF LockIsReleased
  <2> QED
    BY <2>2, <2>3
<1> QED
  BY <1>3, <1>6, <1>7, <1>8 DEF Start

(* Every way out of runGovernedRollback removes the lock file, whatever      *)
(* failed inside: one that no call stands for is that of a crashed call, or  *)
(* one whose removal failed.                                                 *)
THEOREM RollbackReleases == Spec => []LockIsReleased
<1>1. Init => LockIsReleased
  BY DEF Init, LockIsReleased
<1>2. RollbackInv /\ LockIsReleased /\ [Next]_vars => LockIsReleased'
  <2> SUFFICES ASSUME RollbackInv, LockIsReleased, [Next]_vars PROVE LockIsReleased'
    OBVIOUS
  <2>1. CASE OperatorRemovesLock \/ User \/ UNCHANGED vars
    BY <2>1
    DEF OperatorRemovesLock, User, UserEdits, UserStages, UserCommits, UserConfigures, vars,
        Holding, LockIsReleased
  <2> QED
    BY <2>1, ReleasedByStep, ReleasedByEnds DEF Next
<1> QED
  BY <1>1, <1>2, RollbackInvariant, PTL DEF Spec
=============================================================================
