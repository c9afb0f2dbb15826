--------------------------- MODULE OperatorAction ---------------------------
(***************************************************************************)
(* From an operator's decision to the injected executor: DesktopHostClient *)
(* (desktop-host-client) keeps the current action and the consumption of   *)
(* its receipt; recovery-control issues the documents of the review chain  *)
(* and dispatches.  The receipts are those of ReceiptStore.                *)
(*                                                                         *)
(* A document is plain data: it names its receipt and forerunners by hash, *)
(* and a caller may keep it over a restart.  The packets a caller writes   *)
(* repeat those hashes, and the later reviews are made again by each       *)
(* function that asks for their result: neither adds to what is known.     *)
(* What is not plain data is the proof that a consumption came from the    *)
(* store: it is attached to the object in the memory of the process.       *)
(***************************************************************************)
EXTENDS ReceiptStore

CONSTANTS
  Dispatches     \* calls of the dispatch and dry-run functions, each made once

VARIABLES
  client,        \* client[p]: the DesktopHostClient of process p
  proofs,        \* proofs[p]: receipts with a store-produced consumption in p
  documents,     \* documents issued, wherever they are kept
  dispatch,      \* dispatch[x]: the state of x
  audit,         \* audit[x]: events of x in the audit sink
  evidence,      \* dispatches whose result is in the evidence sink
  executed,      \* dispatches whose executor or adapter was called
  issued,        \* actions some client has captured
  storeless      \* processes whose client has no receipt store

journal  == <<audit, evidence, executed>>
hostVars == <<client, proofs, documents, dispatch, journal, issued, storeless>>
vars == <<storeVars, hostVars>>

Documents == [doc : {"gate", "authorization"}, receipt : Receipts]

NoConsumption == [status |-> "none", action |-> NoAction, decision |-> "consumed"]
Consumptions == [status : {"none", "passed", "blocked", "not_consumed"},
                 action : Actions \cup {NoAction}, decision : Decisions \cup {"consumed"}]

Consumption(r) == [status |-> "passed", action |-> r.action, decision |-> r.decision]

NewClient == [action |-> NoAction, consumption |-> NoConsumption]

Kinds == {"host", "contract", "dryRun", "taskControl"}

NewDispatch == [phase |-> "idle", kind |-> "host", process |-> NoCall,
                receipt |-> [action |-> NoAction, decision |-> "consumed"], result |-> "none"]

DispatchPhases == {"idle", "attempt", "execute", "close", "evidence", "recordFailure", "done",
                   "dead"}

TypeOK ==
  /\ StoreTypeOK
  /\ client \in [Processes -> [action : Actions \cup {NoAction}, consumption : Consumptions]]
  /\ proofs \in [Processes -> SUBSET Receipts]
  /\ documents \subseteq Documents
  /\ \A x \in Dispatches :
       /\ dispatch[x].phase \in DispatchPhases /\ dispatch[x].kind \in Kinds
       /\ dispatch[x].phase # "idle" => /\ dispatch[x].receipt \in Receipts
                                        /\ dispatch[x].process \in Processes
       /\ dispatch[x].result \in {"none", "blocked", "failed", "completed", "dry_run_ready"}
       /\ dispatch[x].result # "none" => dispatch[x].phase \in {"done", "recordFailure", "dead"}
  /\ audit \in [Dispatches -> SUBSET {"attempting", "completed", "failed"}]
  /\ evidence \subseteq Dispatches /\ executed \subseteq Dispatches
  /\ issued \subseteq Actions /\ storeless \subseteq Processes

Init ==
  /\ StoreInit
  /\ client = [p \in Processes |-> NewClient]
  /\ proofs = [p \in Processes |-> {}] /\ documents = {}
  /\ dispatch = [x \in Dispatches |-> NewDispatch]
  /\ audit = [x \in Dispatches |-> {}] /\ evidence = {} /\ executed = {}
  /\ issued = {} /\ storeless \in SUBSET Processes

-----------------------------------------------------------------------------
(* DesktopHostClient                                                       *)

\* captureOperatorAction, when run or resume ends: a new action, issued now,
\* or none.
CaptureAction(p, a) ==
  /\ a \in (Actions \ issued) \cup ({NoAction} \ {client[p].action})
  /\ client' = [client EXCEPT ![p] = [NewClient EXCEPT !.action = a]]
  /\ issued' = issued \cup ({a} \ {NoAction})
  /\ UNCHANGED <<storeVars, proofs, documents, dispatch, journal, storeless>>

\* createOperatorActionReceipt for the current action forgets its consumption.
CreateReceipt(p) ==
  /\ client[p].action # NoAction /\ client[p].consumption # NoConsumption
  /\ client' = [client EXCEPT ![p].consumption = NoConsumption]
  /\ UNCHANGED <<storeVars, proofs, documents, dispatch, journal, issued, storeless>>

\* validateGovernanceOperatorActionReceipt, but for the times.
ReceiptIsValid(a, r) ==
  /\ r.action = a
  /\ a \in Lockdown => r.decision \in {"consumed", "rejected"}

\* consumeOperatorActionReceipt up to its await, for the current action or
\* for an envelope the caller gives.  Any receipt may be invalid, as the age
\* of the action counts too; it is not looked at again.  The store's own
\* mkdir may fail before the call is queued.
BeginConsume(c, p, r, a) ==
  /\ At(c, "idle")
  /\ a \in issued \cup ({client[p].action} \ {NoAction})
  /\ \E own \in {FALSE, a = client[p].action} :
     LET begun == [NewCall EXCEPT !.process = p, !.current = own]
         end(result) == /\ call' = [call EXCEPT ![c] = [begun EXCEPT !.phase = "return",
                                                                    !.result = result]]
                        /\ UNCHANGED queue
     IN \/ end("invalid") /\ UNCHANGED faults
        \/ ReceiptIsValid(a, r) /\ p \in storeless /\ end("no_store") /\ UNCHANGED faults
        \/ ReceiptIsValid(a, r) /\ p \notin storeless /\ end("failed") /\ Fault
        \/ /\ ReceiptIsValid(a, r) /\ p \notin storeless /\ UNCHANGED faults
           /\ call' = [call EXCEPT ![c] = [begun EXCEPT !.phase = "queued", !.action = a,
                                                        !.decision = r.decision]]
           /\ queue' = [queue EXCEPT ![p] = Append(@, c)]
  /\ UNCHANGED <<files, directory, crashes, stolen, hostVars>>

\* validateAndConsumeGovernanceOperatorActionReceipt after the store's answer
Passed(c) == call[c].result = "stored"

\* The client writes the consumption next to whatever action is current now.
ReturnConsumption(c) ==
  LET p == call[c].process
      status == IF Passed(c) THEN "passed"
                ELSE IF call[c].result = "no_store" THEN "not_consumed" ELSE "blocked"
  IN /\ At(c, "return") /\ Forget(c, "done")
     /\ proofs' = [proofs EXCEPT ![p] = @ \cup (IF Passed(c) THEN {ReceiptOf(c)} ELSE {})]
     /\ client' = IF ~call[c].current THEN client
                  ELSE [client EXCEPT ![p].consumption =
                          IF Passed(c) THEN Consumption(ReceiptOf(c))
                          ELSE [NoConsumption EXCEPT !.status = status]]
     /\ UNCHANGED <<files, directory, queue, faults, crashes, stolen>>
     /\ UNCHANGED <<documents, dispatch, journal, issued, storeless>>

-----------------------------------------------------------------------------
(* The review chain                                                        *)

\* hasGovernanceOperatorActionReceiptConsumptionStoreProof
HasStoreProof(p, r) == r \in proofs[p]

\* addOperatorActionReceiptConsumptionReasons and addHostExecutorLifecycleReasons
\* for a consumption and a lifecycle state the caller has kept.
LicensedBy(p, r) == HasStoreProof(p, r) /\ r.decision = "consumed"

\* Mutant: the envelope of the lifecycle state is not compared.
CurrentlyLicensedMutant(p, r) ==
  /\ LicensedBy(p, r)
  /\ client[p].consumption = Consumption(r)

\* The same for the lifecycle state of the client as it is now.
CurrentlyLicensed(p, r) ==
  /\ LicensedBy(p, r)
  /\ client[p].consumption = Consumption(r)
  /\ client[p].action = r.action

Document(doc, r) == [doc |-> doc, receipt |-> r]

Issue(document) ==
  /\ document \notin documents
  /\ documents' = documents \cup {document}
  /\ UNCHANGED <<storeVars, client, proofs, dispatch, journal, issued, storeless>>

PlanExecution(p, r) == LicensedBy(p, r) /\ Issue(Document("gate", r))

AuthorizeHostExecutorReview(p, r) ==
  /\ CurrentlyLicensed(p, r)
  /\ Document("gate", r) \in documents
  /\ Issue(Document("authorization", r))

AdapterKinds == {"sandbox_reference_adapter", "sandbox_task_control_adapter", "live_adapter"}

IsAuthorized(r) == {Document("gate", r), Document("authorization", r)} \subseteq documents

\* reviewGovernanceOperatorActionAgentExecutorAdapterReadiness, for any kind
\* of adapter that names the host executor of the authorization.
AdapterIsReady(p, r) == LicensedBy(p, r) /\ IsAuthorized(r)

\* Only for review: dispatch class review_only, side effect class none.
DispatchIsAuthorized(p, r) == AdapterIsReady(p, r)

TaskControlIsAuthorized(p, r, adapter) ==
  DispatchIsAuthorized(p, r) /\ adapter # "sandbox_reference_adapter"

-----------------------------------------------------------------------------
(* Dispatch and dry runs, up to their first await                          *)

MayDispatchHost(p, r) == CurrentlyLicensed(p, r) /\ IsAuthorized(r)

MayRunContract(p, r, adapter) ==
  AdapterIsReady(p, r) /\ adapter = "sandbox_reference_adapter"

MayDryRun(p, r, adapter) == MayRunContract(p, r, adapter)

MayDryRunTaskControl(p, r, adapter) ==
  TaskControlIsAuthorized(p, r, adapter) /\ adapter = "sandbox_task_control_adapter"

MayDispatch(p, k, r) ==
  \E adapter \in AdapterKinds :
    \/ k = "host" /\ MayDispatchHost(p, r)
    \/ k = "contract" /\ MayRunContract(p, r, adapter)
    \/ k = "dryRun" /\ MayDryRun(p, r, adapter)
    \/ k = "taskControl" /\ MayDryRunTaskControl(p, r, adapter)

StartDispatch(x, p, k, r) ==
  /\ dispatch[x].phase = "idle" /\ MayDispatch(p, k, r)
  /\ \E dryRunMode \in {FALSE, k = "host"} :
       dispatch' = [dispatch EXCEPT
                      ![x] = [phase |-> IF dryRunMode THEN "done" ELSE "attempt", kind |-> k,
                              process |-> p, receipt |-> r,
                              result |-> IF dryRunMode THEN "dry_run_ready" ELSE "none"]]
  /\ UNCHANGED <<storeVars, client, proofs, documents, journal, issued, storeless>>

Move(x, phase, result) ==
  dispatch' = [dispatch EXCEPT ![x].phase = phase, ![x].result = result]

Record(x, event) == audit' = [audit EXCEPT ![x] = @ \cup {event}]

SinkFails == Fault /\ UNCHANGED <<files, directory, call, queue, crashes, stolen>>

hostRest == <<client, proofs, documents, issued, storeless>>

\* A sink that fails may have recorded the event.
RecordFails(x, event) == SinkFails /\ (UNCHANGED audit \/ Record(x, event))

AuditAttempt(x) ==
  /\ dispatch[x].phase = "attempt"
  /\ \/ Record(x, "attempting") /\ Move(x, "execute", "none") /\ UNCHANGED storeVars
     \/ RecordFails(x, "attempting") /\ Move(x, "done", "blocked")
  /\ UNCHANGED <<hostRest, evidence, executed>>

\* executor.dispatch, adapter.runSandboxContract or
\* runTaskControlSandboxDryRun.  A dry run goes through the contract, with a
\* sink that drops its events: the contract reviews the packet once more, for
\* more than the dry run did, and may block what is recorded as attempted.
CallExecutor(x) ==
  /\ dispatch[x].phase = "execute"
  /\ \/ /\ executed' = executed \cup {x}
        /\ \/ Move(x, "close", "none") /\ UNCHANGED storeVars
           \/ SinkFails /\ Move(x, "recordFailure", "failed")
     \/ /\ dispatch[x].kind = "dryRun" /\ Move(x, "done", "blocked")
        /\ UNCHANGED <<executed, storeVars>>
  /\ UNCHANGED <<hostRest, audit, evidence>>

\* record...Failure: an error of the sink is swallowed.
RecordFailure(x) ==
  /\ dispatch[x].phase = "recordFailure"
  /\ \/ Record(x, "failed") /\ UNCHANGED storeVars
     \/ RecordFails(x, "failed")
  /\ Move(x, "done", "failed")
  /\ UNCHANGED <<hostRest, evidence, executed>>

HasEvidence(x) == dispatch[x].kind \in {"dryRun", "taskControl"}

\* Mutant: the error of the closing audit record is swallowed as well.
CloseAuditMutant(x) ==
  /\ dispatch[x].phase = "close"
  /\ \/ Record(x, "completed") /\ UNCHANGED storeVars
     \/ RecordFails(x, "completed")
  /\ IF HasEvidence(x) THEN Move(x, "evidence", "none") ELSE Move(x, "done", "completed")
  /\ UNCHANGED <<hostRest, evidence, executed>>

\* A closing record that fails turns the result into a failure, and nothing
\* more is recorded.
CloseAudit(x) ==
  /\ dispatch[x].phase = "close"
  /\ \/ /\ Record(x, "completed") /\ UNCHANGED storeVars
        /\ IF HasEvidence(x) THEN Move(x, "evidence", "none") ELSE Move(x, "done", "completed")
     \/ RecordFails(x, "completed") /\ Move(x, "done", "failed")
  /\ UNCHANGED <<hostRest, evidence, executed>>

RecordEvidence(x) ==
  /\ dispatch[x].phase = "evidence"
  /\ \/ evidence' = evidence \cup {x} /\ Move(x, "done", "completed") /\ UNCHANGED storeVars
     \/ /\ SinkFails /\ evidence' \in {evidence, evidence \cup {x}}
        /\ Move(x, "recordFailure", "failed")
  /\ UNCHANGED <<hostRest, audit, executed>>

DispatchStep(x) ==
  \/ AuditAttempt(x) \/ CallExecutor(x) \/ RecordFailure(x) \/ CloseAudit(x) \/ RecordEvidence(x)

-----------------------------------------------------------------------------
Crash(p) ==
  /\ CrashStore(p)
  /\ client' = [client EXCEPT ![p] = NewClient]
  /\ proofs' = [proofs EXCEPT ![p] = {}]
  /\ dispatch' = [x \in Dispatches |->
                    IF dispatch[x].process = p /\ dispatch[x].phase # "done"
                    THEN [dispatch[x] EXCEPT !.phase = "dead"] ELSE dispatch[x]]
  /\ UNCHANGED <<documents, journal, issued, storeless>>

Next ==
  \/ \E p \in Processes, a \in Actions \cup {NoAction} : CaptureAction(p, a)
  \/ \E p \in Processes : CreateReceipt(p)
  \/ \E c \in Calls, p \in Processes, r \in Receipts, a \in Actions : BeginConsume(c, p, r, a)
  \/ \E c \in Calls : StoreStep(c) /\ UNCHANGED hostVars
  \/ \E c \in Calls : ReturnConsumption(c)
  \/ LockAges /\ UNCHANGED hostVars
  \/ \E p \in Processes, r \in Receipts : PlanExecution(p, r) \/ AuthorizeHostExecutorReview(p, r)
  \/ \E x \in Dispatches, p \in Processes, k \in Kinds, r \in Receipts : StartDispatch(x, p, k, r)
  \/ \E x \in Dispatches : DispatchStep(x)
  \/ \E p \in Processes : Crash(p)

Spec == Init /\ [][Next]_vars

-----------------------------------------------------------------------------
(* Properties                                                              *)

\* An executor or adapter is called only for a receipt with which an operator
\* consumed the action and which the store accepted; unless a running claim
\* was removed, no other decision on that action was accepted, before or
\* after (validateAndConsume..., planGovernance..., dispatchGovernance...).
DispatchIsLicensed ==
  \A x \in executed :
    LET r == dispatch[x].receipt IN
    /\ r.decision = "consumed"
    /\ \E c \in Calls : At(c, "done") /\ call[c].result = "stored" /\ ReceiptOf(c) = r
    /\ ~stolen => \A c \in Taken : call[c].action = r.action => ReceiptOf(c) = r

\* What the caller, the audit sink and the evidence sink are told agrees
\* with what was called: nothing is called before its attempt is recorded, or
\* closed or filed without being called; "completed" means called, audited
\* from attempt to completion and, in a dry run, filed as evidence; "failed"
\* means called; and "blocked" means that nothing was called, and that no
\* more than an attempt is recorded; wherever a sink fails, before or after
\* it has recorded, the contract blocks a dry run, or the process dies.
AuditIsTruthful ==
  \A x \in Dispatches :
    /\ x \in executed => "attempting" \in audit[x]
    /\ audit[x] \cap {"completed", "failed"} # {} => x \in executed
    /\ x \in evidence => HasEvidence(x) /\ "completed" \in audit[x]
    /\ dispatch[x].result = "completed" => /\ audit[x] = {"attempting", "completed"}
                                           /\ HasEvidence(x) => x \in evidence
    /\ dispatch[x].result = "failed" => x \in executed
    /\ dispatch[x].result = "blocked" => x \notin executed /\ audit[x] \subseteq {"attempting"}
    /\ dispatch[x].result = "dry_run_ready" => x \notin executed /\ audit[x] = {}

\* A receipt store consumes an action once and gives its lock back.
StoreIsSound == TypeOK /\ ConsumedOnce /\ LockHasLiveMaker

\* What reaches an executor was licensed, and what is said about it is true.
DispatchIsAccountable == DispatchIsLicensed /\ AuditIsTruthful

\* An executor is only called in the process, and the life of the process,
\* that consumed the receipt: documents kept over a restart call nothing.
ProofDiesWithProcess ==
  \A x \in executed' \ executed : dispatch[x].receipt \in proofs[dispatch[x].process]

\* A host dispatch is for the action that is current in its client when it
\* starts, although the answer of a consume that outlived its action is
\* written next to the new one (consumeOperatorActionReceipt).
DispatchIsCurrent ==
  \A x \in Dispatches :
    dispatch[x].phase = "idle" /\ dispatch'[x].phase # "idle" /\ dispatch'[x].kind = "host" =>
      client[dispatch'[x].process].action = dispatch'[x].receipt.action

\* No licence is used that is out of date: not one of an earlier life of the
\* process, and not one of an earlier action.
StaleLicenceIsRefused == [][ProofDiesWithProcess /\ DispatchIsCurrent]_vars
=============================================================================
