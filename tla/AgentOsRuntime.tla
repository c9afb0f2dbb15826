--------------------------- MODULE AgentOsRuntime ---------------------------
(***************************************************************************)
(* The mutating tools of AgentOsMcpLocalRuntime (protocol-mcp) but for the *)
(* workspace write: create_task, cancel_run and approve_run, with the run  *)
(* manager, execution planner, eligibility and approval permits they call. *)
(*                                                                         *)
(* Runtimes are processes that share the file-backed kernel and plan       *)
(* stores; a permit store is in memory, one for each runtime.  A handler   *)
(* is synchronous, so one action is one operation on a shared store with   *)
(* the local code around it (FileLock makes one operation atomic).  A call *)
(* that the gate, or a missing store or dispatcher, blocks changes         *)
(* nothing and is not a step; nor are the tools that only read.            *)
(***************************************************************************)
EXTENDS Naturals, Sequences, FiniteSets, FiniteSetsExt, SequencesExt

CONSTANTS
  Runtimes,
  Runs,          \* a task and its one run; default ids never collide
  NoRun,
  Scopes,        \* capability scopes
  Permits,       \* permit ids
  NoPermit,
  MaxFaults,     \* bound on store operations that throw
  MaxRestarts

ASSUME AgentOsRuntimeAssumption ==
  /\ NoRun \notin Runs /\ NoPermit \notin Permits
  /\ MaxFaults \in Nat /\ MaxRestarts \in Nat

VARIABLES
  tasks,         \* runs whose task is stored
  run,           \* run[r]: status of run r
  plans,         \* plans[r]: the provider execution plans of r, in order
  log,           \* the events of the kernel store
  permit,        \* permit[k]: what permit k says, whoever holds it
  held,          \* held[p]: permits in the store of p
  unusable,      \* permits that are revoked or past their expiry
  sequence,      \* sequence[p]: runtimeEventSequence of p
  call,          \* call[p]: the handler that p is in
  answers,       \* history: calls that were answered "succeeded"
  faults, restarts

stores == <<tasks, run, plans, log>>
ledger == <<permit, held, unusable>>
vars   == <<stores, ledger, sequence, call, answers, faults, restarts>>

PlanStatus == {"planned", "waiting_approval", "blocked"}

\* A policy decision is told by the capabilities it asks for.
Plans == [status : PlanStatus, policy : SUBSET Scopes]

Kinds == {"created", "create_task", "cancelled", "issued", "consumed"}
Events == [kind : Kinds, run : Runs, number : Nat, permit : Permits \cup {NoPermit},
           plan : BOOLEAN]

\* Ids of the runtime's own events share one numbering per run; the id of an
\* event of a RunManager names its type.
EventId(e) == <<e.run, e.number, IF e.kind \in {"created", "cancelled"} THEN e.kind ELSE "mcp">>

NoCall == [tool |-> "none", phase |-> "idle", run |-> NoRun, seen |-> "absent", policy |-> {},
           scopes |-> {}, permit |-> NoPermit, waiting |-> FALSE, event |-> "created",
           number |-> 0, plan |-> FALSE]

Phases == {"idle", "run", "created", "plan", "sequence", "event", "cancel", "cancelled", "permit",
           "task", "consume"}

PermitRecords == [run : Runs, scopes : SUBSET Scopes, plan : Plans]
NotIssued == [run |-> NoRun]

TypeOK ==
  /\ tasks \subseteq Runs
  /\ run \in [Runs -> {"absent", "queued", "cancelled"}]
  /\ \A r \in Runs : plans[r] \in Seq(Plans)
  /\ log \subseteq Events
  /\ permit \in [Permits -> PermitRecords \cup {NotIssued}]
  /\ held \in [Runtimes -> SUBSET Permits] /\ unusable \subseteq Permits
  /\ sequence \in [Runtimes -> Nat]
  /\ \A p \in Runtimes : /\ call[p].phase \in Phases /\ call[p].run \in Runs \cup {NoRun}
                         /\ call[p].phase = "idle" => call[p] = NoCall
  /\ answers \subseteq [tool : {"create_task", "cancel_run", "approve_run"}, run : Runs,
                        permit : Permits \cup {NoPermit}, plan : BOOLEAN]
  /\ faults \in 0..MaxFaults /\ restarts \in 0..MaxRestarts

Init ==
  /\ tasks = {} /\ run = [r \in Runs |-> "absent"] /\ plans = [r \in Runs |-> <<>>] /\ log = {}
  /\ permit = [k \in Permits |-> NotIssued] /\ held = [p \in Runtimes |-> {}] /\ unusable = {}
  /\ sequence = [p \in Runtimes |-> 0]
  /\ call = [p \in Runtimes |-> NoCall]
  /\ answers = {} /\ faults = 0 /\ restarts = 0

-----------------------------------------------------------------------------
At(p, phase) == call[p].phase = phase
Goto(p, phase) == call' = [call EXCEPT ![p].phase = phase] /\ UNCHANGED answers

\* The handler throws, or answers "blocked".
Leave(p) == call' = [call EXCEPT ![p] = NoCall] /\ UNCHANGED answers

Succeed(p) ==
  /\ call' = [call EXCEPT ![p] = NoCall]
  /\ answers' = answers \cup {[tool |-> call[p].tool, run |-> call[p].run,
                               permit |-> call[p].permit, plan |-> call[p].plan]}

bounds == <<faults, restarts>>

-----------------------------------------------------------------------------
(* appendRuntimeEvent                                                      *)

RuntimeNumbers(r) ==
  {e.number : e \in {f \in log : f.run = r /\ f.kind \notin {"created", "cancelled"}}}

\* nextRuntimeEventSequence reads the log; the append is another operation.
NextRuntimeEventSequence(p) ==
  LET n == 1 + Max({sequence[p]} \cup RuntimeNumbers(call[p].run))
  IN /\ At(p, "sequence")
     /\ sequence' = [sequence EXCEPT ![p] = n]
     /\ call' = [call EXCEPT ![p].phase = "event", ![p].number = n]
     /\ UNCHANGED <<stores, ledger, answers, bounds>>

Event(p, kind, number) ==
  [kind |-> kind, run |-> call[p].run, number |-> number, permit |-> call[p].permit,
   plan |-> call[p].plan]

\* duplicate_event_id
IdIsTaken(event) == \E e \in log : EventId(e) = EventId(event)

\* Mutant: a duplicate event id is not an error.
AppendRuntimeEventMutant(p) ==
  LET event == Event(p, call[p].event, call[p].number)
  IN /\ At(p, "event")
     /\ log' = IF IdIsTaken(event) THEN log ELSE log \cup {event}
     /\ IF event.kind = "issued" /\ call[p].waiting THEN Goto(p, "task") ELSE Succeed(p)
     /\ UNCHANGED <<tasks, run, plans, ledger, sequence, bounds>>

AppendRuntimeEvent(p) ==
  LET event == Event(p, call[p].event, call[p].number)
  IN /\ At(p, "event")
     /\ IF IdIsTaken(event) THEN Leave(p) /\ UNCHANGED log
        ELSE /\ log' = log \cup {event}
             /\ IF event.kind = "issued" /\ call[p].waiting THEN Goto(p, "task") ELSE Succeed(p)
     /\ UNCHANGED <<tasks, run, plans, ledger, sequence, bounds>>

-----------------------------------------------------------------------------
(* handleCreateTask                                                        *)

CreateTask(p, r, policy) ==
  /\ At(p, "idle") /\ r \notin tasks
  /\ tasks' = tasks \cup {r}
  /\ call' = [call EXCEPT ![p] = [NoCall EXCEPT !.tool = "create_task", !.phase = "run",
                                               !.run = r, !.policy = policy]]
  /\ UNCHANGED <<run, plans, log, ledger, sequence, answers, bounds>>

\* createRunFromTask: createRun, and then the event of a RunManager made for
\* this call, so that its number is 1.
CreateRun(p) ==
  /\ At(p, "run")
  /\ run' = [run EXCEPT ![call[p].run] = "queued"]
  /\ Goto(p, "created")
  /\ UNCHANGED <<tasks, plans, log, ledger, sequence, bounds>>

AppendRunCreated(p) ==
  /\ At(p, "created")
  /\ log' = log \cup {Event(p, "created", 1)}
  /\ Goto(p, "plan")
  /\ UNCHANGED <<tasks, run, plans, ledger, sequence, bounds>>

\* planProviderExecution: the status follows the eligibility the caller
\* gives, unless the ids and hashes of its inputs do not fit together.
PlanFor(eligibility, policy, consistent) ==
  [policy |-> policy,
   status |-> IF ~consistent THEN "blocked"
              ELSE IF eligibility = "eligible" THEN "planned" ELSE eligibility]

\* maybePlanProviderExecution, without or with a planning context.
MaybePlanProviderExecution(p) ==
  /\ At(p, "plan")
  /\ \/ /\ call' = [call EXCEPT ![p].phase = "sequence", ![p].event = "create_task"]
        /\ UNCHANGED plans
     \/ \E e \in {"eligible", "waiting_approval", "blocked"}, consistent \in BOOLEAN :
          /\ plans' = [plans EXCEPT ![call[p].run] =
                                     Append(@, PlanFor(e, call[p].policy, consistent))]
          /\ call' = [call EXCEPT ![p].phase = "sequence", ![p].event = "create_task",
                                  ![p].plan = TRUE]
  /\ UNCHANGED <<tasks, run, log, ledger, sequence, answers, bounds>>

-----------------------------------------------------------------------------
(* handleCancelRun                                                         *)

\* RunManager.cancelRun: requireRun and assertRunTransition.
CancelRun(p, r) ==
  /\ At(p, "idle") /\ run[r] = "queued"
  /\ call' = [call EXCEPT ![p] = [NoCall EXCEPT !.tool = "cancel_run", !.phase = "cancel",
                                               !.run = r]]
  /\ UNCHANGED <<stores, ledger, sequence, answers, bounds>>

UpdateCancelledRun(p) ==
  /\ At(p, "cancel")
  /\ run' = [run EXCEPT ![call[p].run] = "cancelled"]
  /\ Goto(p, "cancelled")
  /\ UNCHANGED <<tasks, plans, log, ledger, sequence, bounds>>

\* The first event of the RunManager that handleCancelRun makes.
CancelledEvent(p) == Event(p, "cancelled", 1)

\* A duplicate id is not among the errors that cancelRunSafely turns into a
\* blocked answer: the call throws.
AppendRunCancelled(p) ==
  /\ At(p, "cancelled")
  /\ IF IdIsTaken(CancelledEvent(p)) THEN Leave(p) /\ UNCHANGED log
     ELSE log' = log \cup {CancelledEvent(p)} /\ Succeed(p)
  /\ UNCHANGED <<tasks, run, plans, ledger, sequence, bounds>>

-----------------------------------------------------------------------------
(* handleApproveRun                                                        *)

\* getRun; the status of the run is not looked at, only handed on.
ApproveRun(p, r, scopes, policy) ==
  /\ At(p, "idle") /\ run[r] # "absent" /\ scopes # {}
  /\ call' = [call EXCEPT ![p] = [NoCall EXCEPT !.tool = "approve_run", !.phase = "permit",
                                               !.run = r, !.seen = run[r], !.policy = policy,
                                               !.scopes = scopes]]
  /\ UNCHANGED <<stores, ledger, sequence, answers, bounds>>

\* Mutant: the scopes are compared with the policy decision of the call.
MayIssueMutant(p, k, plan) ==
  /\ plan \in Plans /\ call[p].scopes \subseteq call[p].policy
  /\ k \notin held[p]

\* The scopes lie inside the plan and the store does not have the permit id.
MayIssue(p, k, plan) ==
  /\ plan \in Plans /\ call[p].scopes \subseteq plan.policy
  /\ k \notin held[p]

\* listPlans, the checks, and savePermit in the memory of the runtime.  An
\* expiry that is not in the future is refused too.
IssuePermit(p, k) ==
  LET plan == Last(plans[call[p].run])
  IN /\ At(p, "permit") /\ (permit[k] = NotIssued \/ k \in held[p])
     /\ \/ Leave(p) /\ UNCHANGED ledger
        \/ /\ plans[call[p].run] # <<>> /\ MayIssue(p, k, plan)
           /\ permit' = [permit EXCEPT ![k] = [run |-> call[p].run, scopes |-> call[p].scopes,
                                               plan |-> plan]]
           /\ held' = [held EXCEPT ![p] = @ \cup {k}]
           /\ call' = [call EXCEPT ![p].phase = "sequence", ![p].event = "issued",
                                   ![p].permit = k,
                                   ![p].waiting = plan.status = "waiting_approval"]
           /\ UNCHANGED <<unusable, answers>>
     /\ UNCHANGED <<stores, sequence, bounds>>

\* maybeConsumeApprovalPermit: getTask.  Without a task or a context for
\* planning the answer is given as it is.
ReadTask(p) ==
  /\ At(p, "task")
  /\ \/ Succeed(p)
     \/ call[p].run \in tasks /\ Goto(p, "consume")
  /\ UNCHANGED <<stores, ledger, sequence, bounds>>

\* validateApprovalPermit
Accepted(p, policy, plan, requested) ==
  {k \in held[p] \ unusable :
     permit[k] = [run |-> call[p].run, scopes |-> permit[k].scopes, plan |-> plan]
     /\ plan.policy = policy /\ requested \subseteq permit[k].scopes}

\* Mutant: the permits of the run are taken for grants.
CapabilityGrantsMutant(p) == UNION {permit[k].scopes : k \in held[p]}

\* capabilityGrants: []
CapabilityGrants(p) == {}

\* evaluateExecutionEligibility; admission may reject the task, ask for more
\* or call for an approval.
Eligibility(p, admission, policy, plan) ==
  LET requested == plan.policy \cup policy
      accepted  == Accepted(p, policy, plan, requested)
  IN IF call[p].seen = "cancelled" \/ admission = "rejected" THEN "blocked"
     ELSE IF ~ (requested \subseteq CapabilityGrants(p)) THEN "waiting_approval"
     ELSE IF admission = "approval" /\ accepted = {} THEN "waiting_approval"
     ELSE "eligible"

\* The rest of maybeConsumeApprovalPermit: only an eligible run gets another
\* plan, and then the event permit.consumed.
ConsumePermit(p, admission) ==
  LET r    == call[p].run
      plan == permit[call[p].permit].plan
  IN /\ At(p, "consume")
     /\ IF Eligibility(p, admission, call[p].policy, plan) = "eligible"
        THEN /\ plans' = [plans EXCEPT ![r] = Append(@, PlanFor("eligible", call[p].policy, TRUE))]
             /\ call' = [call EXCEPT ![p].phase = "sequence", ![p].event = "consumed"]
             /\ UNCHANGED answers
        ELSE Succeed(p) /\ UNCHANGED plans
     /\ UNCHANGED <<tasks, run, log, ledger, sequence, bounds>>

-----------------------------------------------------------------------------
(* Surroundings                                                            *)

\* A permit is revoked in its store, or the clock passes its expiry.
RevokeOrExpire(k) ==
  /\ permit[k] # NotIssued /\ k \notin unusable
  /\ unusable' = unusable \cup {k}
  /\ UNCHANGED <<stores, permit, held, sequence, call, answers, bounds>>

\* A store operation throws (a lock timeout, a failing write): so does the
\* handler, and what it has stored stays.
StoreThrows(p) ==
  /\ ~At(p, "idle") /\ faults < MaxFaults /\ faults' = faults + 1
  /\ Leave(p)
  /\ UNCHANGED <<stores, ledger, sequence, restarts>>

\* The process ends, in a call or between two, and a new one takes its place.
Restart(p) ==
  /\ restarts < MaxRestarts /\ restarts' = restarts + 1
  /\ Leave(p)
  /\ held' = [held EXCEPT ![p] = {}] /\ sequence' = [sequence EXCEPT ![p] = 0]
  /\ UNCHANGED <<stores, permit, unusable, faults>>

ToolCall(p) ==
  \/ \E r \in Runs, policy \in SUBSET Scopes :
       \/ CreateTask(p, r, policy)
       \/ \E scopes \in SUBSET Scopes : ApproveRun(p, r, scopes, policy)
  \/ \E r \in Runs : CancelRun(p, r)

Step(p) ==
  \/ CreateRun(p) \/ AppendRunCreated(p) \/ MaybePlanProviderExecution(p)
  \/ UpdateCancelledRun(p) \/ AppendRunCancelled(p)
  \/ (\E k \in Permits : IssuePermit(p, k)) \/ ReadTask(p)
  \/ (\E admission \in {"admitted", "approval", "rejected"} : ConsumePermit(p, admission))
  \/ NextRuntimeEventSequence(p) \/ AppendRuntimeEvent(p)

Next ==
  \/ \E p \in Runtimes : ToolCall(p) \/ Step(p) \/ StoreThrows(p) \/ Restart(p)
  \/ \E k \in Permits : RevokeOrExpire(k)

Spec == Init /\ [][Next]_vars

-----------------------------------------------------------------------------
(* Properties                                                              *)

Logged(kind, r) == {e \in log : e.kind = kind /\ e.run = r}

\* What a tool call answered with "succeeded" stays true, whatever the other
\* runtimes do and whoever dies: the task, its run, their two events and the
\* plan it names are stored; the cancelled run is cancelled and logged; the
\* permit is logged as issued (handleCreateTask, handleCancelRun,
\* handleApproveRun).
AnswerIsDurable ==
  \A a \in answers :
    CASE a.tool = "create_task" -> /\ a.run \in tasks /\ run[a.run] # "absent"
                                   /\ Logged("created", a.run) # {}
                                   /\ Logged("create_task", a.run) # {}
                                   /\ a.plan => plans[a.run] # <<>>
      [] a.tool = "cancel_run" -> run[a.run] = "cancelled" /\ Logged("cancelled", a.run) # {}
      [] OTHER -> \E e \in Logged("issued", a.run) : e.permit = a.permit

\* The log is never ahead of the stores, at whatever operation a handler
\* stops: a logged run has its task, a logged plan is stored, a cancellation
\* has happened, and a logged permit was issued for its run within the scopes
\* of a stored plan.
LogIsTrue ==
  \A e \in log :
    /\ run[e.run] # "absent" /\ e.run \in tasks
    /\ e.plan => plans[e.run] # <<>>
    /\ e.kind = "cancelled" => run[e.run] = "cancelled"
    /\ e.kind = "issued" =>
         /\ permit[e.permit].run = e.run
         /\ \E n \in DOMAIN plans[e.run] : permit[e.permit].scopes \subseteq plans[e.run][n].policy

\* However many runtimes cancel a run at the same time, it is logged as
\* cancelled once: the others throw on the id of their event
\* (RunManager.cancelRun under handleCancelRun).
CancelledOnce == \A r \in Runs : Cardinality(Logged("cancelled", r)) <= 1

\* The log tells what happened, and tells it once.
LogIsFaithful == TypeOK /\ LogIsTrue /\ CancelledOnce

\* No approval, revocation, retry or race of two runtimes ever changes what a
\* run may execute: its plan is the one it was created with, so a run that
\* waits for an approval goes on waiting (maybeConsumeApprovalPermit and the
\* eligibility without grants).
PermitsDoNotExpand == [][\A r \in Runs : plans[r] # <<>> => plans'[r] = plans[r]]_vars

=============================================================================
