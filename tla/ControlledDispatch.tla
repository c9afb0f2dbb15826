------------------------- MODULE ControlledDispatch -------------------------
(***************************************************************************)
(* Both kinds of controlled dispatch on one consumption store: the         *)
(* workspace write of WorkspaceWrite, and the read-only execution, which   *)
(* runs the Codex CLI in a child process (CodexCliExecutorProvider and     *)
(* runCodexCliExecPlan).                                                   *)
(*                                                                         *)
(* The prompt of a read-only plan is kept apart from the plan, in the      *)
(* hand-off store of the provider, from planExecution to execute.  The     *)
(* child may end by itself, ignore SIGTERM, or have ended while the close  *)
(* event is held up by a grandchild that has its pipes; timer and close    *)
(* event race.  It outlives a crash of its host, the timers do not.        *)
(*                                                                         *)
(* The provider is in mode "real"; that requires a timeout.                *)
(***************************************************************************)
EXTENDS WorkspaceWrite

VARIABLES
  handoff,      \* permits whose plan has its prompt in the hand-off store
  child         \* child[c]: the process of call c and its timer

\* timer: what is armed, or was when the call was settled; "killed" after
\* the grace period ended with SIGKILL.
NoChild == [state |-> "none", good |-> FALSE, timer |-> "off"]

ChildStates == [state : {"none", "alive", "ended", "closed"}, good : BOOLEAN,
                timer : {"off", "timeout", "grace", "killed"}]

processes == <<handoff, child>>
vars == <<dispatching, processes>>

DispatchTypeOK ==
  /\ TypeOK
  /\ handoff \subseteq Permits
  /\ child \in [Calls -> ChildStates]

Init == WriteInit /\ handoff = {} /\ child = [c \in Calls |-> NoChild]

IsReadOnly(c) == ~At(c, "new") /\ TargetsIn(c) = {}

-----------------------------------------------------------------------------
(* Plan, review, runner                                                    *)

\* planExecution: the prompt is put under a handle that is a function of the
\* plan, so that planning again replaces it.
PlanExecution(c, k) ==
  /\ At(c, "new") /\ TargetsOf[k] = {}
  /\ call' = [call EXCEPT ![c].phase = "review", ![c].permit = k, ![c].live = running]
  /\ barred' = IF running /\ k \notin expired THEN barred ELSE barred \cup {c}
  /\ handoff' = handoff \cup {k}
  /\ UNCHANGED <<repository, environment, consumed, events, faults, raced, child>>

ReviewReadOnly(c, ready) == Review(c, ready) /\ UNCHANGED processes

\* The started event, then validateExecutionPlan is awaited.
StartReadOnly(c, valid) ==
  /\ At(c, "validate")
  /\ started' = started \cup {c}
  /\ IF valid THEN Goto(c, "execute") ELSE Finish(c, "finalize", "validation_failed")
  /\ UNCHANGED <<repository, environment, consumed, completed, faults, history, processes>>

ReadOnlyBlocked(c) == RunnerBlocks(c) /\ UNCHANGED processes

-----------------------------------------------------------------------------
(* CodexCliExecutorProvider.execute, up to the child process               *)

\* The runner judges the permit once more; then, without an await, the
\* provider's own checks (accepted), the peek at the prompt, the consumption
\* of permit and prompt.  A replay leaves the prompt where it is.
Execute(c, accepted) ==
  /\ At(c, "execute")
  /\ IF PermitIsValid(c) /\ accepted /\ call[c].permit \in handoff /\ Unused(c)
     THEN /\ consumed' = consumed \cup {call[c].permit}
          /\ handoff' = handoff \ {call[c].permit}
          /\ call' = [call EXCEPT ![c].phase = "probe", ![c].executed = TRUE]
     ELSE /\ Finish(c, "finalize",
                    IF PermitIsValid(c) THEN "execution_failed" ELSE "validation_failed")
          /\ UNCHANGED <<consumed, handoff>>
  /\ UNCHANGED <<repository, environment, events, faults, history, child>>

\* The prompt expires between peek and consume, which reads the clock again:
\* the permit is spent and nothing runs.
PromptLapses(c) ==
  /\ At(c, "execute") /\ acts < MaxActs /\ acts' = acts + 1
  /\ PermitIsValid(c) /\ call[c].permit \in handoff /\ Unused(c)
  /\ consumed' = consumed \cup {call[c].permit}
  /\ handoff' = handoff \ {call[c].permit}
  /\ call' = [call EXCEPT ![c].phase = "finalize", ![c].executed = TRUE,
                          ![c].result = "execution_failed"]
  /\ UNCHANGED <<repository, running, expired, durable, crashes, events, faults, history, child>>

\* The model probe was awaited: the plan is not runnable, or spawn throws.
NotSpawned(c) ==
  /\ At(c, "probe")
  /\ Finish(c, "finalize", "execution_failed")
  /\ UNCHANGED <<repository, environment, consumed, events, faults, history, processes>>

Spawn(c) ==
  /\ At(c, "probe")
  /\ Goto(c, "run")
  /\ child' = [child EXCEPT ![c] = [state |-> "alive", good |-> FALSE, timer |-> "timeout"]]
  /\ UNCHANGED <<repository, environment, consumed, events, faults, history, handoff>>

-----------------------------------------------------------------------------
(* runCodexCliExecPlan: the race of timers and events                      *)

\* settle: the first one decides, later ones return at once.
Settle(c, result) ==
  IF At(c, "run") THEN Finish(c, "finalize", result) ELSE UNCHANGED call

Armed(c, timer) == At(c, "run") /\ child[c].timer = timer

\* timedOut; SIGTERM, which the child may ignore.
TimeoutFires(c) ==
  /\ Armed(c, "timeout")
  /\ child' = [child EXCEPT ![c].timer = "grace"]
  /\ UNCHANGED <<dispatching, handoff>>

\* SIGTERM or SIGKILL cannot be sent: kill emits the error event, which
\* settles.
KillFails(c) ==
  /\ Armed(c, "timeout") \/ Armed(c, "grace")
  /\ child[c].state = "alive" /\ Fault
  /\ child' = [child EXCEPT ![c].timer = "grace"]
  /\ Settle(c, "execution_failed")
  /\ UNCHANGED <<repository, environment, consumed, events, history, handoff>>

\* Mutant: the call is settled when the grace period is over, and the child
\* is left to the SIGTERM it was sent.
ForceSettleMutant(c) ==
  /\ Armed(c, "grace")
  /\ Settle(c, "execution_failed")
  /\ UNCHANGED <<repository, environment, consumed, events, faults, history, processes>>

\* forceSettleAfterTimeout
ForceSettle(c) ==
  /\ Armed(c, "grace")
  /\ child' = [child EXCEPT ![c].timer = "killed"]
  /\ Settle(c, "execution_failed")
  /\ UNCHANGED <<repository, environment, consumed, events, faults, history, handoff>>

\* Mutant: the exit code alone decides.
InspectionPassesMutant(c) == child[c].good

\* inspection.status of the result: no blocking reason in the output, exit
\* code 0, and not timed out.
InspectionPasses(c) == child[c].good /\ child[c].timer = "timeout"

\* clean: nothing in the output blocks.
OnClose(c, clean) ==
  /\ child[c].state = "ended"
  /\ child' = [child EXCEPT ![c].state = "closed"]
  /\ Settle(c, IF clean /\ InspectionPasses(c) THEN "succeeded" ELSE "execution_failed")
  /\ UNCHANGED <<repository, environment, consumed, events, faults, history, handoff>>

\* The error event of a child that could not be started.
OnError(c) ==
  /\ child[c].state = "alive" /\ Armed(c, "timeout") /\ Fault
  /\ child' = [child EXCEPT ![c].state = "closed"]
  /\ Settle(c, "execution_failed")
  /\ UNCHANGED <<repository, environment, consumed, events, history, handoff>>

\* The process ends, with exit code 0 (good) or otherwise; after SIGKILL
\* only otherwise.
ChildEnds(c, good) ==
  /\ child[c].state = "alive"
  /\ child[c].timer = "killed" => ~good
  /\ child' = [child EXCEPT ![c].state = "ended", ![c].good = good]
  /\ UNCHANGED <<dispatching, handoff>>

-----------------------------------------------------------------------------
(* Afterwards                                                              *)

\* finalizeControlledReadOnlyRunnerResult: the report artifact, the
\* governance update, the completed event.
FinalizeReadOnly(c) == Finalize(c) /\ UNCHANGED processes

\* The hand-off store drops a prompt whose time to live is over.
PromptExpires(k) ==
  /\ k \in handoff /\ acts < MaxActs /\ acts' = acts + 1
  /\ handoff' = handoff \ {k}
  /\ UNCHANGED <<repository, running, expired, durable, crashes, consumed, call, events, faults,
                 history, child>>

\* Prompts and timers are lost with the host, its children are not.
HostCrash == Crash /\ handoff' = {} /\ UNCHANGED child

ReadOnlyStep(c) ==
  \/ \E ok \in BOOLEAN :
       ReviewReadOnly(c, ok) \/ StartReadOnly(c, ok) \/ Execute(c, ok) \/ OnClose(c, ok)
       \/ ChildEnds(c, ok)
  \/ ReadOnlyBlocked(c) \/ PromptLapses(c) \/ NotSpawned(c) \/ Spawn(c)
  \/ TimeoutFires(c) \/ KillFails(c) \/ ForceSettle(c) \/ OnError(c) \/ FinalizeReadOnly(c)

Terminating == (\A c \in Calls : At(c, "done")) /\ UNCHANGED vars

Next ==
  \/ \E c \in Calls, k \in Permits : Prepare(c, k) /\ UNCHANGED processes
  \/ \E c \in Calls, k \in Permits : PlanExecution(c, k)
  \/ \E c \in Calls : ~IsReadOnly(c) /\ Step(c) /\ UNCHANGED processes
  \/ \E c \in Calls : IsReadOnly(c) /\ ReadOnlyStep(c)
  \/ Outside /\ UNCHANGED processes
  \/ \E k \in Permits : PromptExpires(k)
  \/ HostCrash
  \/ Terminating

Spec == Init /\ [][Next]_vars

-----------------------------------------------------------------------------

(* A child that is alive although its call has been answered was sent        *)
(* SIGKILL: no path of the settling leaves a process that only ignores       *)
(* SIGTERM, unless the signal could not be sent or the host died.            *)
ChildIsContained ==
  \A c \in Calls : child[c].state = "alive" /\ ~At(c, "run") =>
    child[c].timer = "killed" \/ faults + crashes > 0

(* Success of a read-only dispatch is reported only of a child that was      *)
(* given the prompt of this permit, ended by itself with exit code 0 and was *)
(* not told to stop before, also if it obeyed with exit code 0.              *)
SuccessIsGenuine ==
  \A c \in Calls : IsReadOnly(c) /\ call[c].result = "succeeded" =>
    /\ call[c].executed
    /\ child[c].state = "closed" /\ child[c].good /\ child[c].timer = "timeout"

(* No process without a licence: a child exists only of a call that consumed *)
(* its permit, which no other call then does.                                *)
ChildIsLicensed == \A c \in Calls : child[c].state # "none" => call[c].executed

(* When a dispatch is over, nothing of it is left and nothing goes on: what  *)
(* it wrote is restored, its process has ended or been killed, and a refused *)
(* one has not even begun.                                                   *)
NothingIsLeft ==
  /\ DispatchTypeOK
  /\ WritesAreTemporary /\ SuccessLeavesNothing /\ RefusedLeavesNoTrace
  /\ ChildIsContained

(* What executes has a licence when the runner takes over and is on record,  *)
(* and its success is reported only when it is one.                          *)
ExecutionIsAccountable ==
  /\ LicenceIsRequired /\ ExecutionIsLogged
  /\ ChildIsLicensed /\ SuccessIsGenuine
=============================================================================
