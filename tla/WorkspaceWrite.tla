--------------------------- MODULE WorkspaceWrite ---------------------------
(***************************************************************************)
(* The governed workspace write: prepare and dispatch                      *)
(* (controlled-provider-dispatcher), the runner (provider-execution-       *)
(* runner) and runWorkspaceWriteExecution (workspace-write-executor),      *)
(* which checks the repository, consumes the permit, applies the           *)
(* operations, inspects the diff and always restores the targets.          *)
(*                                                                         *)
(* Calls run concurrently in one process and interleave at every await;    *)
(* one action is the code between two of them.  Meanwhile the run may be   *)
(* cancelled, the permit may expire, and a user may edit and commit.  A    *)
(* crash ends all calls and, unless the host gave a durable consumption    *)
(* store, forgets which permits were consumed.                             *)
(*                                                                         *)
(* A path holds "base" (what the commit named in the permits holds, or no  *)
(* file), "edited" (anything a user wrote) or what call c wrote, that is   *)
(* c.  The verdicts of the pure reviews (plan, preflight, governance,      *)
(* provider selection, patch guard) are inputs of the step that asks.      *)
(*                                                                         *)
(* ControlledDispatch composes this with the other kind of dispatch, which *)
(* reads only: its permits are those without targets.                      *)
(***************************************************************************)
EXTENDS Naturals, FiniteSets

CONSTANTS
  Calls,        \* dispatches; each is made once
  Permits,
  Paths,
  TargetsOf,    \* TargetsOf[k]: the paths the operations under permit k write;
                \* none if k is a permit to execute read-only
  NoPermit,
  MaxActs,      \* bound on what user, operator and clock do
  MaxFaults,    \* bound on failing file, git and store operations
  MaxCrashes

ASSUME WorkspaceWriteAssumption ==
  /\ TargetsOf \in [Permits -> SUBSET Paths]
  /\ NoPermit \notin Permits
  /\ {"base", "edited"} \cap Calls = {}
  /\ MaxActs \in Nat /\ MaxFaults \in Nat /\ MaxCrashes \in Nat

VARIABLES
  work,         \* work[f]: content of f in the worktree
  tree,         \* tree[f]: content of f in the commit HEAD names
  moved,        \* whether HEAD left the commit named in the permits
  running,      \* whether the run has status running in the kernel store
  expired,      \* permits whose expiresAt has passed
  durable,      \* whether the consumption store survives a crash
  consumed,     \* permits in the consumption store
  call,         \* call[c]: the state of dispatch c
  started,      \* calls with a started event in the kernel store
  completed,    \* calls with a completed event
  acts, faults, crashes,
  raced,        \* history: raced[c]: paths a user changed after c's git status
  barred        \* history: calls that came too late, after the cancel or the expiry

repository == <<work, tree, moved>>
events     == <<started, completed>>
history    == <<raced, barred>>
dispatching == <<repository, running, expired, durable, consumed, call, events, acts, faults,
                 crashes, history>>

Contents == Calls \cup {"base", "edited"}

Phases == {"new", "review", "validate", "head", "status", "consume", "apply", "restore", "verify",
           "finalize", "done"}
          \cup {"execute", "probe", "run"}       \* of a read-only dispatch

Results == {"none", "dispatch_blocked", "validation_failed", "execution_failed", "succeeded",
            "rejected"}

\* live: run.status of the snapshot; gate: no gate reason so far; ok: no
\* execution reason so far; executed: the permit was consumed by this call.
NewCall == [phase |-> "new", permit |-> NoPermit, live |-> FALSE, gate |-> TRUE, ok |-> TRUE,
            executed |-> FALSE, todo |-> {}, result |-> "none"]

CallStates == [phase : Phases, permit : Permits \cup {NoPermit}, live : BOOLEAN, gate : BOOLEAN,
               ok : BOOLEAN, executed : BOOLEAN, todo : SUBSET Paths, result : Results]

TypeOK ==
  /\ work \in [Paths -> Contents] /\ tree \in [Paths -> Contents] /\ moved \in BOOLEAN
  /\ running \in BOOLEAN /\ expired \subseteq Permits
  /\ durable \in BOOLEAN /\ consumed \subseteq Permits
  /\ call \in [Calls -> CallStates]
  /\ \A c \in Calls : /\ call[c].permit = NoPermit <=> call[c].phase = "new"
                      /\ call[c].todo # {} => call[c].phase \in {"apply", "restore"}
  /\ started \subseteq Calls /\ completed \subseteq Calls
  /\ acts \in 0..MaxActs /\ faults \in 0..MaxFaults /\ crashes \in 0..MaxCrashes
  /\ raced \in [Calls -> SUBSET Paths] /\ barred \subseteq Calls

WriteInit ==
  /\ work = [f \in Paths |-> "base"] /\ tree = work /\ moved = FALSE
  /\ running = TRUE /\ expired = {}
  /\ durable \in BOOLEAN /\ consumed = {}
  /\ call = [c \in Calls |-> NewCall]
  /\ started = {} /\ completed = {}
  /\ acts = 0 /\ faults = 0 /\ crashes = 0
  /\ raced = [c \in Calls |-> {}] /\ barred = {}

At(c, phase) == call[c].phase = phase
Goto(c, phase) == call' = [call EXCEPT ![c].phase = phase]

Finish(c, phase, result) ==
  call' = [call EXCEPT ![c].phase = phase, ![c].result = result, ![c].todo = {}]

TargetsIn(c) == TargetsOf[call[c].permit]

\* git status --short
ChangedPaths == {f \in Paths : work[f] # tree[f]}

Fault == faults < MaxFaults /\ faults' = faults + 1

environment == <<running, expired, durable, acts, crashes>>

-----------------------------------------------------------------------------
(* prepareWorkspaceWriteDispatch and the dispatcher                        *)

\* The run is read from the store; planExecution and the preflight artifact
\* are awaited before the dispatch reviews that snapshot.
Prepare(c, k) ==
  /\ At(c, "new") /\ TargetsOf[k] # {}
  /\ call' = [call EXCEPT ![c].phase = "review", ![c].permit = k, ![c].live = running]
  /\ barred' = IF running /\ k \notin expired THEN barred ELSE barred \cup {c}
  /\ UNCHANGED <<repository, environment, consumed, events, faults, raced>>

\* Mutant: an expired permit is left to the executor, which does not look.
PermitIsValidMutant(c) == call[c].permit \in Permits

\* validateWorkspaceWriteProviderExecutionPermitV2ForPlan
PermitIsValid(c) == call[c].permit \notin expired

\* reviewControlledWorkspaceWriteProviderDispatch; ready: nothing else blocks,
\* and the preflight artifact in the store, read next, matches.
Review(c, ready) ==
  /\ At(c, "review")
  /\ IF ready /\ call[c].live /\ PermitIsValid(c)
     THEN Goto(c, "validate") ELSE Finish(c, "done", "dispatch_blocked")
  /\ UNCHANGED <<repository, environment, consumed, events, faults, history>>

-----------------------------------------------------------------------------
(* runProviderExecutionPlanControlledWorkspaceWrite, up to the executor    *)

\* The started event, then validateExecutionPlan; the executor takes the
\* time, by which it judges the permit, when it starts.
StartAndValidate(c, valid) ==
  /\ At(c, "validate")
  /\ started' = started \cup {c}
  /\ IF valid THEN call' = [call EXCEPT ![c].phase = "head", ![c].gate = PermitIsValid(c)]
     ELSE Finish(c, "finalize", "validation_failed")
  /\ UNCHANGED <<repository, environment, consumed, completed, faults, history>>

\* Runner preflight reasons: no event is appended before the report.
RunnerBlocks(c) ==
  /\ At(c, "validate")
  /\ Finish(c, "finalize", "validation_failed")
  /\ UNCHANGED <<repository, environment, consumed, events, faults, history>>

-----------------------------------------------------------------------------
(* runWorkspaceWriteExecution: the gate                                    *)

\* git branch --show-current, git rev-parse HEAD
ProbeHead(c) ==
  /\ At(c, "head")
  /\ call' = [call EXCEPT ![c].phase = "status", ![c].gate = @ /\ ~moved]
  /\ UNCHANGED <<repository, environment, consumed, events, faults, history>>

\* Mutant: a dirty worktree is tolerated, as the targets are restored anyway.
WorktreeCleanMutant(c) == call[c].gate \/ ChangedPaths = {}

WorktreeClean(c) == ChangedPaths = {}

ProbeStatus(c) ==
  /\ At(c, "status")
  /\ call' = [call EXCEPT ![c].phase = "consume", ![c].gate = @ /\ WorktreeClean(c)]
  /\ raced' = [raced EXCEPT ![c] = {}]
  /\ UNCHANGED <<repository, environment, consumed, events, faults, barred>>

\* probeWorkspaceGitState catches what git throws.
ProbeFails(c) ==
  /\ call[c].phase \in {"head", "status"} /\ Fault
  /\ Finish(c, "finalize", "validation_failed")
  /\ UNCHANGED <<repository, environment, consumed, events, history>>

\* Mutant: consumption is looked up when the permit is reviewed.
UnusedMutant(c) == call[c].permit \in Permits

\* consumeIfUnused
Unused(c) == call[c].permit \notin consumed

\* permitted: the topology of the targets, the files the commit lacks, the
\* synthetic diff, its guard and the rollback plan are in order.  They are
\* read one by one; the gate and the consumption that follow are one step.
ConsumePermit(c, permitted) ==
  /\ At(c, "consume")
  /\ IF call[c].gate /\ permitted /\ Unused(c)
     THEN /\ consumed' = consumed \cup {call[c].permit}
          /\ call' = [call EXCEPT ![c].phase = "apply", ![c].executed = TRUE,
                                  ![c].todo = TargetsIn(c)]
     ELSE Finish(c, "finalize", "validation_failed") /\ UNCHANGED consumed
  /\ UNCHANGED <<repository, environment, events, faults, history>>

-----------------------------------------------------------------------------
(* runWorkspaceWriteExecution: write, inspect, restore                     *)

WriteTarget(c, f) ==
  /\ At(c, "apply") /\ f \in call[c].todo
  /\ work' = [work EXCEPT ![f] = c]
  /\ call' = [call EXCEPT ![c].todo = @ \ {f}]
  /\ UNCHANGED <<tree, moved, environment, consumed, events, faults, history>>

\* The diff of the targets against the commit: what was inspected before is
\* accepted again, no change at all is not; anything else may be either.
InspectDiff(c, guard) ==
  /\ At(c, "apply") /\ call[c].todo = {}
  /\ (\A f \in TargetsIn(c) : work[f] = c) => guard
  /\ (\A f \in TargetsIn(c) : work[f] = "base") => ~guard
  /\ call' = [call EXCEPT ![c].phase = "restore", ![c].ok = guard, ![c].todo = TargetsIn(c)]
  /\ UNCHANGED <<repository, environment, consumed, events, faults, history>>

\* A path check refuses, or a read or write throws.
ApplyFails(c) ==
  /\ At(c, "apply") /\ Fault
  /\ call' = [call EXCEPT ![c].phase = "restore", ![c].ok = FALSE, ![c].todo = TargetsIn(c)]
  /\ UNCHANGED <<repository, environment, consumed, events, history>>

\* readContentHashes, before anything is written, is outside the try block.
HashingThrows(c) ==
  /\ At(c, "apply") /\ call[c].todo = TargetsIn(c) /\ Fault
  /\ Finish(c, "done", "rejected")
  /\ UNCHANGED <<repository, environment, consumed, events, history>>

\* Mutant: only what the failing operations left behind is restored.
RestoreTargetMutant(c, f) ==
  /\ At(c, "restore") /\ f \in call[c].todo
  /\ work' = [work EXCEPT ![f] = IF call[c].ok THEN @ ELSE "base"]
  /\ call' = [call EXCEPT ![c].todo = @ \ {f},
                          ![c].phase = IF call[c].todo = {f} THEN "verify" ELSE @]
  /\ UNCHANGED <<tree, moved, environment, consumed, events, faults, history>>

\* rollbackWorkspaceTargets: git restore --source, or rm for a new file.
RestoreTarget(c, f) ==
  /\ At(c, "restore") /\ f \in call[c].todo
  /\ work' = [work EXCEPT ![f] = "base"]
  /\ call' = [call EXCEPT ![c].todo = @ \ {f},
                          ![c].phase = IF call[c].todo = {f} THEN "verify" ELSE @]
  /\ UNCHANGED <<tree, moved, environment, consumed, events, faults, history>>

\* git, rm or rmdir throws, now or when the result is verified.
RestoreFails(c) ==
  /\ call[c].phase \in {"restore", "verify"} /\ Fault
  /\ Finish(c, "finalize", "execution_failed")
  /\ UNCHANGED <<repository, environment, consumed, events, history>>

\* git status --short -- <targets>
TargetsClean(c) == \A f \in TargetsIn(c) : work[f] = tree[f]

Verify(c) ==
  /\ At(c, "verify")
  /\ Finish(c, "finalize", IF call[c].ok /\ TargetsClean(c) THEN "succeeded" ELSE "execution_failed")
  /\ UNCHANGED <<repository, environment, consumed, events, faults, history>>

\* git rev-parse HEAD and the final hashes, then
\* finalizeControlledWorkspaceWriteRunnerResult: the report artifact and the
\* completed event.  An error rejects the call.
Finalize(c) ==
  /\ At(c, "finalize")
  /\ \/ completed' = completed \cup {c} /\ Goto(c, "done") /\ UNCHANGED faults
     \/ Fault /\ Finish(c, "done", "rejected") /\ UNCHANGED completed
  /\ UNCHANGED <<repository, environment, consumed, started, history>>

-----------------------------------------------------------------------------
(* The environment                                                         *)

Act == acts < MaxActs /\ acts' = acts + 1

UserEdits(f, content) ==
  /\ Act /\ work[f] # content
  /\ work' = [work EXCEPT ![f] = content]
  /\ raced' = [c \in Calls |-> raced[c] \cup {f}]
  /\ UNCHANGED <<tree, moved, running, expired, durable, consumed, call, events, faults, crashes,
                 barred>>

UserCommits ==
  /\ Act /\ ChangedPaths # {}
  /\ tree' = work /\ moved' = TRUE
  /\ UNCHANGED <<work, running, expired, durable, consumed, call, events, faults, crashes, history>>

\* handleCancelRun, or whoever ends the run.
CancelRun ==
  /\ Act /\ running
  /\ running' = FALSE
  /\ UNCHANGED <<repository, expired, durable, consumed, call, events, faults, crashes, history>>

Expire(k) ==
  /\ Act /\ k \notin expired
  /\ expired' = expired \cup {k}
  /\ barred' = barred \cup {c \in Calls : call[c].phase \in {"review", "validate", "execute"}
                                          /\ call[c].permit = k}
  /\ UNCHANGED <<repository, running, durable, consumed, call, events, faults, crashes, raced>>

\* The process dies with all its calls.
Crash ==
  /\ crashes < MaxCrashes
  /\ crashes' = crashes + 1
  /\ consumed' = IF durable THEN consumed ELSE {}
  /\ call' = [c \in Calls |-> IF call[c].phase \in {"new", "done"} THEN call[c]
                              ELSE [call[c] EXCEPT !.phase = "done", !.todo = {},
                                                   !.result = "rejected"]]
  /\ UNCHANGED <<repository, running, expired, durable, events, acts, faults, history>>

Step(c) ==
  \/ \E ready \in BOOLEAN :
       Review(c, ready) \/ StartAndValidate(c, ready) \/ ConsumePermit(c, ready) \/ InspectDiff(c, ready)
  \/ RunnerBlocks(c) \/ ProbeHead(c) \/ ProbeStatus(c) \/ ProbeFails(c)
  \/ \E f \in Paths : WriteTarget(c, f) \/ RestoreTarget(c, f)
  \/ ApplyFails(c) \/ HashingThrows(c) \/ RestoreFails(c) \/ Verify(c) \/ Finalize(c)

Outside ==
  \/ \E f \in Paths, content \in {"base", "edited"} : UserEdits(f, content)
  \/ UserCommits \/ CancelRun \/ \E k \in Permits : Expire(k)

-----------------------------------------------------------------------------

(* A permit is good for one execution, however many dispatches present it    *)
(* and wherever they interleave; after a crash this takes a consumption      *)
(* store that is durable.                                                    *)
PermitExecutesOnce ==
  durable \/ crashes = 0 =>
    \A c, d \in Calls :
      call[c].executed /\ call[d].executed /\ call[c].permit = call[d].permit => c = d

(* What a call writes stays only until its finally block has restored the    *)
(* target, whatever another call or the user does to it; an error of the     *)
(* restore or a crash can leave it behind.                                   *)
WritesAreTemporary ==
  \A f \in Paths, c \in Calls :
    work[f] = c =>
      \/ At(c, "apply") /\ f \notin call[c].todo
      \/ At(c, "restore") /\ f \in call[c].todo
      \/ faults + crashes > 0

(* A call that reports success has left nothing of its writes, neither in    *)
(* the worktree nor in a commit the user made while they were there.         *)
SuccessLeavesNothing ==
  \A c \in Calls : call[c].result = "succeeded" =>
    \A f \in Paths : work[f] # c /\ tree[f] # c

(* A refused dispatch wrote nothing, and it burnt no permit: who holds a     *)
(* consumed permit has executed, or was cut off while it did.                *)
RefusedLeavesNoTrace ==
  /\ \A c \in Calls, f \in Paths :
       call[c].result \in {"dispatch_blocked", "validation_failed"} => work[f] # c /\ tree[f] # c
  /\ \A k \in consumed : \E c \in Calls :
       call[c].permit = k /\ call[c].result \notin {"dispatch_blocked", "validation_failed"}

(* Nothing is executed without a started event before it, and only an error  *)
(* or a crash keeps an execution that ended from having its completed event. *)
ExecutionIsLogged ==
  \A c \in Calls : call[c].executed =>
    /\ c \in started
    /\ At(c, "done") /\ c \notin completed => faults + crashes > 0

(* A dispatch that begins after the run was cancelled never executes, and   *)
(* neither does one whose permit has expired before the runner hands it to   *)
(* the executor, though it was reviewed while the permit was good.           *)
LicenceIsRequired == \A c \in barred : ~call[c].executed

(* Writing and restoring overwrite content of a user that is in no commit    *)
(* only in a target the user changed after the call's git status; what the   *)
(* status could see is never lost, and no other path is ever written.        *)
SeenEditsSurvive ==
  [][\A f \in Paths :
       work[f] = "edited" /\ tree[f] # "edited" /\ acts' = acts /\ work'[f] # "edited" =>
         \E c \in Calls : call[c].executed /\ f \in TargetsIn(c) \cap raced[c]]_dispatching
=============================================================================
