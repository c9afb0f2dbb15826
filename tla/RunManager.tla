----------------------------- MODULE RunManager -----------------------------
(***************************************************************************)
(* RunManager (packages/governance-internal-run-manager) over a            *)
(* KernelStore: runs, the steps of a run, and the event log.               *)
(*                                                                         *)
(* A call reads, checks what it read, updates and then appends an event.   *)
(* Each of these is a store operation of its own; the file store makes one *)
(* operation atomic (see FileLock), not the call.  A manager is a process  *)
(* with a RunManager on the shared store; a new instance numbers its       *)
(* events from 1 again.  Ids of runs and steps are chosen by the caller.   *)
(***************************************************************************)
EXTENDS Naturals, Sequences, FiniteSets

CONSTANTS
  Managers,     \* processes
  RunIds,
  StepIds,
  RunOf,        \* the run of each step
  DependsOn,    \* the steps each step depends on
  NoStep,
  MaxRestarts,  \* bound on new instances made between two calls
  MaxCrashes    \* bound on processes that die inside a call

ASSUME RunManagerAssumption ==
  /\ RunOf \in [StepIds -> RunIds]
  /\ DependsOn \in [StepIds -> SUBSET StepIds]
  /\ NoStep \notin StepIds
  /\ MaxRestarts \in Nat /\ MaxCrashes \in Nat

VARIABLES
  run,          \* run[r]: status of run r, "absent" before createRun
  step,         \* step[s]: status of step s
  log,          \* the events, in the order they were appended
  sequence,     \* sequence[m]: eventSequence of the instance
  call,         \* call[m]: the call in progress
  restarts, crashes

runVars == <<run, step, log, sequence, call, restarts, crashes>>

TerminalRun  == {"succeeded", "failed", "cancelled"}
TerminalStep == {"succeeded", "failed", "cancelled", "skipped"}
RunStatus    == {"queued", "running", "blocked"} \cup TerminalRun
StepStatus   == {"pending", "running"} \cup TerminalStep

\* assertRunTransition
RunSuccessors ==
  [queued |-> {"running", "cancelled"}, blocked |-> {"running"}, running |-> TerminalRun]

\* Mutant: a cancellation is not checked.
LegalRunStepMutant(from, to) ==
  \/ from \in RunStatus /\ to = "cancelled"
  \/ from \in DOMAIN RunSuccessors /\ to \in RunSuccessors[from]

LegalRunStep(from, to) == from \in DOMAIN RunSuccessors /\ to \in RunSuccessors[from]

\* assertStepTransition
StepSuccessors ==
  [pending |-> {"running", "cancelled"}, running |-> {"succeeded", "failed", "cancelled"}]

LegalStepStep(from, to) == from \in DOMAIN StepSuccessors /\ to \in StepSuccessors[from]

Targets == [run : RunIds, step : StepIds \cup {NoStep}]
RunTarget(r)  == [run |-> r, step |-> NoStep]
StepTarget(s) == [run |-> RunOf[s], step |-> s]
IsStep(t) == t.step # NoStep

\* createEventId: type, target and number.  The event of createStep is made
\* for the run, so its id does not name the step.
EventId(t, to, n) ==
  <<IsStep(t), to, IF IsStep(t) /\ to = "pending" THEN RunTarget(t.run) ELSE t, n>>

NoCall == [phase |-> "idle", target |-> [run |-> "none", step |-> NoStep], to |-> "none",
           seen |-> "none", deps |-> {}]

Phases == {"idle", "parent", "deps", "write", "event"}

Events == [target : Targets, to : RunStatus \cup StepStatus, number : Nat]

RunTypeOK ==
  /\ run \in [RunIds -> RunStatus \cup {"absent"}]
  /\ step \in [StepIds -> StepStatus \cup {"absent"}]
  /\ log \in Seq(Events)
  /\ sequence \in [Managers -> Nat]
  /\ \A m \in Managers :
       call[m] = NoCall \/ call[m] \in [phase : Phases, target : Targets,
                                        to : RunStatus \cup StepStatus,
                                        seen : RunStatus \cup StepStatus \cup {"absent"},
                                        deps : SUBSET StepIds]
  /\ restarts \in 0..MaxRestarts /\ crashes \in 0..MaxCrashes

RunInit ==
  /\ run = [r \in RunIds |-> "absent"]
  /\ step = [s \in StepIds |-> "absent"]
  /\ log = <<>>
  /\ sequence = [m \in Managers |-> 0]
  /\ call = [m \in Managers |-> NoCall]
  /\ restarts = 0 /\ crashes = 0

-----------------------------------------------------------------------------

Idle(m) == call[m].phase = "idle"
At(m, phase) == call[m].phase = phase
Continue(m, phase) == call' = [call EXCEPT ![m].phase = phase]
Throw(m) == call' = [call EXCEPT ![m] = NoCall]

Start(m, target, seen, to, phase) ==
  /\ Idle(m)
  /\ call' = [call EXCEPT ![m] = [phase |-> phase, target |-> target, to |-> to,
                                  seen |-> seen, deps |-> {}]]
  /\ UNCHANGED <<run, step, log, sequence, restarts, crashes>>

\* createRunFromTask reads nothing; the store refuses a run that exists.
CreateRun(m, r) == Start(m, RunTarget(r), "absent", "queued", "write")

\* startRun, completeRun, failRun and cancelRun: read and check.
MoveRun(m, r, to) ==
  /\ LegalRunStep(run[r], to)
  /\ Start(m, RunTarget(r), run[r], to, "write")

\* A run is put on hold through the store itself, by whoever waits for an
\* approval; no event is appended.
HoldRun(r) ==
  /\ run[r] = "queued"
  /\ run' = [run EXCEPT ![r] = "blocked"]
  /\ UNCHANGED <<step, log, sequence, call, restarts, crashes>>

\* createStep: the run must exist and must not be terminal.
CreateStep(m, s) ==
  /\ run[RunOf[s]] \notin TerminalRun \cup {"absent"}
  /\ Start(m, StepTarget(s), "absent", "pending", "write")

\* startStep, completeStep, failStep and cancelStep: requireStep.
MoveStep(m, s, to) ==
  /\ step[s] # "absent"
  /\ Start(m, StepTarget(s), step[s], to, "parent")

\* Mutant: the parent run must only not be terminal.
ReadParentMutant(m) ==
  /\ At(m, "parent")
  /\ IF /\ run[call[m].target.run] \notin TerminalRun
        /\ LegalStepStep(call[m].seen, call[m].to)
     THEN IF call[m].to = "running"
          THEN call' = [call EXCEPT ![m].phase = "deps", ![m].deps = DependsOn[call[m].target.step]]
          ELSE Continue(m, "write")
     ELSE Throw(m)
  /\ UNCHANGED <<run, step, log, sequence, restarts, crashes>>

\* assertStepParentRunRunning and assertStepTransition
ReadParent(m) ==
  /\ At(m, "parent")
  /\ IF run[call[m].target.run] = "running" /\ LegalStepStep(call[m].seen, call[m].to)
     THEN IF call[m].to = "running"
          THEN call' = [call EXCEPT ![m].phase = "deps", ![m].deps = DependsOn[call[m].target.step]]
          ELSE Continue(m, "write")
     ELSE Throw(m)
  /\ UNCHANGED <<run, step, log, sequence, restarts, crashes>>

\* What assertStepDependenciesSucceeded wants of one dependency.
Satisfied(s, d) == step[d] = "succeeded" /\ RunOf[d] = RunOf[s]

ReadDependency(m, d) ==
  /\ At(m, "deps") /\ d \in call[m].deps
  /\ IF Satisfied(call[m].target.step, d) THEN call' = [call EXCEPT ![m].deps = @ \ {d}] ELSE Throw(m)
  /\ UNCHANGED <<run, step, log, sequence, restarts, crashes>>

DependenciesRead(m) ==
  /\ At(m, "deps") /\ call[m].deps = {}
  /\ Continue(m, "write")
  /\ UNCHANGED <<run, step, log, sequence, restarts, crashes>>

\* The store's createRun, updateRun, createStep and updateStep.  A create is
\* refused when the id exists; an update overwrites whatever status is there.
Write(m) ==
  LET t       == call[m].target
      refused == /\ call[m].seen = "absent"
                 /\ IF IsStep(t) THEN step[t.step] # "absent" ELSE run[t.run] # "absent"
  IN  /\ At(m, "write")
      /\ IF refused THEN Throw(m) /\ UNCHANGED <<run, step>>
         ELSE /\ Continue(m, "event")
              /\ IF IsStep(t) THEN step' = [step EXCEPT ![t.step] = call[m].to] /\ UNCHANGED run
                              ELSE run' = [run EXCEPT ![t.run] = call[m].to] /\ UNCHANGED step
      /\ UNCHANGED <<log, sequence, restarts, crashes>>

\* appendEvent.  An id that is in the log already makes the call throw, after
\* the update was written.
AppendEvent(m) ==
  LET n     == sequence[m] + 1
      event == [target |-> call[m].target, to |-> call[m].to, number |-> n]
      taken == \E k \in DOMAIN log :
                 EventId(log[k].target, log[k].to, log[k].number) = EventId(event.target, event.to, n)
  IN  /\ At(m, "event")
      /\ sequence' = [sequence EXCEPT ![m] = n]
      /\ log' = IF taken THEN log ELSE Append(log, event)
      /\ Throw(m)
      /\ UNCHANGED <<run, step, restarts, crashes>>

\* The process ends and another one takes its place.
NewInstance(m) ==
  /\ sequence' = [sequence EXCEPT ![m] = 0]
  /\ Throw(m)
  /\ UNCHANGED <<run, step, log>>

Restart(m) == Idle(m) /\ restarts < MaxRestarts /\ restarts' = restarts + 1
              /\ NewInstance(m) /\ UNCHANGED crashes

Crash(m) == ~Idle(m) /\ crashes < MaxCrashes /\ crashes' = crashes + 1
            /\ NewInstance(m) /\ UNCHANGED restarts

RunNext ==
  \/ \E r \in RunIds : HoldRun(r)
  \/ \E m \in Managers :
       \/ \E r \in RunIds : CreateRun(m, r) \/ \E to \in RunStatus : MoveRun(m, r, to)
       \/ \E s \in StepIds : CreateStep(m, s) \/ \E to \in StepStatus : MoveStep(m, s, to)
       \/ ReadParent(m) \/ DependenciesRead(m) \/ \E d \in StepIds : ReadDependency(m, d)
       \/ Write(m) \/ AppendEvent(m)
       \/ Restart(m) \/ Crash(m)

RunSpec == RunInit /\ [][RunNext]_runVars

-----------------------------------------------------------------------------

\* The status of a run or step that is over never changes: a call that
\* checked an older status does not bring it back.
TerminalStays ==
  /\ \A r \in RunIds : run[r] \in TerminalRun => run'[r] = run[r]
  /\ \A s \in StepIds : step[s] \in TerminalStep => step'[s] = step[s]

\* A step moves only while its run is running.
StepsMoveInRunningRun ==
  \A s \in StepIds :
    step[s] # "absent" /\ step'[s] # step[s] => run[RunOf[s]] = "running"

\* A step that was started has dependencies that succeeded and stay so.
StartedAfterDependencies ==
  \A s \in StepIds : step[s] \in {"running", "succeeded", "failed"} =>
    \A d \in DependsOn[s] : step[d] = "succeeded"

StatusOf(t) == IF IsStep(t) THEN step[t.step] ELSE run[t.run]
Rank(status) == CASE status \in {"queued", "pending"} -> 1
                  [] status = "blocked" -> 2
                  [] status = "running" -> 3
                  [] OTHER -> 4

\* The log tells each run's and step's life in order, with gaps at most where
\* a process died or an id was taken, and no event is ahead of the status: an
\* outcome is logged only for what really ended that way, and once.
LogIsLifecycle ==
  /\ \A j, k \in DOMAIN log :
       j < k /\ log[j].target = log[k].target => Rank(log[j].to) < Rank(log[k].to)
  /\ \A k \in DOMAIN log :
       LET status == StatusOf(log[k].target)
       IN  Rank(log[k].to) < Rank(status) \/ log[k].to = status

\* What one reads of a run at any time makes sense: started steps have their
\* dependencies, and the log tells no more than what happened.
RecordIsConsistent == RunTypeOK /\ StartedAfterDependencies /\ LogIsLifecycle

\* Checks that are made some store operations before the write still hold of
\* it while one manager works alone, crashes and restarts included.
MovesAreLegal == [][TerminalStays /\ StepsMoveInRunningRun]_runVars
=============================================================================
