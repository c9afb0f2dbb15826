# A TLA+ model of codex-router

codex-router is a governance layer above Codex App Server. It watches the
events of a Codex session, decides which proposed file changes may be applied,
keeps a journal of what it approved, verifies the result in the workspace and
can roll it back under an operator's permit. Beside that it holds the "Agent
OS" kernel: tasks, runs and steps in a store, and a scheduler that leases runs
to workers.

This directory models the parts of it that keep state across calls, checks
them with TLC and proves the central properties with TLAPS. `PROJECT.json`
lists the components, the runs, the mutants, the correspondence of definitions
and source lines ("map"), the findings, the hazards and the theorems.

## Inventory

| Component | State it keeps | Operations | Hard behaviour |
|---|---|---|---|
| Scheduler (`packages/scheduler`) | queue items, queue order, leases | enqueueRun, acquireLease, renewLease, releaseLease, failLease, listQueue, listLeases | leases run out by the clock inside other calls; late answers; attempt counting |
| File store lock (`scheduler`, `kernel-store`, `provider-registry`, `execution-planner`) | a lock file and a JSON file | withLock, releaseLock, removeStaleLock | processes that die with the lock, several cleaners at once |
| Run manager (`governance-internal-run-manager`) over the kernel store | runs, steps, event log | createRun, start/complete/fail/cancelRun, createStep, start/complete/fail/cancelStep | a call is several store operations; several processes; event ids after a restart |
| App Server wire (`codex-adapter/src/v2-wire.ts`) | items, approvals, sequence numbers, request ids | normalize, send, disconnect | a server that may send anything in any order; an adapter that is behind |
| App Server adapter (`codex-adapter`) | turns, items, approvals, quarantine, journal on disk | ingest (seven event types), resolveHumanApproval | crash at every await; writes and sends that fail after taking effect; reordered, repeated and lost events |
| Authorization kernel, capability matcher | none | pure decisions | no fact may hide another; what is compared with what |
| Pending-approval journal (`retain-control`) | one file per accepted request | put, get, update, list | torn writes, power failures, orphaned entry locks |
| Retain verification and rollback (`retain-control`) | consumption markers, a lock in the Git directory, the worktree | verifyRetainedChange, issueRollbackPermit, runGovernedRollback | a user who edits between check and restore; replay; crash inside a restore |
| Agent OS runtime (`protocol-mcp`) | plans, permits, runs, event log | create_task, get/list, cancel_run, approve_run, dispatch_workspace_write | a call is many store operations, several runtimes on one store |
| Controlled dispatch (`governance-internal-controlled-provider-dispatcher`, `-provider-execution-runner`, `-workspace-write-executor`) | consumption store, workspace | prepare, guard, dispatch, execute | a write that must be undone, against users, other writes and crashes |
| Codex CLI host and provider (`codex-cli-host`, `providers/codex-cli`) | prompt hand-off store, child processes | planExecution, execute, runCodexCliExecPlan | timeout, signals, error and close of the child race for one answer |
| Recovery control, desktop host client | receipt store with a lock directory, current action | create, consume, review, dispatch, audit | single use, stale locks, crash between receipt and effect |
| Routing, admission, task graph | none | pure classification | ordering |
| Desktop live adapter, governance state | anomalies, risk, strategy of a task | executeDesktopPlan, runDesktopTask | failures of a step and of the sinks that record it |
| Audit, observability, memory, artifacts, redaction | records | append, list | none that decides anything |
| Protocols, SDK, CLI, public API, contracts | none | schemas and front ends | none |

How they interact: wire messages pass the normalizer, whose events the adapter
ingests; the adapter calls the authorization kernel and the preview, then
`issueRetainPermit` and the journal, then the transport, which encodes its
answer for the wire; on completion it calls `verifyRetainedChange`, whose
receipt is what a rollback permit is bound to. The Agent OS runtime calls the
run manager, which calls the kernel store, and dispatches workspace writes
through dispatcher, runner and executor; read-only executions take the same
dispatcher and runner to the Codex CLI provider, which runs a child process. The desktop host client consumes an
operator's receipt in the receipt store and hands the proof to the dispatch of
recovery control. The file stores share one lock discipline. The scheduler
knows a run only by its id.

## Modules

**Scheduler** models both schedulers; variable `fileBacked` says which. A
lease's remaining time is its `ttl`, which `Tick` counts down: `expiresAt <=
now` is `ttl = 0`. Every call but `enqueueRun` begins with `expireLeases`, so
every action starts from `ExpiredQueue` and `ExpiredLeases`. A call that throws
keeps these expirations in memory and loses them in the file scheduler, which
then writes nothing (`RefuseLeaseCall`).

**FileLock** takes `withStateMutation` apart into its file-system calls: create
with `wx`, write the token, read the state, write it, compare the token, unlink,
and the three steps of `removeStaleLock`. A mutation is the pair of its process
and call number, the state file the set of the mutations in it. An access to
the lock file may fail (`StampFails`, `ReleaseFails`): the call throws and the
file stays, without a pid if the write of the token failed, so that others may
remove it although its process lives. A lock ages (`Age`); the write that
follows the creation is assumed to end, well or badly, before `lockStaleMs`. The
history variable `robbed` says that a cleanup removed a lock that was not stale.

**RunManager** takes each call apart into its store operations: read the target,
read the parent run, read each dependency, write, append the event. A manager
is a process; a new instance starts its event numbers again. Who asks for a run
to be held ("blocked") is the store's user (`HoldRun`). FileLock and RunManager
have names of their own for what other modules call `Init`, `Next` and `Spec`
(`LockSpec`, `RunSpec`), because StateStoreProofs extends them and Scheduler.

**V2Wire** models the wire: `CodexAppServerV2WireNormalizer` with one action per
kind of message, `CodexAppServerV2WireTransport.send` and the rejections that
`CodexAppServerV2WireAdapter` turns into a disconnect. A message is normalised
and handed over without an await, so its arrival is one action, while the
adapter works off its queue (`events`) later: what it decides on may be old.
The adapter itself is reduced to what it may answer (`AdapterTakes`, `Learn`;
AppServerAdapter has the rest). The server is not trusted and sends anything;
a schema is a verdict. Permission profiles are sets of entries, some of them
restrictions, which the subset test of a grant must keep.

**PendingApprovalJournal** has the states of a journal entry and the updates
`assertJournalTransition` lets through.

**AtomicJournal** is what a journal store promises: put and update in one step
that outlives a power failure once it was answered "ok". **JournalStore** is the
file store, one action per file-system call: lock file, temporary file, fsync,
rename, fsync of the directory, unlink. A power failure may lose what was not
synced. `ImplementsAtomicJournal` is the refinement: the entry a reader sees is
the abstract one, and the step that takes effect is the rename.

**Authorization** has the pure functions of the authorization kernel and the
capability matcher: derivation of facts from a change set, risk score, the
comparison with request and ceiling, the decision; canonical forms of scopes,
denials and bound grants. A path is a sequence of components and whether it is
spelled in normal form. Its properties range over constants (`Cases`,
`Compared`, `ScopeCases`, `GrantCases`), which TLC is given as small families
of inputs.

**AppServerAdapter** models `CodexAppServerAdapter`. `serialize` runs one call
at a time, so `op` is the program counter of the one call in progress and an
action is the code between two awaits. Every journal operation takes a `done`
flag: it may throw having written or not (`updateJournalState` reads the entry
again to tell the two apart, and that read may fail too), and every send may
throw having arrived or not. It extends Authorization: the verdicts on a
request (`FileChangeVerdict`) are what the kernel decides on a set of
proposals. Canonicalisation, the source check before an accept and the retain
verification after it are inputs.

**WorkspaceWrite** follows `dispatch_workspace_write` from the tool call through
dispatcher, runner and executor, one action between two awaits. Calls overlap;
the run may be cancelled, the permit may expire, a user edits and commits. A
path holds its base content, something a user wrote, or what a call wrote. The
reviews and guards along the way are verdicts.

**ControlledDispatch** composes it with the read-only dispatch on one consumption
store. A permit without targets is one to read. `planExecution` puts the prompt
into the hand-off store, `execute` consumes permit and prompt without an await,
`Spawn` starts the child. From then on `TimeoutFires`, `ForceSettle`, `KillFails`,
`OnError` and `OnClose` compete; `Settle` is the code's `settle`, which only the
first of them passes. The child ends when it likes, and `OnClose` may come much
later, as the close event waits for the pipes. Provider mode "fake", which
answers without a process, is left out.

**ReceiptStore** is the file store of operator-action receipts with its lock
directory, which a waiter removes when it is 30 s old, whoever made it. The
receipts of a task share a file, and a write cut short leaves a part of its
line (`torn`) or all of it but the newline (`unended`), to which the next
receipt of the task is appended (`Lands`). An access to the directory or the
files may fail, having taken effect or not (`ClaimFails`, `RemovalFails`,
`AppendReceipt`). The history variables `stolen` and `abandoned` say that the
claim of a running call was removed, and that a crash or a failing access left
the directory to nobody.
**OperatorAction** composes it with `DesktopHostClient`, the review chain and
the dispatch of recovery control: documents are plain data that survive a
restart, the proof of a consumption is not. An audit or evidence sink that
fails may have recorded, and the sandbox contract of a dry run may still block
when the attempt is on record.

**AgentOsRuntime** models create_task, cancel_run and approve_run, one action per
operation on a shared store: several runtimes, each with its own permits in
memory, and a store operation that fails at any point.

**Rollback** models retain verification and rollback in one repository. A check
(`validateRollbackWorkspaceState`, the same facts in `verifyRetainedChange`,
and `verifyRollbackPostState`) is three kinds of read: HEAD, status, and one
hash per target. Between any two reads the user may edit, stage, commit or
change the Git configuration. `config` has a value for a changed checkout
conversion (which changes the bytes Git writes) and one for what the code
refuses to work with (filters, submodules, partial clones). The consumption
marker and the lock file survive a crash; nothing in the code removes an
orphaned lock, so `OperatorRemovesLock` stands for a person.

The `*Proofs` modules hold theorems and their proofs (see Proofs). The `MC*`
modules give functions and symmetry sets for TLC; the `.cfg` files
give the sets and bounds.

Each module carries some definitions named `...Mutant`: plausible bugs, each of
which makes TLC report the property it is listed with in `PROJECT.json`. They
are used by nothing else.

## Runs

A property that several short ones make up is a conjunction of named parts, each
stated and commented on its own in the module; `TypeOK` is one of the parts.

| Run | Properties | Bounds |
|---|---|---|
| scheduler | ActiveLeaseIsCurrent, CompletedByCurrentLease, AttemptsAreLeases; QueuedRunIsServed: every queued run is served or exhausted. Both stores | 2 runs, limits and durations that expire at different times |
| adapter | JournalIsTruthful (accepts are journaled, the journal's claims are true), JournalTracksItem (memory and disk agree), AnswerIsSentOnce (one answer, and sendDecision never finds a request closed after an await), AcceptIsStillDue (no accept in a disturbed turn, over an unresolved journal or after completion) | 2 items of one turn, 2 requests, 4 events, 1 update, 1 crash, either mode in each session |
| adapter_live | JournalHoldsApprovedVersion over the whole life of an item; ReconciliationIsWritten in the end; of the decisions: AutoAcceptIsContained, DecisionIsMonotone, CeilingIsRespected | 1 item, 1 request, 5 events, 1 update, 1 crash; 27,648 proposals, 75,250 decisions with requests of up to 2 scopes, 3,960 decisions each compared with about 25 worse ones, 342 scopes in pairs, 14,648 questions with up to 2 grants |
| lock_crash | UpdatesAreAtomic (mutual exclusion and no lost update until a cleanup robs a lock), OrphanIsRemoved | 2 processes, 3 calls each, 1 crash, 1 failing access to the lock file |
| lock_cleanup_race | **violation** of FreshLockSurvivesCleanup | 3 processes, 1 crash |
| run_manager | RecordIsConsistent (steps start after their dependencies, the log is the life of each run and step), MovesAreLegal (terminal stays terminal, steps move only in a running run) | 1 process, 2 dependent steps, 1 restart, 1 crash |
| rollback | LockIsExclusive, LockIsReleased, PermitRestoresOnce, AnswersAreTrue (blocked leaves no trace, receipts and rolled_back are true), OnlyApprovedChangeIsUndone (edits that were seen survive) | 2 processes, 2 permits, 3 paths, 2 user actions, 1 I/O error, 1 crash |
| journal_store | ImplementsAtomicJournal: the file store refines the atomic journal; EntryIsProtected (never corrupt, lock excludes and is released), AttemptClearsTemp | 2 processes, 1 entry, I/O errors, crashes and power failures |
| controlled_dispatch | PermitExecutesOnce; NothingIsLeft (writes are temporary, success and refusal leave nothing, no child process stays that was not killed); ExecutionIsAccountable (executions are licensed and logged, success of a child is genuine); SeenEditsSurvive | 2 dispatches, each a write or read-only, overlapping targets, 2 actions of a user or the clock, 1 fault, 1 crash |
| operator_action | StoreIsSound (an action is consumed once, an answer "stored" has its line unless the store is shut, locks have a live maker), DispatchIsAccountable (dispatches are licensed, the audit is true), TornStoreStaysShut, StaleLicenceIsRefused (of the current action and of this life of the process) | 2 processes, 2 calls, 2 actions of a task, 2 decisions, 1 dispatch, and one of: a failing access or sink, a crash, a deferred receipt, a client without a store (`OneOddity`) |
| agent_os | AnswerIsDurable, LogIsFaithful (true, and a run is cancelled once), PermitsDoNotExpand | 2 runtimes, 1 run, 2 permits, 1 fault, 1 restart |
| v2_wire | AnswersAreSound (one answer per request and as offered), EndsAreReportedTruly (resolutions and completions, nothing open in a closed thread), EventStreamIsWhole (numbering without gaps, one disconnect, last), AcceptCoversLatest | 1 item, 2 turns and a second thread, colliding ids, 3 contents, 5 messages after the handshake |

Why the bounds are enough to mean something. The scheduler's properties are
about two leases of one run and about one run overtaking another: two runs with
up to two attempts show both. The whole life of an item is five events (start,
update, request, resolution, completion), which adapter_live has; adapter has a
second item, which a disturbance by the first must stop, and a second request
to provoke a replay. The second session is what a restart is about, and it may
be constructed in the other mode (`enforced`). The
lock race needs a stale lock and two cleaners. The rollback properties need
a second process only for the lock and for replay, two user actions so that an
edit can be undone again (a file that looks untouched), and one path of each
kind. Two writers and one crash or power failure are all the journal's lock and
rename have to withstand. Workspace writes need two calls with a target in
common; two read-only calls under one permit show a replay after planning again,
and one of them has the timer and every event of its child in every order. A
receipt is disputed by two processes; the second action is there to become
current while the first is being consumed. A line that lacks its newline takes
one failure and two calls, one that leaves it and one that is appended to it;
what a third finds, and a fault together with a crash or another oddity, are
left to the theorems. On the wire, start, patch,
request, patch and resolution are five messages, in any order; two ids that
differ only in type are enough to collide. The families of authorization
inputs have each fact alone and in pairs, and each kind of resource (tree,
file, "*", "deny", root, odd spelling) as request, ceiling and canonical form.
What a bound cuts off, the theorems cover where there are any.

Two live processes that find a stale lock can break the mutual exclusion of the
file lock, which is the run lock_cleanup_race. The lock may be that of a third
process that died or of one of the two whose write of the token failed, so
lock_crash checks exclusion until a lock is robbed and the theorems say when
that cannot happen.

CHECK_DEADLOCK is left on where it can mean something: `FileLock` and
`ControlledDispatch` have an explicit `Terminating` step for the moment when
every bounded call has been made, so that any other state in which nobody can
move is reported. It is off where the messages or calls of the environment are bounded (v2_wire and the
like) and the system then rests.

### Fairness

* scheduler: some worker keeps calling `acquireLease` and the clock runs.
  No holder of a lease is assumed ever to answer.
* adapter_live: calls keep coming, an await settles, and the journal does not
  refuse one retry for ever (strong fairness of the successful retry). The
  retry is the code's own loop at the start of every serialized call; that the
  disk works again some day is the assumption. An entry lock orphaned by a
  crash of the file store would falsify it until an operator removes it (see
  JournalStore).
* lock_crash: processes that are alive take their steps, and time passes. An
  orphan is the lock of a dead process, or one without a pid; a lock whose
  removal failed keeps the pid of a live process, and the code has no way to
  remove it before that process ends.

### Findings

`removeStaleLock` can delete a fresh lock (lock_cleanup_race): it decides by
content and unlinks by name. The stale lock it takes is that of a dead process,
or the empty file that a failing write of the token leaves behind, which needs
no death.

Behaviour worth knowing that no document rules out:

* With two processes on one store, a step can start in a run that the other
  process cancelled in between (`startStep` reads the parent run first). The run
  run_manager therefore has one process at a time.
* After a restart, `createStep` can store a step and then throw
  `duplicate_event_id`: the event id of `kernel.step.created` does not name the
  step and the numbers start again.
* A file saved between the restore primitive's last hash read and `git restore`
  is overwritten. SeenEditsSurvive shows that this window is the only one.
* `reclaimStaleFileReceiptConsumeClaim` removes a lock directory by age: a
  process that was stopped for 30 s inside its claim loses it, and ConsumedOnce
  holds only as long as that does not happen (history variable `stolen`).
* A permit can be executed again after a crash if the host gave no durable
  consumption store.
* A child that exits with code 0 after the timeout fired, or whose close event
  comes after it, is reported as failed: PermitExecutesOnce then keeps it from
  being tried again under its permit.
* A prompt that expires between peek and consume costs the permit
  (`PromptLapses`).
* If SIGTERM cannot be sent, the error event settles the call and disarms the
  escalation: the child is left running (`KillFails`).
* A ceiling of `*/**` is taken to imply a request for `*`, so a request for
  everything passes it although it covers no file (UnblockedIsWithinCeiling
  makes the exception). Requests of the App Server adapter are never `*`.
* With `credentialAccess: "unknown"` a change set is blocked; a diff that looks
  like credentials overwrites this with "requested", which leaves it to a person.
* A denial bound to a principal, task or run is ignored when the caller does not
  say which it asks for (LessContextNeverAllows makes the exception); all
  callers in the repository do.
* A rename is never approved on the App Server path: only its new path is
  requested, and destructive changes are declined before that.

## Proofs

Eight `*Proofs` modules hold theorems, each for all values of its components'
constants: any sets of processes, items, permits or paths, and any bounds. The
properties are those of the runs. None of them is inductive as it stands; each
module defines what has to be added and proves that once (theorem
`...Invariant`), and the properties follow from it.

| Module | Inductive invariant | Properties proved |
|---|---|---|
| StateStoreProofs | SchedulerInv; FileLockInv; RunManagerInv | AtMostOneActiveLease (implied by ActiveLeaseIsCurrent, so no run checks it), CompletedByCurrentLease, ActiveLeaseIsCurrent, AttemptsAreLeases; UpdatesAreAtomic; RecordIsConsistent, MovesAreLegal (the last two on a condition, see below) |
| RollbackProofs | RollbackInv, TruthInv | LockIsExclusive, PermitRestoresOnce, AnswersAreTrue, OnlyApprovedChangeIsUndone, LockIsReleased |
| ControlledDispatchProofs | DispatchInv | PermitExecutesOnce, NothingIsLeft, ExecutionIsAccountable, SeenEditsSurvive |
| JournalStoreProofs | JournalInv | EntryIsProtected, AttemptClearsTemp, ImplementsAtomicJournal |
| AgentOsRuntimeProofs | AgentInv | AnswerIsDurable, LogIsFaithful, PermitsDoNotExpand |
| AppServerAdapterProofs | AdapterInv | JournalIsTruthful, JournalTracksItem, AnswerIsSentOnce, JournalHoldsApprovedVersion, AcceptIsStillDue; AutoAcceptIsContained, DecisionIsMonotone, CeilingIsRespected |
| OperatorActionProofs | StoreInv, HostInv | StoreIsSound, DispatchIsAccountable, TornStoreStaysShut, StaleLicenceIsRefused |
| V2WireProofs | WireInv | AnswersAreSound, EndsAreReportedTruly, EventStreamIsWhole, AcceptCoversLatest |

Type correctness is part of every invariant. The arguments:

* **Scheduler.** A second lease is kept away by the run's status, so the
  invariant says that a run is leased exactly when its last lease is active,
  and completed exactly when its last lease is released. The argument goes
  through the expired state: `ExpirationSound` shows that `expireLeases`
  preserves the invariant, and each operation is then shown to preserve it from
  the expired state.
* **FileLock** (in StateStoreProofs). Whoever is between
  creating the lock file and unlinking it owns the file that is there
  (`HolderOwns`), so there is one such process and what it has read is what is
  stored (`ReadIsCurrent`). The only step that can break this is the unlink of
  `removeStaleLock`, when it removes a lock that is not stale. So
  FileLockAtomicUnlessRobbed holds for any number of processes, calls, crashes
  and failing accesses, up to that step, which lock_cleanup_race shows to be
  possible. FileLockFreshLockSurvives says when it is not: as long as a stale
  lock never has two live processes to remove it (`LoneCleaner`), since between
  the second look and the unlink only another cleaner could have replaced the
  file (`RemoverIsAlone`). FileLockAtomicForLoneCleaner and FileLockAtomicForTwo
  draw the conclusions; the latter is about two processes, and needs that no
  access to the lock file fails: without a failure a stale lock without a live
  owner has a dead one (`StampedByTheLiving`).
  FileLockMutatesInOneStep ties the component to the others: until a lock is
  robbed the state file changes only by one whole mutation of what is stored,
  which is what Scheduler and RunManager take an operation of a file store for.
* **RunManager** (in StateStoreProofs). A call checks what it read some store
  operations ago. The condition of the theorems, `RunsAreSerial`, is that no two
  calls for one run overlap; calls for different runs may, and managers may
  restart and crash anywhere. Then a call in each phase still has what it has
  checked (`RunCallIsSound`, `StepCallIsSound`) except that a queued run may have
  been put on hold. So a write raises the status (`Rises`), and the event of a
  call is later than all logged events of its target (`EventIsNew`), which keeps
  the log in order even when a crash or a taken id leaves an event out. That
  nothing is logged of what does not exist (`LoggedExists`) is needed because an
  absent status has no rank. RunManagerAlone is the case the run run_manager
  checks; that the condition is needed is shown under Findings.
* **Rollback.** PermitRestoresOnce needs what a call in each phase may rely on
  (`Licensed`: after consumption its permit has a marker and, until it writes,
  no restore), that a permit with a restore has a marker (`Spent`), and
  exclusion, so that no other call relies on the same permit. What the answers
  claim needs `TruthInv`: what a check has read is true as long as nobody acts
  (`CheckIsTrue`), and the restore writes only targets its own last check has
  read (`EditsAreSeen`).
  LockIsReleased needs that a call leaves the lock by its release or a crash
  only (`HolderStays`); the history variable `orphaned` tells the lock file of a
  crash, or of a removal that failed, from one that a return path forgot.
* **ControlledDispatch.** `CallIsSound` says for each phase of a call whether it
  has consumed its permit, has its started event, has a child and may have
  written where; `BarIsSound` why a call that came too late does not get to the
  consumption.
* **JournalStore.** While a call holds the entry lock nobody replaces the entry
  it checked or its temporary file (`EntryIsHeld`). So the rename makes visible
  exactly the write that was checked, which is the step of AtomicJournal; every
  other file-system call is shown to be a stutter, and a crash or power failure
  to be the abstract one. `AnswerIsDue` ties "ok" to a synced directory.
* **AgentOsRuntime.** A task has one creator (`OneCreator`), so the plan of a run
  is written once; every event is appended by a call that has stored before
  what the event says.
* **AppServerAdapter.** The call in progress carries what it has established
  from one await to the next (`OpIsSound`), because `serialize` lets nothing
  else run; an item differs from its journal entry only while the call that has
  to reconcile it is at it (`AtHand`) or the failure is noted; and an entry on
  disk tells the truth about its request over all sessions (`EntryIsTrue`).
* **Authorization** (in AppServerAdapterProofs). The kernel is pure, so what it
  promises is proved of all its inputs and holds in every state. One scope
  implies what another implies that it implies (`CapabilityImpliesIsTransitive`),
  unless the middle one is spelled `*`; so facts within a request within a ceiling are
  within the ceiling. A scope keeps its action in every form it is given, and
  only reading has the actions of reading. The score is not monotone by itself,
  as network access that becomes unknown scores lower than network access that
  is requested; being at least high is, and the decision asks for no more.
  What policy accepts carries no flag, so its paths were in normal form before they
  were normalised and are those the request named.
* **OperatorAction.** Until a running claim is removed (`stolen`), a call that
  claims the lock directory made it and finds its own token in it
  (`ClaimIsSound`): nothing it read about lines and torn files has changed when
  it appends. A line can be lost later, when a receipt is appended to one without
  a newline, but then its file is torn and shuts the store, so that nothing is
  consumed on the strength of its absence. The queue of a process holds its
  calls once and only the first is past it (`QueueIsSound`, `PlaceIsSound`). For the hosts, a proof is earned by
  a call that answered "stored" and dies with its process (`DispatchIsSound`).
* **V2Wire.** The wire may run ahead of the adapter, so neither the adapter's
  view nor the normalizer's state says enough alone; the invariant says that the
  view and the events still to come make up what the normalizer knows: a turn's
  numbers go on from the last one taken to the last one given (`TurnIsSound`),
  an item's last update carries its change set (`ChangeIsKnown`), the ends of
  items and requests are taken or to come (`EndIsKnown`, `ResolutionIsKnown`).
  No update of an item follows the request for its approval
  (`RequestFollowsChange`, because a patch is refused while the request is
  open), so an adapter that was told of the request knows the content it
  answers for, and `ItemIsSound` says that it is the last one on the wire.

The proofs use the named assumptions on constants of the modules, which TLC
evaluates in every run: types of the bounds, disjointness of values, and that
JournalStore allows at least one write and AppServerAdapter one session; that
proposals, ceilings, decisions and scopes are well-formed, and that a grant's
context has an entry, perhaps "none", for every binding; that V2Wire's
`Undefined` is none of the values it stands for the absence of.

Only model-checked:

* Liveness (QueuedRunIsServed, OrphanIsRemoved, ReconciliationIsWritten): the
  prover does not handle fairness and ENABLED.
* FreshLockSurvivesCleanup is false in general (lock_cleanup_race) and proved
  where it holds.

Every other property of a passing run is a theorem. Some say in the property
itself up to which step they hold: mutual exclusion of FileLock until a lock is
robbed, single consumption of ReceiptStore until a running claim is removed.
The theorems about RunManager have the condition `RunsAreSerial`.

## Not modelled

* Content: schemas, hashes, path canonicalisation, diffs, patch guards and
  previews are verdicts chosen by the environment; which names are sensitive or
  unsafe is a set.
* The plan execution of the desktop live adapter with the governance state it
  updates (planned), and the adapters that forward calls to a host.
* The file-change preview: it runs checks in a disposable worktree inside one
  call; its verdict is an input of AppServerAdapter.
* Of the CLI host, all but the provider's way to the child process: preflight,
  smoke and acceptance runs that call `runCodexCliExecPlan` once and report, and
  the composition of argument lists.
* Recovery control's recommendation and arbitration, evidence packets and
  readiness reports, and the scripts under `scripts/`: validation and audit of
  single documents. They make up most of the repository's lines, which is why
  the map names about a twelfth of them: a validator of one document has no
  steps to interleave, and a model of it would repeat it field by field.
* The Postgres kernel store; checkpoints and decisions of the kernel store.
* Durability below the process, but for the journal: elsewhere a write that
  returned is there after a crash.
* Front ends, SDK, schemas, audit records and redaction: they keep no state
  that decides anything.

## Plan

Done: Scheduler, FileLock, RunManager, PendingApprovalJournal, AppServerAdapter
with Authorization, V2Wire, Rollback, AtomicJournal and JournalStore with their
refinement, WorkspaceWrite and ControlledDispatch, ReceiptStore with
OperatorAction, AgentOsRuntime, their runs, and proofs for all of these.

Models to come: the plan execution of desktop-live-adapter with the strikes of
the governance state (a sink that throws inside the try block of a failing step
counts the failure twice; concurrent runs of one client overwrite each other's
strikes), task-graph ordering.
