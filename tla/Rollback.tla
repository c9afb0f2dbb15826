------------------------------ MODULE Rollback ------------------------------
(***************************************************************************)
(* The retained-change receipt and the governed Git rollback               *)
(* (packages/retain-control): verifyRetainedChange checks that the         *)
(* workspace holds exactly the approved change and issues a receipt;       *)
(* runGovernedRollback takes a lock in the Git common directory, checks    *)
(* the workspace against the receipt, consumes the operator's permit,      *)
(* checks twice more, restores the targets and verifies the result.        *)
(*                                                                         *)
(* Every check is a sequence of reads (HEAD, git status, one file after    *)
(* the other), and between any two of them a user may save a file, stage,  *)
(* commit or change the Git configuration.  The lock file and the          *)
(* consumption markers survive a crash.                                    *)
(*                                                                         *)
(* A path's content is what the checks tell apart: "base" is what the      *)
(* receipt's commit checks out (no file, for a created path), "after" the  *)
(* approved change, "converted" the base under another checkout            *)
(* conversion, "edited" anything else, unsafe topology included.           *)
(***************************************************************************)
EXTENDS Naturals, FiniteSets

CONSTANTS
  Processes,
  Permits,      \* rollback permits issued for the receipt, one per nonce
  NoPermit,
  Updates,      \* targets of the receipt that exist in its commit
  Creates,      \* targets that do not
  Outside,      \* the other paths of the repository
  MaxEdits,     \* bound on the user's actions
  MaxFaults,    \* bound on I/O errors
  MaxCrashes    \* bound on crashed processes

ASSUME RollbackAssumption ==
  /\ NoPermit \notin Permits
  /\ Updates \cap Creates = {} /\ Outside \cap (Updates \cup Creates) = {}
  /\ Updates \cup Creates # {}
  /\ MaxEdits \in Nat /\ MaxFaults \in Nat /\ MaxCrashes \in Nat

VARIABLES
  work,         \* work[f]: content of f in the worktree
  tree,         \* tree[f]: content of f in the commit HEAD names
  head,         \* whether HEAD is the receipt's commit
  staged,       \* whether the index differs from HEAD
  config,       \* Git configuration, as the checks see it
  receipt,      \* whether a receipt was issued
  lock,         \* whether codex-router-rollback.lock exists
  consumed,     \* permits with a consumption marker
  proc,         \* proc[p]: the call process p is in
  edits, faults, crashes,
  orphaned,     \* history: the lock file is that of a crashed call, or failed to be removed
  applied,      \* history: restores begun under each permit
  raced,        \* history: targets the user changed after their last read
  disturbed     \* history: calls whose last check another one's writes overlap

repository == <<work, tree, head, staged, config>>
bounds     == <<edits, faults, crashes>>
vars == <<repository, receipt, lock, orphaned, consumed, proc, bounds, applied, raced, disturbed>>

Targets  == Updates \cup Creates
Paths    == Targets \cup Outside
Contents == {"base", "after", "edited", "converted"}

CheckPhases == {"retain", "preflight", "adjacent", "recheck", "verify"}
Phases      == CheckPhases \cup {"idle", "consume", "filters", "restore", "remove", "release"}
Results     == {"none", "retained", "rolled_back", "blocked", "reconciliation_required"}

\* touched: this call consumed its permit or wrote to the workspace.
Calls == [phase : Phases, read : {"head", "status", "hash"}, todo : SUBSET Targets,
          valid : BOOLEAN, permit : Permits \cup {NoPermit}, result : Results,
          touched : BOOLEAN]

NewCall(phase, k, valid) ==
  [phase |-> phase, read |-> "head", todo |-> {}, valid |-> valid, permit |-> k,
   result |-> "none", touched |-> FALSE]

Idle(result) == [NewCall("idle", NoPermit, TRUE) EXCEPT !.result = result]

\* Between acquireRollbackLock and lock.release().
Holding(p) == proc[p].phase \notin {"idle", "retain"}

\* A check reads HEAD first.
Check(p, phase) == proc' = [proc EXCEPT ![p].phase = phase, ![p].read = "head"]

Release(p, result) ==
  proc' = [proc EXCEPT ![p].phase = "release", ![p].result = result]

-----------------------------------------------------------------------------
\* The Git repository, as the checks see it.

\* The blob git status compares with HEAD: conversion undoes itself.
Blob(f) == IF config = "converted" /\ work[f] = "converted" THEN "base" ELSE work[f]

\* parsePorcelainV2(git status)
ChangedPaths == {f \in Paths : Blob(f) # tree[f]}

\* collectActiveConfiguredGitFilterReasons, collectTrackedSubmoduleReasons,
\* collectPartialCloneReasons
Supported == config # "unsupported"

Init ==
  /\ work = [f \in Paths |-> IF f \in Targets THEN "after" ELSE "base"]
  /\ tree = [f \in Paths |-> "base"]
  /\ head = "receipt" /\ staged = FALSE /\ config = "same"
  /\ receipt = FALSE /\ lock = FALSE /\ orphaned = FALSE /\ consumed = {}
  /\ proc = [p \in Processes |-> Idle("none")]
  /\ edits = 0 /\ faults = 0 /\ crashes = 0
  /\ applied = [k \in Permits |-> 0]
  /\ raced = {} /\ disturbed = {}

-----------------------------------------------------------------------------
\* The checks: validateRollbackWorkspaceState (three times), the same facts
\* in verifyRetainedChange, and verifyRollbackPostState.

\* What a check that found no reason does next.
Passed(p) ==
  /\ proc' = [proc EXCEPT ![p] =
       CASE proc[p].phase = "retain"    -> Idle("retained")
         [] proc[p].phase = "preflight" -> [@ EXCEPT !.phase = "consume"]
         [] proc[p].phase = "adjacent"  -> [@ EXCEPT !.phase = "recheck", !.read = "head"]
         [] proc[p].phase = "recheck"   ->
              [@ EXCEPT !.phase = IF Updates = {} THEN "restore" ELSE "filters",
                        !.todo = Updates]
         [] proc[p].phase = "verify"    -> [@ EXCEPT !.phase = "release",
                                                     !.result = "rolled_back"]]
  /\ receipt' = (receipt \/ proc[p].phase = "retain")

\* What a check that found one does.  The code goes on to collect further
\* reasons; those reads change nothing.
Failed(p) ==
  /\ proc' = [proc EXCEPT ![p] =
       IF proc[p].phase = "retain" THEN Idle("reconciliation_required")
       ELSE [@ EXCEPT !.phase = "release",
                      !.result = IF proc[p].phase = "preflight" THEN "blocked"
                                 ELSE "reconciliation_required"]]
  /\ UNCHANGED receipt

\* The boundary checks, then git rev-parse HEAD.
InspectHead(p) ==
  /\ proc[p].phase \in CheckPhases /\ proc[p].read = "head"
  /\ disturbed' = disturbed \ {p}
  /\ IF Supported /\ head = "receipt" /\ proc[p].valid
     THEN proc' = [proc EXCEPT ![p].read = "status"] /\ UNCHANGED receipt
     ELSE Failed(p)
  /\ UNCHANGED <<repository, lock, orphaned, consumed, bounds, applied, raced>>

\* The index is clean and exactly the targets changed (nothing, after the
\* restore); before it, a checkout of the commit gives the recorded bytes.
StatusHolds(phase) ==
  /\ Supported /\ ~staged
  /\ IF phase = "verify" THEN ChangedPaths = {}
     ELSE ChangedPaths = Targets /\ config = "same"

\* The boundary checks again, git status, readCommitWorktreeHashes.
InspectStatus(p) ==
  /\ proc[p].phase \in CheckPhases /\ proc[p].read = "status"
  /\ IF StatusHolds(proc[p].phase)
     THEN /\ proc' = [proc EXCEPT ![p].read = "hash", ![p].todo = Targets]
          /\ UNCHANGED receipt
     ELSE Failed(p)
  /\ UNCHANGED <<repository, lock, orphaned, consumed, bounds, applied, raced, disturbed>>

\* Mutant: before the restore, only git status is consulted.
HashHoldsBeforeMutant(phase, f) ==
  \/ phase \in {"preflight", "adjacent", "recheck"}
  \/ work[f] = IF phase = "verify" THEN "base" ELSE "after"

\* Mutant: after the restore, only git status is consulted.
HashHoldsAfterMutant(phase, f) == phase = "verify" \/ work[f] = "after"

HashHolds(phase, f) == work[f] = IF phase = "verify" THEN "base" ELSE "after"

\* One readWorkspacePathHash; the last one ends the check.
ReadHash(p, f) ==
  /\ proc[p].phase \in CheckPhases /\ proc[p].read = "hash" /\ f \in proc[p].todo
  /\ raced' = IF Holding(p) THEN raced \ {f} ELSE raced
  /\ IF ~HashHolds(proc[p].phase, f) THEN Failed(p)
     ELSE IF proc[p].todo # {f}
     THEN proc' = [proc EXCEPT ![p].todo = @ \ {f}] /\ UNCHANGED receipt
     ELSE Passed(p)
  /\ UNCHANGED <<repository, lock, orphaned, consumed, bounds, applied, disturbed>>

-----------------------------------------------------------------------------
\* valid: the permit's bindings and time window, which are inputs of the call.
VerifyRetainedChange(p, valid) ==
  /\ proc[p].phase = "idle"
  /\ proc' = [proc EXCEPT ![p] = NewCall("retain", NoPermit, valid)]
  /\ UNCHANGED <<repository, receipt, lock, orphaned, consumed, bounds, applied, raced, disturbed>>

\* Mutant: the lock is opened without "wx".
LockIsFreeMutant == lock \in BOOLEAN

LockIsFree == ~lock

\* acquireRollbackLock
RunGovernedRollback(p, k, valid) ==
  /\ proc[p].phase = "idle" /\ receipt /\ LockIsFree
  /\ lock' = TRUE
  /\ proc' = [proc EXCEPT ![p] = NewCall("preflight", k, valid)]
  /\ UNCHANGED <<repository, receipt, orphaned, consumed, bounds, applied, raced, disturbed>>

\* The consumption store is not a registered one.
StoreUntrusted(p) ==
  /\ proc[p].phase = "idle" /\ receipt
  /\ proc' = [proc EXCEPT ![p] = Idle("blocked")]
  /\ UNCHANGED <<repository, receipt, lock, orphaned, consumed, bounds, applied, raced, disturbed>>

\* The lock exists, or making it failed: it was not created, or was removed
\* again, or could not be removed either.
LockUnavailable(p) ==
  /\ proc[p].phase = "idle" /\ receipt
  /\ \/ lock /\ UNCHANGED <<lock, orphaned, faults>>
     \/ /\ ~lock /\ faults < MaxFaults /\ faults' = faults + 1
        /\ lock' \in BOOLEAN /\ orphaned' = lock'
  /\ proc' = [proc EXCEPT ![p] = Idle("blocked")]
  /\ UNCHANGED <<repository, receipt, consumed, edits, crashes, applied, raced, disturbed>>

\* Mutant: an existing marker is overwritten.
MarkerIsNewMutant(k) == k \in Permits

MarkerIsNew(k) == k \notin consumed

\* consumeRollbackPermitMarker: the marker was created by this call.
Consume(p) ==
  /\ proc[p].phase = "consume" /\ MarkerIsNew(proc[p].permit)
  /\ consumed' = consumed \cup {proc[p].permit}
  /\ proc' = [proc EXCEPT ![p].phase = "adjacent", ![p].read = "head",
                          ![p].touched = TRUE]
  /\ UNCHANGED <<repository, receipt, lock, orphaned, bounds, applied, raced, disturbed>>

\* EEXIST
Replay(p) ==
  /\ proc[p].phase = "consume" /\ ~MarkerIsNew(proc[p].permit)
  /\ Release(p, "blocked")
  /\ UNCHANGED <<repository, receipt, lock, orphaned, consumed, bounds, applied, raced, disturbed>>

\* Mutant: the catch block returns outside the try block with the release.
ConsumeThrowsMutant(p) ==
  /\ proc[p].phase = "consume" /\ faults < MaxFaults
  /\ faults' = faults + 1
  /\ consumed' \in {consumed, consumed \cup {proc[p].permit}}
  /\ proc' = [proc EXCEPT ![p] = [Idle("reconciliation_required") EXCEPT !.touched = TRUE]]
  /\ UNCHANGED <<repository, receipt, lock, orphaned, edits, crashes, applied, raced, disturbed>>

\* The store throws, before or after the marker exists.
ConsumeThrows(p) ==
  /\ proc[p].phase = "consume" /\ faults < MaxFaults
  /\ faults' = faults + 1
  /\ consumed' \in {consumed, consumed \cup {proc[p].permit}}
  /\ proc' = [proc EXCEPT ![p].phase = "release", ![p].touched = TRUE,
                          ![p].result = "reconciliation_required"]
  /\ UNCHANGED <<repository, receipt, lock, orphaned, edits, crashes, applied, raced, disturbed>>

\* GitWorkspaceTargetRestorePrimitive.restore, after its own check: the last
\* look at the filters, when Git is to write anything.
FinalFilterCheck(p) ==
  /\ proc[p].phase = "filters"
  /\ IF Supported
     THEN proc' = [proc EXCEPT ![p].phase = "restore"] /\ UNCHANGED receipt
     ELSE Failed(p)
  /\ UNCHANGED <<repository, lock, orphaned, consumed, bounds, applied, raced, disturbed>>

\* git restore writes the update targets, whatever they hold by now.
RestoreUpdate(p, f) ==
  /\ proc[p].phase = "restore" /\ f \in proc[p].todo
  /\ work' = [work EXCEPT ![f] = IF config = "converted" THEN "converted" ELSE "base"]
  /\ applied' = [applied EXCEPT ![proc[p].permit] = IF proc[p].todo = Updates THEN @ + 1 ELSE @]
  /\ proc' = [proc EXCEPT ![p].todo = @ \ {f}]
  /\ disturbed' = disturbed \cup (Processes \ {p})
  /\ UNCHANGED <<tree, head, staged, config, receipt, lock, orphaned, consumed, bounds, raced>>

RestoreDone(p) ==
  /\ proc[p].phase = "restore" /\ proc[p].todo = {}
  /\ proc' = [proc EXCEPT ![p].phase = "remove", ![p].todo = Creates]
  /\ UNCHANGED <<repository, receipt, lock, orphaned, consumed, bounds, applied, raced, disturbed>>

\* rm with force: false throws when the file is gone.
RemoveCreated(p, f) ==
  /\ proc[p].phase = "remove" /\ f \in proc[p].todo
  /\ IF work[f] = "base"
     THEN Failed(p) /\ UNCHANGED <<work, applied, disturbed>>
     ELSE /\ work' = [work EXCEPT ![f] = "base"]
          /\ applied' = [applied EXCEPT ![proc[p].permit] =
                           IF Updates = {} /\ proc[p].todo = Creates THEN @ + 1 ELSE @]
          /\ disturbed' = disturbed \cup (Processes \ {p})
          /\ proc' = [proc EXCEPT ![p].todo = @ \ {f}]
          /\ UNCHANGED receipt
  /\ UNCHANGED <<tree, head, staged, config, lock, orphaned, consumed, bounds, raced>>

RemoveDone(p) ==
  /\ proc[p].phase = "remove" /\ proc[p].todo = {}
  /\ Check(p, "verify")
  /\ UNCHANGED <<repository, receipt, lock, orphaned, consumed, bounds, applied, raced, disturbed>>

\* Git or rm fails and leaves what was written before.
RestoreThrows(p) ==
  /\ proc[p].phase \in {"filters", "restore", "remove"} /\ faults < MaxFaults
  /\ faults' = faults + 1
  /\ Failed(p)
  /\ UNCHANGED <<repository, lock, orphaned, consumed, edits, crashes, applied, raced, disturbed>>

\* lock.release() in the finally block; an error of its rm is swallowed.
ReleaseLock(p) ==
  /\ proc[p].phase = "release"
  /\ \/ lock' = FALSE /\ UNCHANGED <<orphaned, faults>>
     \/ /\ faults < MaxFaults /\ faults' = faults + 1
        /\ orphaned' = TRUE /\ UNCHANGED lock
  /\ proc' = [proc EXCEPT ![p] = [Idle(proc[p].result) EXCEPT !.permit = proc[p].permit,
                                                             !.touched = proc[p].touched]]
  /\ UNCHANGED <<repository, receipt, consumed, edits, crashes, applied, raced, disturbed>>

-----------------------------------------------------------------------------
\* The process dies; another takes its place.  The lock file stays.
Crash(p) ==
  /\ proc[p].phase # "idle" /\ crashes < MaxCrashes
  /\ crashes' = crashes + 1
  /\ proc' = [proc EXCEPT ![p] = Idle("none")]
  /\ orphaned' = (orphaned \/ Holding(p))
  /\ UNCHANGED <<repository, receipt, lock, consumed, edits, faults, applied, raced, disturbed>>

\* Nothing in the code removes an orphaned lock; an operator may.
OperatorRemovesLock ==
  /\ lock /\ \A p \in Processes : ~Holding(p)
  /\ lock' = FALSE /\ orphaned' = FALSE
  /\ UNCHANGED <<repository, receipt, consumed, proc, bounds, applied, raced, disturbed>>

UserActs == edits < MaxEdits /\ edits' = edits + 1 /\ disturbed' = Processes

\* The user saves, reverts or deletes a file.
UserEdits(f, c) ==
  /\ UserActs
  /\ c # work[f] /\ (c = "after" => f \in Targets)
  /\ work' = [work EXCEPT ![f] = c]
  /\ raced' = raced \cup ({f} \cap Targets)
  /\ UNCHANGED <<tree, head, staged, config, receipt, lock, orphaned, consumed, proc, faults, crashes, applied>>

UserStages ==
  /\ UserActs /\ ~staged /\ ChangedPaths # {}
  /\ staged' = TRUE
  /\ UNCHANGED <<work, tree, head, config, receipt, lock, orphaned, consumed, proc, faults, crashes, applied, raced>>

UserCommits ==
  /\ UserActs /\ ChangedPaths # {}
  /\ tree' = [f \in Paths |-> Blob(f)]
  /\ head' = "moved" /\ staged' = FALSE
  /\ UNCHANGED <<work, config, receipt, lock, orphaned, consumed, proc, faults, crashes, applied, raced>>

\* A checkout conversion (core.autocrlf, attributes) or a filter, submodule
\* or promisor remote appears or goes.
UserConfigures(c) ==
  /\ UserActs /\ c # config
  /\ config' = c
  /\ UNCHANGED <<work, tree, head, staged, receipt, lock, orphaned, consumed, proc, faults, crashes, applied, raced>>

-----------------------------------------------------------------------------
Step(p) ==
  \/ InspectHead(p) \/ InspectStatus(p) \/ (\E f \in Targets : ReadHash(p, f))
  \/ Consume(p) \/ Replay(p) \/ ConsumeThrows(p)
  \/ FinalFilterCheck(p)
  \/ (\E f \in Updates : RestoreUpdate(p, f)) \/ RestoreDone(p)
  \/ (\E f \in Creates : RemoveCreated(p, f)) \/ RemoveDone(p)
  \/ RestoreThrows(p) \/ ReleaseLock(p)

Start(p) ==
  \/ \E valid \in BOOLEAN : VerifyRetainedChange(p, valid)
  \/ \E k \in Permits, valid \in BOOLEAN : RunGovernedRollback(p, k, valid)
  \/ StoreUntrusted(p) \/ LockUnavailable(p)

User ==
  \/ \E f \in Paths, c \in {"base", "after", "edited"} : UserEdits(f, c)
  \/ UserStages \/ UserCommits
  \/ \E c \in {"same", "converted", "unsupported"} : UserConfigures(c)

Next ==
  \/ \E p \in Processes : Step(p) \/ Start(p) \/ Crash(p)
  \/ OperatorRemovesLock \/ User

Spec == Init /\ [][Next]_vars

-----------------------------------------------------------------------------
TypeOK ==
  /\ work \in [Paths -> Contents] /\ tree \in [Paths -> Contents]
  /\ head \in {"receipt", "moved"} /\ staged \in BOOLEAN
  /\ config \in {"same", "converted", "unsupported"}
  /\ receipt \in BOOLEAN /\ lock \in BOOLEAN /\ orphaned \in BOOLEAN /\ consumed \subseteq Permits
  /\ proc \in [Processes -> Calls]
  /\ edits \in 0..MaxEdits /\ faults \in 0..MaxFaults /\ crashes \in 0..MaxCrashes
  /\ applied \in [Permits -> Nat]
  /\ raced \subseteq Targets /\ disturbed \subseteq Processes

(* At most one process is inside a rollback, and the lock file exists while  *)
(* it is, whatever crashed, failed or was cleaned up by hand before.         *)
LockIsExclusive ==
  \A p, q \in Processes :
    Holding(p) => lock /\ (Holding(q) => p = q)

(* A permit is the licence for one restore: however often it is presented,   *)
(* by whichever process and after whichever crash, files are restored under  *)
(* it at most once.                                                          *)
PermitRestoresOnce == \A k \in Permits : applied[k] <= 1

(* A call that answers "blocked" left its permit unconsumed and the          *)
(* workspace alone, so the operator may present the permit again.            *)
BlockedLeavesNoTrace ==
  \A p \in Processes : proc[p].result = "blocked" => ~proc[p].touched

(* A report is true of the workspace it was made of: when nobody acted since *)
(* the last check began, "rolled_back" means every path of the repository is *)
(* as in the receipt's commit, index and HEAD included.                      *)
RolledBackIsTrue ==
  \A p \in Processes :
    proc[p].phase = "release" /\ proc[p].result = "rolled_back" /\ p \notin disturbed =>
      /\ work = [f \in Paths |-> "base"] /\ tree = [f \in Paths |-> "base"]
      /\ head = "receipt" /\ ~staged

(* "blocked" and "rolled_back" are true answers, whatever failed or was      *)
(* edited while the call ran.                                                *)
AnswersAreTrue == BlockedLeavesNoTrace /\ RolledBackIsTrue

(* A receipt is only issued for a workspace that holds the approved change   *)
(* and nothing else (noOutsideTargetChanges), if nobody acted meanwhile.     *)
ReceiptIsTrue ==
  \A p \in Processes :
    proc[p].phase = "retain" /\ proc'[p].result = "retained" /\ p \notin disturbed =>
      /\ \A f \in Paths : work[f] = IF f \in Targets THEN "after" ELSE "base"
      /\ head = "receipt" /\ ~staged

(* A restore discards a user's content only in a target the user changed     *)
(* after the restore primitive read it for the last time; content that any   *)
(* check could see is never overwritten, and no other path is written.       *)
SeenEditsSurvive ==
  edits' = edits =>
    /\ \A f \in Targets \ raced : work[f] = "edited" => work'[f] = "edited"
    /\ \A f \in Outside : work'[f] = work[f]

(* The approved change, and nothing of a user's, is vouched for by a receipt *)
(* and undone by a rollback.                                                 *)
OnlyApprovedChangeIsUndone == [][ReceiptIsTrue /\ SeenEditsSurvive]_vars

(* Every way out of a rollback gives the lock back, whatever failed inside:   *)
(* a lock file belongs to a running call, or the call that made it crashed,  *)
(* or its own removal failed; and then it keeps every other call out.        *)
LockIsReleased ==
  IF orphaned THEN lock /\ \A p \in Processes : ~Holding(p)
              ELSE lock => \E p \in Processes : Holding(p)
=============================================================================
