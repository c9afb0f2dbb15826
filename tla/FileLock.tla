------------------------------ MODULE FileLock ------------------------------
(***************************************************************************)
(* withStateMutation of the file-backed stores: FileSystemScheduler and    *)
(* FileSystemKernelStore guard a read-mutate-write of one JSON file with a *)
(* lock file, and remove a lock file whose owner died.                     *)
(*                                                                         *)
(* One action is one file-system call.  A process holds the lock it        *)
(* created until it unlinks it; the file is empty until its token, pid and *)
(* time are written into it.  A lock is named by its owner and the number  *)
(* of the owner's call, which stands for the random token.  A call may fail *)
(* at any access to the lock file; the file then stays.                    *)
(***************************************************************************)
EXTENDS Naturals, FiniteSets

CONSTANTS
  Procs,        \* processes that share the directory
  MaxCalls,     \* bound on the mutations of one process
  MaxDeaths,    \* bound on the processes that die
  MaxFailures   \* bound on the accesses to the lock file that fail

ASSUME FileLockAssumption == MaxCalls \in Nat /\ MaxDeaths \in Nat /\ MaxFailures \in Nat

VARIABLES
  pc,           \* where each process is in its call
  calls,        \* calls[p]: number of calls of p that created the lock
  lock,         \* the lock file, or NoLock
  snapshot,     \* snapshot[p]: the stale candidate p has read
  store,        \* the state file: the set of mutations it contains
  read,         \* read[p]: the state p has read and will write back
  done,         \* mutations that were written
  failures,
  robbed        \* history: a cleanup removed a lock file that was not stale

noted    == <<failures, robbed>>
lockVars == <<pc, calls, lock, snapshot, store, read, done, noted>>

NoLock == [owner |-> "nobody", call |-> 0, stamped |-> FALSE, old |-> FALSE]

PCs == {"idle", "inspect", "confirm", "unlink", "stamp", "load", "save", "release",
        "releaseUnlink", "dead"}

Locks == [owner : Procs \cup {"nobody"}, call : 0..MaxCalls, stamped : BOOLEAN, old : BOOLEAN]
Mutations == Procs \X (1..MaxCalls)

LockTypeOK ==
  /\ pc \in [Procs -> PCs]
  /\ calls \in [Procs -> 0..MaxCalls]
  /\ lock \in Locks
  /\ snapshot \in [Procs -> Locks]
  /\ store \in SUBSET Mutations
  /\ read \in [Procs -> SUBSET Mutations]
  /\ done \in SUBSET Mutations
  /\ failures \in 0..MaxFailures /\ robbed \in BOOLEAN

LockInit ==
  /\ pc = [p \in Procs |-> "idle"]
  /\ calls = [p \in Procs |-> 0]
  /\ lock = NoLock
  /\ snapshot = [p \in Procs |-> NoLock]
  /\ store = {}
  /\ read = [p \in Procs |-> {}]
  /\ done = {}
  /\ failures = 0 /\ robbed = FALSE

Goto(p, label) == pc' = [pc EXCEPT ![p] = label]

\* isFileLockOwnerAlive: a lock file without a pid counts as one whose owner
\* is dead.
OwnerAlive(l) == l.stamped /\ pc[l.owner] # "dead"

\* Mutant: the owner is not looked at.
ReclaimableMutant(l) == l # NoLock /\ l.old

\* Mutant: a lock file without a pid is taken for one that is held.
ReclaimableStampedMutant(l) == l # NoLock /\ l.old /\ l.stamped /\ ~OwnerAlive(l)

Reclaimable(l) == l # NoLock /\ l.old /\ ~OwnerAlive(l)

-----------------------------------------------------------------------------
(* withLock                                                                *)

Failure == failures < MaxFailures /\ failures' = failures + 1

\* openSync(lockPath, "wx")
Create(p) ==
  /\ pc[p] = "idle" /\ calls[p] < MaxCalls
  /\ lock = NoLock
  /\ calls' = [calls EXCEPT ![p] = @ + 1]
  /\ lock' = [NoLock EXCEPT !.owner = p, !.call = calls'[p]]
  /\ Goto(p, "stamp")
  /\ UNCHANGED <<snapshot, store, read, done, noted>>

\* EEXIST
Contend(p) ==
  /\ pc[p] = "idle" /\ calls[p] < MaxCalls
  /\ lock # NoLock
  /\ Goto(p, "inspect")
  /\ UNCHANGED <<calls, lock, snapshot, store, read, done, noted>>

Mine(p) == lock.owner = p /\ lock.call = calls[p]

\* The file that p has open need not be the lock file any more.
Stamped(p) ==
  IF Mine(p) THEN [owner |-> p, call |-> calls[p], stamped |-> TRUE, old |-> FALSE] ELSE lock

\* Token, pid and time are written.
Stamp(p) ==
  /\ pc[p] = "stamp"
  /\ lock' = Stamped(p)
  /\ Goto(p, "load")
  /\ UNCHANGED <<calls, snapshot, store, read, done, noted>>

\* The write or the close throws, and so does the call; the file stays, with
\* or without what makes a pid.
StampFails(p) ==
  /\ pc[p] = "stamp" /\ Failure
  /\ lock' \in {lock, Stamped(p)}
  /\ Goto(p, "idle")
  /\ UNCHANGED <<calls, snapshot, store, read, done, robbed>>

\* readState
Load(p) ==
  /\ pc[p] = "load"
  /\ read' = [read EXCEPT ![p] = store]
  /\ Goto(p, "save")
  /\ UNCHANGED <<calls, lock, snapshot, store, done, noted>>

\* mutate and writeState, whose rename replaces the file in one step.
Save(p) ==
  /\ pc[p] = "save"
  /\ store' = read[p] \cup {<<p, calls[p]>>}
  /\ done' = done \cup {<<p, calls[p]>>}
  /\ read' = [read EXCEPT ![p] = {}]
  /\ Goto(p, "release")
  /\ UNCHANGED <<calls, lock, snapshot, noted>>

\* mutate throws: nothing is written.
MutateThrows(p) ==
  /\ pc[p] = "save"
  /\ read' = [read EXCEPT ![p] = {}]
  /\ Goto(p, "release")
  /\ UNCHANGED <<calls, lock, snapshot, store, done, noted>>

\* releaseLock reads the file and compares the token; a file that is gone,
\* is empty (the call rejects) or has another token is left alone.
ReleaseCheck(p) ==
  /\ pc[p] = "release"
  /\ Goto(p, IF lock # NoLock /\ lock.stamped /\ Mine(p) THEN "releaseUnlink" ELSE "idle")
  /\ UNCHANGED <<calls, lock, snapshot, store, read, done, noted>>

ReleaseUnlink(p) ==
  /\ pc[p] = "releaseUnlink"
  /\ lock' = NoLock
  /\ Goto(p, "idle")
  /\ UNCHANGED <<calls, snapshot, store, read, done, noted>>

\* The read or the unlink throws; the lock file stays, with the pid of p.
ReleaseFails(p) ==
  /\ pc[p] \in {"release", "releaseUnlink"} /\ Failure
  /\ Goto(p, "idle")
  /\ UNCHANGED <<calls, lock, snapshot, store, read, done, robbed>>

-----------------------------------------------------------------------------
(* removeStaleLock                                                         *)

\* The first snapshot.  Then the call sleeps and tries again, or times out
\* with scheduler_lock_timeout: both are "idle".
Inspect(p) ==
  /\ pc[p] = "inspect"
  /\ IF Reclaimable(lock) THEN /\ snapshot' = [snapshot EXCEPT ![p] = lock]
                               /\ Goto(p, "confirm")
                          ELSE Goto(p, "idle") /\ UNCHANGED snapshot
  /\ UNCHANGED <<calls, lock, store, read, done, noted>>

\* The second snapshot must equal the first.
Confirm(p) ==
  /\ pc[p] = "confirm"
  /\ snapshot' = [snapshot EXCEPT ![p] = NoLock]
  /\ Goto(p, IF lock = snapshot[p] /\ Reclaimable(lock) THEN "unlink" ELSE "idle")
  /\ UNCHANGED <<calls, lock, store, read, done, noted>>

\* unlinkSync removes whatever is there by then.
Unlink(p) ==
  /\ pc[p] = "unlink"
  /\ lock' = NoLock
  /\ robbed' = (robbed \/ (lock # NoLock /\ ~Reclaimable(lock)))
  /\ Goto(p, "idle")
  /\ UNCHANGED <<calls, snapshot, store, read, done, failures>>

-----------------------------------------------------------------------------

\* The lock file was opened by its owner's call and not written yet.
BeingStamped == pc[lock.owner] = "stamp" /\ Mine(lock.owner)

\* lockStaleMs pass.  The writeFileSync that follows the openSync is assumed to
\* end, well or badly, before that.
Age ==
  /\ lock # NoLock /\ ~lock.old
  /\ ~BeingStamped
  /\ lock' = [lock EXCEPT !.old = TRUE]
  /\ UNCHANGED <<pc, calls, snapshot, store, read, done, noted>>

\* The process dies; its lock file stays.
Die(p) ==
  /\ pc[p] # "dead"
  /\ Cardinality({o \in Procs : pc[o] = "dead"}) < MaxDeaths
  /\ Goto(p, "dead")
  /\ read' = [read EXCEPT ![p] = {}]
  /\ snapshot' = [snapshot EXCEPT ![p] = NoLock]
  /\ UNCHANGED <<calls, lock, store, done, noted>>

Step(p) ==
  \/ Create(p) \/ Contend(p) \/ Stamp(p)
  \/ Load(p) \/ Save(p) \/ MutateThrows(p)
  \/ ReleaseCheck(p) \/ ReleaseUnlink(p)
  \/ Inspect(p) \/ Confirm(p) \/ Unlink(p)

\* Every call has been made.
Terminating ==
  /\ \A p \in Procs : pc[p] = "dead" \/ (pc[p] = "idle" /\ calls[p] = MaxCalls)
  /\ UNCHANGED lockVars

Fails(p) == StampFails(p) \/ ReleaseFails(p) \/ Die(p)

LockNext == (\E p \in Procs : Step(p) \/ Fails(p)) \/ Age \/ Terminating

LockSpec == LockInit /\ [][LockNext]_lockVars

\* Processes run, and time passes.
FairLockSpec == LockSpec /\ (\A p \in Procs : WF_lockVars(Step(p))) /\ WF_lockVars(Age)

-----------------------------------------------------------------------------

InSection(p) == pc[p] \in {"load", "save"}

\* Two processes are never between readState and writeState at once.
MutualExclusion == \A p, q \in Procs : InSection(p) /\ InSection(q) => p = q

\* A mutation that was written is in the state file for good: nobody writes
\* back a state read before it.
NoLostUpdate == done \subseteq store

\* The stale cleanup removes only the lock file it inspected, never the lock
\* of a process that is alive: a fresh lock survives the cleanup.
FreshLockSurvivesCleanup ==
  [][\A p \in Procs : pc[p] = "unlink" /\ pc'[p] = "idle" /\ lock # NoLock => Reclaimable(lock)]_lockVars

\* Its owner died with it, or failed to write a pid into it: nobody releases it.
Abandoned ==
  lock # NoLock /\ (pc[lock.owner] = "dead" \/ (~lock.stamped /\ ~BeingStamped))

AnyoneLeft == \E q \in Procs : pc[q] # "dead" /\ calls[q] < MaxCalls

\* A lock file whose process died, or that was left without a pid by a failing
\* write, does not lock out the others for ever.
OrphanIsRemoved ==
  \A p \in Procs :
    (Abandoned /\ lock.owner = p /\ AnyoneLeft) ~> (~(Abandoned /\ lock.owner = p) \/ ~AnyoneLeft)

\* The lock of withLock makes each read-modify-write of the state file atomic,
\* whoever died with the lock before and whichever access to it failed, until a
\* stale cleanup removes a fresh lock.
UpdatesAreAtomic == LockTypeOK /\ (~robbed => MutualExclusion /\ NoLostUpdate)
=============================================================================
