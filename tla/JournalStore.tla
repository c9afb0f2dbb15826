---------------------------- MODULE JournalStore ----------------------------
(***************************************************************************)
(* FilePendingApprovalJournalStore (packages/retain-control): one JSON     *)
(* file per entry, replaced by writing and renaming <entry>.tmp while      *)
(* <entry>.lock exists.                                                    *)
(*                                                                         *)
(* One action is one file-system call (open and write of the temporary     *)
(* file are one).  A process may die at any of them and leaves its files;  *)
(* a power failure kills all of them, loses what was not fsynced, and may  *)
(* leave or lose lock and temporary files.  Nothing in the code removes    *)
(* the lock of a dead process; an operator may.                            *)
(***************************************************************************)
EXTENDS Naturals, FiniteSets, PendingApprovalJournal

CONSTANTS
  Processes,
  Entries,       \* journal ids
  NoEntry,
  UpdateStates,  \* states the callers of update ask for
  MaxWrites,     \* bound on the writes of an entry
  MaxFaults,     \* bound on file-system errors
  MaxCrashes     \* bound on crashes and power failures

ASSUME JournalStoreAssumption ==
  /\ NoEntry \notin Entries
  /\ UpdateStates \subseteq JournalStates
  /\ MaxWrites \in Nat \ {0}       \* the put is a write
  /\ MaxFaults \in Nat /\ MaxCrashes \in Nat

VARIABLES
  file,          \* file[j]: the entry a reader sees
  disk,          \* disk[j]: the entry the directory names after a power failure
  tmp,           \* tmp[j]: the temporary file
  lock,          \* entries whose lock file exists
  call,          \* call[p]: the call process p is in
  faults, crashes

vars == <<file, disk, tmp, lock, call, faults, crashes>>

\* synced: the content is on disk, not only in the page cache.
Absent  == [state |-> "none", writes |-> 0, synced |-> TRUE]
Corrupt == [state |-> "corrupt", writes |-> 0, synced |-> TRUE]
Files   == [state : JournalStates \cup {"none", "corrupt"}, writes : 0..MaxWrites,
            synced : BOOLEAN]

Phases == {"idle", "check", "open", "sync", "recheck", "rename", "syncDirectory", "cleanup",
           "unlock"}

Calls == [phase : Phases, op : {"put", "update"}, on : Entries \cup {NoEntry},
          to : JournalStates, writes : 0..MaxWrites, answer : {"none", "ok", "refused", "failed"}]

\* writes: number of the write this call has renamed into place, or 0.
Idle(a) == [phase |-> "idle", op |-> "put", on |-> NoEntry, to |-> "pending_accept",
            writes |-> 0, answer |-> a]

TypeOK ==
  /\ file \in [Entries -> Files] /\ disk \in [Entries -> Files] /\ tmp \in [Entries -> Files]
  /\ lock \subseteq Entries
  /\ call \in [Processes -> Calls]
  /\ faults \in 0..MaxFaults /\ crashes \in 0..MaxCrashes

Init ==
  /\ file = [j \in Entries |-> Absent] /\ disk = file /\ tmp = file
  /\ lock = {}
  /\ call = [p \in Processes |-> Idle("none")]
  /\ faults = 0 /\ crashes = 0

At(p, phase) == call[p].phase = phase
Goto(p, phase) == call' = [call EXCEPT ![p].phase = phase]
Leave(p, phase, a) == call' = [call EXCEPT ![p].phase = phase, ![p].answer = a]

\* Between withLock's open and its rm.
Inside(p, j) == call[p].phase # "idle" /\ call[p].on = j

Fault == faults < MaxFaults /\ faults' = faults + 1

-----------------------------------------------------------------------------
(* withLock                                                                *)

LockIsFree(j) == j \notin lock

Acquire(p, op, j, to) ==
  /\ At(p, "idle") /\ LockIsFree(j)
  /\ op = "update" => file[j].writes < MaxWrites
  /\ lock' = lock \cup {j}
  /\ call' = [call EXCEPT ![p] = [Idle("none") EXCEPT !.phase = "check", !.op = op,
                                                      !.on = j, !.to = to]]
  /\ UNCHANGED <<file, disk, tmp, faults, crashes>>

\* pending_journal_lock_unavailable: the lock exists, the open failed, or the
\* sync of the new lock file failed, which then stays.
LockUnavailable(p, j) ==
  /\ At(p, "idle")
  /\ \/ j \in lock /\ UNCHANGED <<lock, faults>>
     \/ j \notin lock /\ Fault /\ lock' \in {lock, lock \cup {j}}
  /\ call' = [call EXCEPT ![p] = Idle("failed")]
  /\ UNCHANGED <<file, disk, tmp, crashes>>

\* The finally block; an error of the rm is swallowed.
Unlock(p) ==
  /\ At(p, "unlock")
  /\ call' = [call EXCEPT ![p] = Idle(call[p].answer)]
  /\ \/ lock' = lock \ {call[p].on} /\ UNCHANGED faults
     \/ UNCHANGED lock /\ Fault
  /\ UNCHANGED <<file, disk, tmp, crashes>>

-----------------------------------------------------------------------------
(* put, update and writeAtomic                                             *)

\* put: pathExists.  update: readRequired (a corrupt entry throws),
\* assertJournalIdentityStable, assertJournalTransition.
Accepted(p) ==
  LET current == file[call[p].on]
  IN  IF call[p].op = "put" THEN current = Absent
      ELSE current \notin {Absent, Corrupt} /\ LegalUpdate(current.state, call[p].to)

CheckEntry(p) ==
  /\ At(p, "check")
  /\ IF Accepted(p) THEN Goto(p, "open") ELSE Leave(p, "unlock", "refused")
  /\ UNCHANGED <<file, disk, tmp, lock, faults, crashes>>

\* Mutant: a temporary file that is in the way is left alone.
OpenTempMutant(p) ==
  LET j == call[p].on
  IN  /\ At(p, "open")
      /\ IF tmp[j] # Absent
         THEN Leave(p, "unlock", "failed") /\ UNCHANGED tmp
         ELSE /\ tmp' = [tmp EXCEPT ![j] = [state |-> call[p].to, synced |-> FALSE,
                                            writes |-> file[j].writes + 1]]
              /\ Goto(p, "sync")
      /\ UNCHANGED <<file, disk, lock, faults, crashes>>

\* open(tempPath, "wx") and writeFile; EEXIST ends in the catch block.
OpenTemp(p) ==
  LET j == call[p].on
  IN  /\ At(p, "open")
      /\ IF tmp[j] # Absent
         THEN Leave(p, "cleanup", "failed") /\ UNCHANGED tmp
         ELSE /\ tmp' = [tmp EXCEPT ![j] = [state |-> call[p].to, synced |-> FALSE,
                                            writes |-> file[j].writes + 1]]
              /\ Goto(p, "sync")
      /\ UNCHANGED <<file, disk, lock, faults, crashes>>

\* Mutant: the temporary file is renamed without being synced.
SyncTempMutant(p) ==
  /\ At(p, "sync")
  /\ Goto(p, IF call[p].op = "put" THEN "recheck" ELSE "rename")
  /\ UNCHANGED <<file, disk, tmp, lock, faults, crashes>>

SyncTemp(p) ==
  /\ At(p, "sync")
  /\ tmp' = [tmp EXCEPT ![call[p].on].synced = TRUE]
  /\ Goto(p, IF call[p].op = "put" THEN "recheck" ELSE "rename")
  /\ UNCHANGED <<file, disk, lock, faults, crashes>>

\* if (!replace && await pathExists(finalPath))
Recheck(p) ==
  /\ At(p, "recheck")
  /\ IF file[call[p].on] = Absent THEN Goto(p, "rename") ELSE Leave(p, "cleanup", "refused")
  /\ UNCHANGED <<file, disk, tmp, lock, faults, crashes>>

Rename(p) ==
  LET j == call[p].on
  IN  /\ At(p, "rename")
      /\ file' = [file EXCEPT ![j] = tmp[j]]
      /\ tmp' = [tmp EXCEPT ![j] = Absent]
      /\ call' = [call EXCEPT ![p].phase = "syncDirectory", ![p].writes = tmp[j].writes]
      /\ UNCHANGED <<disk, lock, faults, crashes>>

\* Mutant: requireDirectoryFsync defaults to false.
SyncDirectoryMutant(p) ==
  /\ At(p, "syncDirectory")
  /\ Leave(p, "unlock", "ok")
  /\ UNCHANGED <<file, disk, tmp, lock, faults, crashes>>

\* One fsync of the directory covers the renames of all entries.
SyncDirectory(p) ==
  /\ At(p, "syncDirectory")
  /\ disk' = file
  /\ Leave(p, "unlock", "ok")
  /\ UNCHANGED <<file, tmp, lock, faults, crashes>>

\* A call of put, update or writeAtomic throws, the one of syncDirectory
\* after the rename.  Before the temporary file there is nothing to clean up.
WriteFails(p) ==
  /\ call[p].phase \in {"check", "open", "sync", "recheck", "rename", "syncDirectory"}
  /\ Fault
  /\ Leave(p, IF At(p, "check") THEN "unlock" ELSE "cleanup", "failed")
  /\ UNCHANGED <<file, disk, tmp, lock, crashes>>

\* The catch block removes the temporary file, whoever made it; an error of
\* the rm is swallowed.
Cleanup(p) ==
  /\ At(p, "cleanup")
  /\ Goto(p, "unlock")
  /\ \/ tmp' = [tmp EXCEPT ![call[p].on] = Absent] /\ UNCHANGED faults
     \/ UNCHANGED tmp /\ Fault
  /\ UNCHANGED <<file, disk, lock, crashes>>

-----------------------------------------------------------------------------
(* The environment                                                         *)

Crash(p) ==
  /\ call[p].phase # "idle" /\ crashes < MaxCrashes
  /\ crashes' = crashes + 1
  /\ call' = [call EXCEPT ![p] = Idle("none")]
  /\ UNCHANGED <<file, disk, tmp, lock, faults>>

\* What a file may hold afterwards: a rename that was not made durable may
\* be undone, content that was not synced may be anything.
Surviving(j) ==
  {disk[j]} \cup (IF file[j].synced THEN {file[j]} ELSE {file[j], Corrupt})

PowerFailure ==
  /\ crashes < MaxCrashes
  /\ crashes' = crashes + 1
  /\ \E survivors \in [Entries -> UNION {Surviving(j) : j \in Entries}] :
       /\ \A j \in Entries : survivors[j] \in Surviving(j)
       /\ file' = survivors /\ disk' = survivors
  /\ \E left \in SUBSET Entries : tmp' = [j \in Entries |-> IF j \in left THEN tmp[j] ELSE Absent]
  /\ lock' \in SUBSET lock
  /\ call' = [p \in Processes |-> Idle("none")]
  /\ UNCHANGED faults

OperatorRemovesLock(j) ==
  /\ j \in lock /\ \A p \in Processes : ~Inside(p, j)
  /\ lock' = lock \ {j}
  /\ UNCHANGED <<file, disk, tmp, call, faults, crashes>>

Step(p) ==
  \/ CheckEntry(p) \/ OpenTemp(p) \/ SyncTemp(p) \/ Recheck(p) \/ Rename(p)
  \/ SyncDirectory(p) \/ WriteFails(p) \/ Cleanup(p) \/ Unlock(p)

Start(p, j) ==
  \/ Acquire(p, "put", j, "pending_accept")
  \/ \E to \in UpdateStates : Acquire(p, "update", j, to)
  \/ LockUnavailable(p, j)

Next ==
  \/ \E p \in Processes : Step(p) \/ Crash(p) \/ \E j \in Entries : Start(p, j)
  \/ \E j \in Entries : OperatorRemovesLock(j)
  \/ PowerFailure

Spec == Init /\ [][Next]_vars

-----------------------------------------------------------------------------

(* withLock keeps two calls on one entry apart, whatever crashed, failed or  *)
(* was cleaned up by hand before.                                            *)
EntryLockExcludes ==
  \A j \in Entries, p, q \in Processes : Inside(p, j) /\ Inside(q, j) => p = q

(* A reader never meets a half-written entry, not even after a power         *)
(* failure: list() refuses the whole journal when one entry is corrupt.      *)
NeverCorrupt == \A j \in Entries : file[j] # Corrupt /\ disk[j] # Corrupt

(* A lock file that no call stands for is the work of a crash or of a        *)
(* file-system error: every way out of put and update removes it.            *)
EntryLockIsReleased ==
  \A j \in lock : (\E p \in Processes : Inside(p, j)) \/ faults + crashes > 0

(* One call at a time works on an entry, which stays readable, and none      *)
(* leaves its lock behind on its own account.                                *)
EntryIsProtected == TypeOK /\ EntryLockExcludes /\ NeverCorrupt /\ EntryLockIsReleased

(* A temporary file left by a crash costs one write and not all later ones:  *)
(* a call that reached writeAtomic leaves no temporary file behind.          *)
AttemptClearsTemp ==
  [][\A p \in Processes :
       /\ call[p].phase \in {"open", "cleanup", "syncDirectory"}
       /\ call'[p].phase = "unlock" /\ faults' = faults
       => tmp'[call[p].on] = Absent]_vars

\* The file store implements the journal the adapter relies on.
Journal == INSTANCE AtomicJournal WITH
  entry  <- [j \in Entries |-> [state |-> file[j].state, writes |-> file[j].writes]],
  stable <- [j \in Entries |-> [state |-> disk[j].state, writes |-> disk[j].writes]],
  effect <- [p \in Processes |->
               IF call[p].writes = 0 THEN [on |-> NoEntry, writes |-> 0]
               ELSE [on |-> call[p].on, writes |-> call[p].writes]],
  answer <- [p \in Processes |-> IF At(p, "idle") THEN call[p].answer ELSE "none"]

(* Every behaviour of the file store is one of the atomic journal: writes    *)
(* take effect in one legal step, none is lost, "ok" survives a power        *)
(* failure and "refused" means that nothing was written.                     *)
ImplementsAtomicJournal == Journal!Spec
=============================================================================
