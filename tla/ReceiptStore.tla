---------------------------- MODULE ReceiptStore ----------------------------
(***************************************************************************)
(* FileGovernanceOperatorActionReceiptStore (governance-internal-recovery- *)
(* control): the receipts of operator decisions, one line each, appended   *)
(* under the lock directory .consume.lock, so that an action is consumed   *)
(* once by however many processes share the store.                         *)
(*                                                                         *)
(* One action is the code between two awaits.  A waiter removes a lock     *)
(* directory that has not changed for 30 s, whoever made it.  Two history  *)
(* variables say what has gone wrong: stolen, that the claim of a running  *)
(* call was removed, and abandoned, that a crash or a failing access left  *)
(* the directory, or its token, to nobody.                                 *)
(*                                                                         *)
(* The receipts of a task share a file.  A write that is cut short leaves  *)
(* a part of its line, which no load can read, or the whole record without *)
(* its newline, which every load reads as a line; what is appended to that *)
(* makes one unreadable line of both.                                      *)
(***************************************************************************)
EXTENDS Naturals, Sequences, FiniteSets, SequencesExt

CONSTANTS
  Processes,
  Calls,         \* calls of consume; each is made once
  NoCall,
  Actions,       \* action refs: an envelope and the time it was issued
  NoAction,
  Tasks,
  TaskOf,        \* the task of each action, whose file has its receipt
  Decisions,     \* decisions of the receipts that operators sign
  Lockdown,      \* actions whose envelope is in lockdown
  MaxFaults,     \* bound on failing file operations and sinks
  MaxCrashes

ASSUME ReceiptStoreAssumption ==
  /\ NoCall \notin Calls \cup Processes /\ NoAction \notin Actions
  /\ Decisions \subseteq {"acknowledged", "rejected", "deferred", "consumed"}
  /\ Lockdown \subseteq Actions /\ TaskOf \in [Actions -> Tasks]
  /\ MaxFaults \in Nat /\ MaxCrashes \in Nat

VARIABLES
  lines,         \* calls whose receipt is a line of its task's file, before a torn one
  unended,       \* those whose line has no newline yet
  torn,          \* tasks whose file has a line that cannot be read
  lock,          \* the call that made the lock directory, if it exists
  owner,         \* the call whose token is in owner.json, if that exists
  old,           \* whether the directory has not changed for 30 s
  abandoned,     \* history: nobody is left to remove the directory
  call,          \* call[c]: the state of c
  queue,         \* queue[p]: the calls of p in fileReceiptConsumeQueues
  faults, crashes,
  stolen         \* history: the claim of a running call was removed

files == <<lines, unended, torn>>
directory == <<lock, owner, old, abandoned>>
storeVars == <<files, directory, call, queue, faults, crashes, stolen>>

Receipts == [action : Actions, decision : Decisions]

Phases == {"idle", "queued", "reclaim", "own", "undo", "check", "append", "release", "unlock",
           "return", "done", "dead"}

\* current: made for the client's own envelope, not for one it was given.
NewCall == [phase |-> "idle", process |-> NoCall, action |-> NoAction, decision |-> "consumed",
            current |-> FALSE, result |-> "none"]

CallStates == [phase : Phases, process : Processes \cup {NoCall}, action : Actions \cup {NoAction},
               decision : Decisions \cup {"consumed"}, current : BOOLEAN,
               result : {"none", "stored", "replay", "failed", "invalid", "no_store"}]

StoreTypeOK ==
  /\ lines \subseteq Calls /\ unended \subseteq lines /\ torn \subseteq Tasks
  /\ lock \in Calls \cup {NoCall} /\ owner \in Calls \cup {NoCall}
  /\ old \in BOOLEAN /\ abandoned \in BOOLEAN
  /\ lock = NoCall => owner = NoCall /\ ~old /\ ~abandoned
  /\ call \in [Calls -> CallStates]
  /\ \A p \in Processes : /\ queue[p] \in Seq(Calls) /\ IsInjective(queue[p])
                          /\ \A c \in Range(queue[p]) : call[c].process = p
  /\ faults \in 0..MaxFaults /\ crashes \in 0..MaxCrashes /\ stolen \in BOOLEAN

StoreInit ==
  /\ lines = {} /\ unended = {} /\ torn = {}
  /\ lock = NoCall /\ owner = NoCall /\ old = FALSE /\ abandoned = FALSE
  /\ call = [c \in Calls |-> NewCall]
  /\ queue = [p \in Processes |-> <<>>]
  /\ faults = 0 /\ crashes = 0 /\ stolen = FALSE

At(c, phase) == call[c].phase = phase
Goto(c, phase) == call' = [call EXCEPT ![c].phase = phase]
Answer(c, phase, result) == call' = [call EXCEPT ![c].phase = phase, ![c].result = result]
ReceiptOf(c) == [action |-> call[c].action, decision |-> call[c].decision]

\* What is left of a call that has ended, when found are the lines: the
\* receipt it stored, if any.
Ended(c, phase, found) ==
  IF c \in found \/ call[c].result = "stored" THEN [call[c] EXCEPT !.phase = phase]
  ELSE [NewCall EXCEPT !.phase = phase, !.result = call[c].result]

Forget(c, phase) == call' = [call EXCEPT ![c] = Ended(c, phase, lines)]

\* c has made the lock directory and has not come to remove it.
Claims(c) == call[c].phase \in {"own", "undo", "check", "append", "release", "unlock"}

Fault == faults < MaxFaults /\ faults' = faults + 1

\* rm -r of the lock directory, by c.
RemoveDirectory(c) ==
  /\ lock' = NoCall /\ owner' = NoCall /\ old' = FALSE /\ abandoned' = FALSE
  /\ stolen' = (stolen \/ (lock \notin {NoCall, c} /\ Claims(lock)))

\* It fails, and may have removed owner.json.
RemovalFails(c) ==
  /\ Fault /\ UNCHANGED <<lock, stolen>>
  /\ owner' \in {owner, NoCall} /\ old' = (old /\ owner' = owner)
  /\ abandoned' = (abandoned \/ lock = c \/ owner' # owner)

\* The line of c reaches the disk as far as written: nothing of it, a part
\* of its record, the record without the newline, or the line.  Where the
\* last line has no newline, that line is lost with it.
Lands(c, written) ==
  LET task  == TaskOf[call[c].action]
      cut   == {d \in unended : TaskOf[call[d].action] = task}
      whole == IF cut = {} /\ written # "part" THEN {c} ELSE {}
  IN IF written = "nothing" \/ task \in torn THEN UNCHANGED files
     ELSE /\ lines' = (lines \ cut) \cup whole
          /\ unended' = (unended \ cut) \cup (IF written = "record" THEN whole ELSE {})
          /\ torn' = torn \cup (IF whole = {} THEN {task} ELSE {})

Extents == {"nothing", "part", "record", "line"}

-----------------------------------------------------------------------------
(* withFileReceiptConsumeLock                                              *)

MyTurn(c) == At(c, "queued") /\ Head(queue[call[c].process]) = c

\* The finally block of the queue: the next call of the process goes on.
LeaveQueue(c) == queue' = [queue EXCEPT ![call[c].process] = Tail(@)]

LockIsFree == lock = NoCall

MakeLock(c) ==
  /\ MyTurn(c) /\ LockIsFree
  /\ lock' = c /\ owner' = NoCall /\ old' = FALSE /\ abandoned' = FALSE
  /\ Goto(c, "own")
  /\ UNCHANGED <<files, queue, faults, crashes, stolen>>

\* EEXIST, and the stat finds the directory older than 30 s.  A younger one
\* is waited for: nothing changes.
FindStaleLock(c) ==
  /\ MyTurn(c) /\ lock # NoCall /\ old
  /\ Goto(c, "reclaim")
  /\ UNCHANGED <<files, directory, queue, faults, crashes, stolen>>

\* The rm removes the directory that exists now.  A waiter that is out of
\* time gives up after it.
ReclaimStaleLock(c) ==
  /\ At(c, "reclaim")
  /\ \/ RemoveDirectory(c) /\ Goto(c, "queued") /\ UNCHANGED <<queue, faults>>
     \/ /\ \/ RemoveDirectory(c) /\ UNCHANGED faults
           \/ RemovalFails(c)
        /\ Answer(c, "return", "failed") /\ LeaveQueue(c)
  /\ UNCHANGED <<files, crashes>>

\* The mkdir fails, but not because the directory exists, or the stat does.
ClaimFails(c) ==
  /\ MyTurn(c) /\ Fault
  /\ Answer(c, "return", "failed") /\ LeaveQueue(c)
  /\ UNCHANGED <<files, directory, crashes, stolen>>

\* operator_action_receipt_store_lock_timeout
LockTimeout(c) ==
  /\ MyTurn(c) /\ lock # NoCall
  /\ Answer(c, "return", "failed") /\ LeaveQueue(c)
  /\ UNCHANGED <<files, directory, faults, crashes, stolen>>

\* owner.json is created with wx: the write fails when the directory is gone
\* or another owner is in it.  A write that fails otherwise may have created
\* the file.
WriteOwner(c) ==
  /\ At(c, "own")
  /\ \/ /\ lock # NoCall /\ owner = NoCall
        /\ owner' = c /\ old' = FALSE /\ UNCHANGED <<lock, abandoned>>
        /\ \/ Goto(c, "check") /\ UNCHANGED faults
           \/ Goto(c, "undo") /\ Fault
     \/ /\ \/ (lock = NoCall \/ owner # NoCall) /\ UNCHANGED faults
           \/ Fault
        /\ Goto(c, "undo") /\ UNCHANGED directory
  /\ UNCHANGED <<files, queue, crashes, stolen>>

\* The catch block removes whatever directory is there.
UndoLock(c) ==
  /\ At(c, "undo")
  /\ \/ RemoveDirectory(c) /\ UNCHANGED faults
     \/ RemovalFails(c)
  /\ Answer(c, "return", "failed") /\ LeaveQueue(c)
  /\ UNCHANGED <<files, crashes>>

HasMyToken(c) == owner = c

\* releaseFileReceiptConsumeClaim: an error of the read, or of the rm below,
\* replaces the answer, also the answer of a receipt that is stored.
ReadOwner(c) ==
  /\ At(c, "release")
  /\ \/ HasMyToken(c) /\ Goto(c, "unlock") /\ UNCHANGED <<queue, abandoned, faults>>
     \/ ~HasMyToken(c) /\ Goto(c, "return") /\ LeaveQueue(c) /\ UNCHANGED <<abandoned, faults>>
     \/ /\ Fault /\ Answer(c, "return", "failed") /\ LeaveQueue(c)
        /\ abandoned' = (abandoned \/ lock = c)
  /\ UNCHANGED <<files, lock, owner, old, crashes, stolen>>

ReleaseLock(c) ==
  /\ At(c, "unlock")
  /\ \/ RemoveDirectory(c) /\ Goto(c, "return") /\ UNCHANGED faults
     \/ RemovalFails(c) /\ Answer(c, "return", "failed")
  /\ LeaveQueue(c)
  /\ UNCHANGED <<files, crashes>>

-----------------------------------------------------------------------------
(* consumeExclusive                                                        *)

\* Mutant: only the receipt id is compared.
IsReplayMutant(c) == \E d \in lines : ReceiptOf(d) = ReceiptOf(c)

\* getReceipt and findByActionRef.  A receipt id is the hash of the receipt,
\* so the second search finds what the first one finds.
IsReplay(c) == \E d \in lines : call[d].action = call[c].action

\* Mutant: a line that cannot be read is skipped.
UnreadableMutant(c) == c \notin Calls

\* loadAll and parseReceiptLines: one torn line of any task fails every load.
Unreadable(c) == c \in Calls /\ torn # {}

CheckReplay(c) ==
  /\ At(c, "check")
  /\ \/ /\ \/ Unreadable(c) /\ UNCHANGED faults
           \/ Fault
        /\ Answer(c, "release", "failed")
     \/ /\ ~Unreadable(c) /\ UNCHANGED faults
        /\ IF IsReplay(c) THEN Answer(c, "release", "replay") ELSE Goto(c, "append")
  /\ UNCHANGED <<files, directory, queue, crashes, stolen>>

\* A failing write may have written any part of the line, or all of it.
AppendReceipt(c) ==
  /\ At(c, "append")
  /\ \/ Lands(c, "line") /\ Answer(c, "release", "stored") /\ UNCHANGED faults
     \/ /\ \E written \in Extents : Lands(c, written)
        /\ Fault /\ Answer(c, "release", "failed")
  /\ UNCHANGED <<directory, queue, crashes, stolen>>

-----------------------------------------------------------------------------
(* Time and crashes                                                        *)

\* 30 s pass without a change of the directory; its maker may be dead, slow
\* or suspended.
LockAges ==
  /\ lock # NoCall /\ ~old /\ old' = TRUE
  /\ UNCHANGED <<files, lock, owner, abandoned, call, queue, faults, crashes, stolen>>

\* All calls of p end; one that was appending may have written any part of
\* its line.
CrashStore(p) ==
  LET mine == {c \in Calls : call[c].process = p /\ ~At(c, "done")} IN
  /\ crashes < MaxCrashes /\ crashes' = crashes + 1
  /\ \/ UNCHANGED files
     \/ \E c \in mine, written \in Extents : At(c, "append") /\ Lands(c, written)
  /\ call' = [c \in Calls |-> IF c \in mine THEN Ended(c, "dead", lines') ELSE call[c]]
  /\ queue' = [queue EXCEPT ![p] = <<>>]
  /\ abandoned' = (abandoned \/ \E c \in mine : lock = c /\ Claims(c))
  /\ UNCHANGED <<lock, owner, old, faults, stolen>>

StoreStep(c) ==
  \/ MakeLock(c) \/ FindStaleLock(c) \/ ReclaimStaleLock(c) \/ LockTimeout(c)
  \/ ClaimFails(c) \/ WriteOwner(c) \/ UndoLock(c)
  \/ CheckReplay(c) \/ AppendReceipt(c)
  \/ ReadOwner(c) \/ ReleaseLock(c)

-----------------------------------------------------------------------------
(* Properties                                                              *)

\* The receipts that a load finds or that a caller was told are stored.
Taken == lines \cup {c \in Calls : call[c].result = "stored"}

\* A receipt store consumes an action once: unless the claim of a running
\* call was removed, no two receipts that were found or answered "stored"
\* name the same action, and the line of an answer "stored" can be found or
\* the store is shut; over crashes, failing accesses, and lines that were
\* cut short or appended to one that was (consumeExclusive,
\* withFileReceiptConsumeLock, parseReceiptLines).
ConsumedOnce ==
  ~stolen =>
    /\ \A c, d \in Taken : call[c].action = call[d].action => c = d
    /\ \A c \in Taken : c \in lines \/ torn # {}

\* Every way out of a call gives its lock directory back: while it exists,
\* the call that made it still runs, unless that call crashed, or a read or
\* rm of the directory failed (acquire and release of the claim).
LockHasLiveMaker == lock # NoCall => Claims(lock) \/ abandoned

\* After a torn line nothing is consumed any more: the store fails closed
\* and never forgets what the torn line may have been (parseReceiptLines).
TornStoreStaysShut ==
  [][torn # {} /\ ~stolen' =>
       lines' = lines /\ Taken' \subseteq Taken]_storeVars

=============================================================================
