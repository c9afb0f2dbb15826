------------------------------ MODULE Scheduler ------------------------------
(***************************************************************************)
(* The run queue and its execution leases (packages/scheduler).            *)
(*                                                                         *)
(* InMemoryScheduler and FileSystemScheduler offer the same operations on  *)
(* the same state; each call is one atomic step (synchronous code in the   *)
(* first, one locked read-mutate-write in the second).  They differ in     *)
(* what a call that throws leaves behind: the first keeps the expirations  *)
(* it made before the throw, the second writes nothing.  fileBacked tells  *)
(* them apart.                                                             *)
(*                                                                         *)
(* Time is relative: a lease's ttl is max(0, expiresAt - now), so a lease  *)
(* has run out exactly when its ttl is 0, and Tick is the clock.  A lease  *)
(* is named by the leaseSequence that formatLeaseId puts into its id, that *)
(* is by its index in the sequence leases.                                 *)
(***************************************************************************)
EXTENDS Naturals, Sequences, FiniteSets

CONSTANTS
  Runs,            \* run ids that may be enqueued
  AttemptLimits,   \* values the maxAttempts option may take
  Durations        \* values a leaseDurationMs option may take, in ticks

ASSUME SchedulerAssumption ==
  /\ AttemptLimits \subseteq Nat
  /\ Durations \subseteq Nat

VARIABLES
  fileBacked,      \* TRUE: FileSystemScheduler, FALSE: InMemoryScheduler
  queue,           \* queue[r]: the queue item of run r, "absent" before enqueueRun
  queueOrder,      \* run ids in the order they were enqueued
  leases           \* leases[i]: the lease with sequence number i

vars == <<fileBacked, queue, queueOrder, leases>>

ItemStatus  == {"absent", "queued", "leased", "completed", "exhausted"}
LeaseStatus == {"active", "released", "expired", "failed"}

Item  == [status : ItemStatus, attempts : Nat, maxAttempts : Nat, lastLease : Nat]
Lease == [runId : Runs, status : LeaseStatus, attempt : Nat, ttl : Nat]

NoItem == [status |-> "absent", attempts |-> 0, maxAttempts |-> 0, lastLease |-> 0]

TypeOK ==
  /\ fileBacked \in BOOLEAN
  /\ queue \in [Runs -> Item]
  /\ queueOrder \in Seq(Runs)
  /\ leases \in Seq(Lease)

Init ==
  /\ fileBacked \in BOOLEAN
  /\ queue = [r \in Runs |-> NoItem]
  /\ queueOrder = <<>>
  /\ leases = <<>>

-----------------------------------------------------------------------------

\* expiresAt <= now on an active lease
RunOut(l) == l.status = "active" /\ l.ttl = 0

\* Where an item goes when an attempt is lost.
AfterLostAttempt(item) ==
  [item EXCEPT !.status = IF item.attempts >= item.maxAttempts
                          THEN "exhausted" ELSE "queued"]

\* Mutant: the item of an expired lease stays leased.
ExpiredQueueMutant == queue

\* expireLeases: the leases, and the queue, that every call but enqueueRun
\* starts from.
ExpiredLeases ==
  [i \in DOMAIN leases |->
     IF RunOut(leases[i]) THEN [leases[i] EXCEPT !.status = "expired"] ELSE leases[i]]

ExpiredQueue ==
  [r \in Runs |->
     IF queue[r].status = "leased"
          /\ \E i \in DOMAIN leases : leases[i].runId = r /\ RunOut(leases[i])
     THEN AfterLostAttempt(queue[r]) ELSE queue[r]]

HasActiveLease(ls, r) == \E i \in DOMAIN ls : ls[i].runId = r /\ ls[i].status = "active"

\* Mutant: any active lease keeps every run from being offered.
OfferedGlobalMutant(q, ls, r) ==
  q[r].status = "queued" /\ \A i \in DOMAIN ls : ls[i].status # "active"

\* The runs the scan of acquireLease does not skip: queued, no active lease.
Offered(q, ls, r)   == q[r].status = "queued" /\ ~HasActiveLease(ls, r)

\* Mutant: one attempt too many.
GrantableMutant(q, ls, r) == Offered(q, ls, r) /\ q[r].attempts <= q[r].maxAttempts

Grantable(q, ls, r) == Offered(q, ls, r) /\ q[r].attempts < q[r].maxAttempts

-----------------------------------------------------------------------------

\* A run that is queued or leased already is returned as it is, one that is
\* completed or exhausted is refused: neither changes the state.  The file
\* scheduler refuses to write an item whose maxAttempts is not positive.
EnqueueRun(r, max) ==
  /\ queue[r].status = "absent"
  /\ fileBacked => max > 0
  /\ queue' = [queue EXCEPT ![r] = [NoItem EXCEPT !.status = "queued",
                                                  !.maxAttempts = max]]
  /\ queueOrder' = Append(queueOrder, r)
  /\ UNCHANGED leases

\* Offered runs that the scan meets before position k and that have no
\* attempt left are exhausted on the way.
ScannedQueue(k) ==
  [r \in Runs |->
     IF /\ \E j \in DOMAIN queueOrder : j < k /\ queueOrder[j] = r
        /\ Offered(ExpiredQueue, ExpiredLeases, r)
        /\ ~Grantable(ExpiredQueue, ExpiredLeases, r)
     THEN [ExpiredQueue[r] EXCEPT !.status = "exhausted"] ELSE ExpiredQueue[r]]

\* acquireLease: the first grantable run in queue order gets a new lease.
GrantLease(k, d) ==
  LET r       == queueOrder[k]
      attempt == ExpiredQueue[r].attempts + 1
  IN  /\ Grantable(ExpiredQueue, ExpiredLeases, r)
      /\ \A j \in 1..(k-1) : ~Grantable(ExpiredQueue, ExpiredLeases, queueOrder[j])
      /\ leases' = Append(ExpiredLeases,
                          [runId |-> r, status |-> "active", attempt |-> attempt, ttl |-> d])
      /\ queue' = [ScannedQueue(k) EXCEPT ![r].status    = "leased",
                                          ![r].attempts  = attempt,
                                          ![r].lastLease = Len(leases) + 1]
      /\ UNCHANGED queueOrder

\* acquireLease: no run to grant, the call returns undefined.
GrantNothing ==
  /\ \A j \in DOMAIN queueOrder : ~Grantable(ExpiredQueue, ExpiredLeases, queueOrder[j])
  /\ leases' = ExpiredLeases
  /\ queue' = ScannedQueue(Len(queueOrder) + 1)
  /\ UNCHANGED queueOrder

AcquireLease(d) == (\E k \in DOMAIN queueOrder : GrantLease(k, d)) \/ GrantNothing

\* Mutant: the lease's status is read before expireLeases runs.
StillActiveMutant(i) == i \in DOMAIN leases /\ leases[i].status # "released"

\* renewLease, releaseLease and failLease start from the expired state and
\* go on only with a lease that is still active there.
StillActive(i) == i \in DOMAIN leases /\ ExpiredLeases[i].status = "active"

RenewLease(i, d) ==
  /\ StillActive(i)
  /\ leases' = [ExpiredLeases EXCEPT ![i].ttl = d]
  /\ queue' = ExpiredQueue
  /\ UNCHANGED queueOrder

ReleaseLease(i) ==
  /\ StillActive(i)
  /\ leases' = [ExpiredLeases EXCEPT ![i].status = "released"]
  /\ queue' = [ExpiredQueue EXCEPT ![leases[i].runId].status = "completed"]
  /\ UNCHANGED queueOrder

FailLease(i) ==
  LET r == leases[i].runId
  IN  /\ StillActive(i)
      /\ leases' = [ExpiredLeases EXCEPT ![i].status = "failed"]
      /\ queue' = [ExpiredQueue EXCEPT ![r] = AfterLostAttempt(ExpiredQueue[r])]
      /\ UNCHANGED queueOrder

\* One of those three calls with a lease that is unknown or no longer active
\* throws lease_not_found or lease_not_active.
RefuseLeaseCall(i) ==
  /\ ~StillActive(i)
  /\ IF fileBacked THEN UNCHANGED <<queue, leases>>
                   ELSE queue' = ExpiredQueue /\ leases' = ExpiredLeases
  /\ UNCHANGED queueOrder

\* listQueue and listLeases
List ==
  /\ leases' = ExpiredLeases
  /\ queue' = ExpiredQueue
  /\ UNCHANGED queueOrder

\* The clock.
Tick ==
  /\ leases' = [i \in DOMAIN leases |->
                  [leases[i] EXCEPT !.ttl = IF @ > 0 THEN @ - 1 ELSE 0]]
  /\ UNCHANGED <<queue, queueOrder>>

LeaseCall(i) ==
  \/ \E d \in Durations : RenewLease(i, d)
  \/ ReleaseLease(i)
  \/ FailLease(i)
  \/ RefuseLeaseCall(i)

Operation ==
  \/ \E r \in Runs, max \in AttemptLimits : EnqueueRun(r, max)
  \/ \E d \in Durations : AcquireLease(d)
  \/ \E i \in 1..(Len(leases) + 1) : LeaseCall(i)
  \/ List
  \/ Tick

Next == Operation /\ UNCHANGED fileBacked

Spec == Init /\ [][Next]_vars

\* Some worker keeps asking for a lease and the clock keeps running.  No
\* holder of a lease is assumed to renew, release or fail it.
FairSpec ==
  /\ Spec
  /\ WF_vars((\E d \in Durations : AcquireLease(d)) /\ UNCHANGED fileBacked)
  /\ WF_vars(Tick /\ UNCHANGED fileBacked)

-----------------------------------------------------------------------------

\* An active lease is the last lease of its run and the run is leased; a
\* leased run has an active last lease.
ActiveLeaseIsCurrent ==
  /\ \A i \in DOMAIN leases :
       leases[i].status = "active" =>
         queue[leases[i].runId].status = "leased" /\ queue[leases[i].runId].lastLease = i
  /\ \A r \in Runs :
       queue[r].status = "leased" =>
         /\ queue[r].lastLease \in DOMAIN leases
         /\ leases[queue[r].lastLease].runId = r
         /\ leases[queue[r].lastLease].status = "active"

\* No run is ever leased twice at the same time: acquireLease, whatever
\* expired, was renewed or was refused before it, never hands out a run that
\* another worker still holds.
AtMostOneActiveLease ==
  \A i, j \in DOMAIN leases :
    leases[i].status = "active" /\ leases[j].status = "active"
      /\ leases[i].runId = leases[j].runId => i = j

\* A run is completed exactly when one of its leases was released, there is
\* only one such lease and it is the run's last: a worker whose lease ran out
\* cannot complete the run that was handed to somebody else.
CompletedByCurrentLease ==
  /\ \A i \in DOMAIN leases :
       leases[i].status = "released" =>
         queue[leases[i].runId].status = "completed" /\ queue[leases[i].runId].lastLease = i
  /\ \A r \in Runs :
       queue[r].status = "completed" =>
         /\ queue[r].lastLease \in DOMAIN leases
         /\ leases[queue[r].lastLease].runId = r
         /\ leases[queue[r].lastLease].status = "released"

\* Every attempt a run was charged for is a lease that was handed out, their
\* attempt numbers are 1, 2, ..., and no run gets more than maxAttempts: a
\* refused call, an expiration seen twice or a renewal never costs an attempt.
AttemptsAreLeases ==
  \A r \in Runs :
    LET mine == {i \in DOMAIN leases : leases[i].runId = r}
    IN  /\ queue[r].attempts = Cardinality(mine)
        /\ queue[r].attempts <= queue[r].maxAttempts
        /\ \A i \in mine : leases[i].attempt = Cardinality({j \in mine : j <= i})

\* A run that is waiting does not wait for ever, although a run that lost its
\* lease returns to its old place in front of the runs enqueued after it.
QueuedRunIsServed ==
  \A r \in Runs : queue[r].status = "queued" ~> queue[r].status # "queued"
=============================================================================
