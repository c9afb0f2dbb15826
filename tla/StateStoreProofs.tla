-------------------------- MODULE StateStoreProofs --------------------------
(***************************************************************************)
(* Proofs about the state files and what is built on them: Scheduler,      *)
(* FileLock, whose lock makes an operation of a file store one step, and   *)
(* RunManager, whose calls are several such operations.                    *)
(*                                                                         *)
(* Scheduler: for every set of runs, every attempt limit and every lease   *)
(* duration, and for both stores.  The argument goes through the state     *)
(* that expireLeases computes: it satisfies the same invariant as the      *)
(* state it starts from, and so each operation is shown to preserve the    *)
(* invariant from the expired state.                                       *)
(*                                                                         *)
(* FileLock promises atomic updates until a cleanup removes a lock that is *)
(* not stale, RunManager a consistent record if the calls for one run do   *)
(* not overlap.  The theorems state it, and show when it holds.            *)
(***************************************************************************)
EXTENDS Scheduler, FileLock, RunManager, FiniteSetTheorems, TLAPS

-----------------------------------------------------------------------------
(* Scheduler                                                               *)

\* Inductive: the correspondence of leased runs and active leases keeps the
\* release of an old lease from completing a run, and the types keep every
\* index in range.
SchedulerInv ==
  /\ TypeOK
  /\ ActiveLeaseIsCurrent
  /\ CompletedByCurrentLease

\* The invariant as a predicate of a queue and a sequence of leases, to state
\* it of the expired state.
Typed(q, ls) == q \in [Runs -> Item] /\ ls \in Seq(Lease)

Current(q, ls, inItem, inLease) ==
  /\ \A i \in DOMAIN ls :
       ls[i].status = inLease =>
         q[ls[i].runId].status = inItem /\ q[ls[i].runId].lastLease = i
  /\ \A r \in Runs :
       q[r].status = inItem =>
         /\ q[r].lastLease \in DOMAIN ls
         /\ ls[q[r].lastLease].runId = r
         /\ ls[q[r].lastLease].status = inLease

Sound(q, ls) ==
  /\ Typed(q, ls)
  /\ Current(q, ls, "leased", "active")
  /\ Current(q, ls, "completed", "released")

\* Replacing each element of a sequence of leases by a lease gives a sequence
\* of leases of the same length.
LEMMA MapLeases ==
  ASSUME NEW ls \in Seq(Lease), NEW f, f = [i \in DOMAIN ls |-> f[i]],
         \A i \in DOMAIN ls : f[i] \in Lease
  PROVE  f \in Seq(Lease) /\ Len(f) = Len(ls) /\ DOMAIN f = DOMAIN ls
<1>1. DOMAIN ls = 1..Len(ls) /\ Len(ls) \in Nat
  OBVIOUS
<1>2. f \in [1..Len(ls) -> Lease]
  BY <1>1
<1> QED
  BY <1>1, <1>2

\* Type correctness of an item that lost an attempt.
LEMMA AfterLostAttemptType ==
  ASSUME NEW item \in Item
  PROVE  /\ AfterLostAttempt(item) \in Item
         /\ AfterLostAttempt(item).status \in {"queued", "exhausted"}
         /\ AfterLostAttempt(item).lastLease = item.lastLease
BY DEF AfterLostAttempt, Item, ItemStatus

\* expireLeases preserves the invariant.
LEMMA ExpirationSound ==
  ASSUME Sound(queue, leases)
  PROVE  Sound(ExpiredQueue, ExpiredLeases) /\ DOMAIN ExpiredLeases = DOMAIN leases
                                            /\ Len(ExpiredLeases) = Len(leases)
<1>0. queue \in [Runs -> Item] /\ leases \in Seq(Lease)
  BY DEF Sound, Typed
<1>a. \A i \in DOMAIN leases : leases[i] \in Lease
  BY <1>0
<1>1. /\ ExpiredLeases \in Seq(Lease) /\ Len(ExpiredLeases) = Len(leases)
      /\ DOMAIN ExpiredLeases = DOMAIN leases
  <2>1. \A i \in DOMAIN leases : ExpiredLeases[i] \in Lease
    <3>1. \A l \in Lease : [l EXCEPT !.status = "expired"] \in Lease
      BY DEF Lease, LeaseStatus
    <3> QED
      BY <1>a, <3>1 DEF ExpiredLeases
  <2>2. ExpiredLeases = [i \in DOMAIN leases |-> ExpiredLeases[i]]
    BY DEF ExpiredLeases
  <2> QED
    BY <2>1, <2>2, <1>0, MapLeases
<1>2. ExpiredQueue \in [Runs -> Item]
  BY <1>0, AfterLostAttemptType DEF ExpiredQueue
<1>3. \A i \in DOMAIN leases :
        /\ ExpiredLeases[i].runId = leases[i].runId
        /\ ExpiredLeases[i].runId \in Runs
        /\ ExpiredLeases[i].status = IF RunOut(leases[i]) THEN "expired" ELSE leases[i].status
  <2>1. SUFFICES ASSUME NEW i \in DOMAIN leases
                 PROVE  /\ ExpiredLeases[i].runId = leases[i].runId
                        /\ ExpiredLeases[i].runId \in Runs
                        /\ ExpiredLeases[i].status
                             = IF RunOut(leases[i]) THEN "expired" ELSE leases[i].status
    OBVIOUS
  <2>2. leases[i] \in Lease
    BY <1>a
  <2> QED
    BY <2>2 DEF ExpiredLeases, Lease
<1>4. \A r \in Runs :
        /\ ExpiredQueue[r].lastLease = queue[r].lastLease
        /\ \/ ExpiredQueue[r].status = queue[r].status
              /\ ~(queue[r].status = "leased"
                   /\ \E i \in DOMAIN leases : leases[i].runId = r /\ RunOut(leases[i]))
           \/ ExpiredQueue[r].status \in {"queued", "exhausted"}
              /\ queue[r].status = "leased"
              /\ \E i \in DOMAIN leases : leases[i].runId = r /\ RunOut(leases[i])
  BY <1>0, AfterLostAttemptType DEF ExpiredQueue
<1>5. Current(ExpiredQueue, ExpiredLeases, "leased", "active")
  <2>1. Current(queue, leases, "leased", "active")
    BY DEF Sound
  <2>2. ASSUME NEW i \in DOMAIN leases, ExpiredLeases[i].status = "active"
        PROVE  /\ ExpiredQueue[ExpiredLeases[i].runId].status = "leased"
               /\ ExpiredQueue[ExpiredLeases[i].runId].lastLease = i
    <3>1. leases[i].status = "active" /\ ~RunOut(leases[i])
      BY <2>2, <1>3
    <3>2. queue[leases[i].runId].status = "leased" /\ queue[leases[i].runId].lastLease = i
      BY <2>1, <3>1 DEF Current
    <3>3. \A j \in DOMAIN leases : leases[j].runId = leases[i].runId /\ RunOut(leases[j]) => j = i
      BY <2>1, <3>2 DEF Current, RunOut
    <3> QED
      BY <3>1, <3>2, <3>3, <1>3, <1>4
  <2>3. ASSUME NEW r \in Runs, ExpiredQueue[r].status = "leased"
        PROVE  /\ ExpiredQueue[r].lastLease \in DOMAIN leases
               /\ ExpiredLeases[ExpiredQueue[r].lastLease].runId = r
               /\ ExpiredLeases[ExpiredQueue[r].lastLease].status = "active"
    <3>1. /\ queue[r].status = "leased" /\ ExpiredQueue[r].lastLease = queue[r].lastLease
          /\ ~\E i \in DOMAIN leases : leases[i].runId = r /\ RunOut(leases[i])
      BY <2>3, <1>4
    <3> QED
      BY <3>1, <2>1, <1>3 DEF Current
  <2> QED
    BY <2>2, <2>3, <1>1 DEF Current
<1>6. Current(ExpiredQueue, ExpiredLeases, "completed", "released")
  <2>1. Current(queue, leases, "completed", "released")
    BY DEF Sound
  <2>2. \A i \in DOMAIN leases :
          ExpiredLeases[i].status = "released" <=> leases[i].status = "released"
    BY <1>3 DEF RunOut
  <2>3. \A r \in Runs : ExpiredQueue[r].status = "completed" <=> queue[r].status = "completed"
    BY <1>4
  <2> QED
    BY <2>1, <2>2, <2>3, <1>1, <1>3, <1>4 DEF Current
<1> QED
  BY <1>1, <1>2, <1>5, <1>6 DEF Sound, Typed

\* Exhausting offered runs on the way of the scan preserves the invariant.
LEMMA ScanSound ==
  ASSUME Sound(queue, leases), NEW k
  PROVE  /\ Sound(ScannedQueue(k), ExpiredLeases)
         /\ \A r \in Runs : Grantable(ExpiredQueue, ExpiredLeases, r) =>
                            ScannedQueue(k)[r] = ExpiredQueue[r]
<1>0. /\ Sound(ExpiredQueue, ExpiredLeases)
      /\ ExpiredQueue \in [Runs -> Item]
  BY ExpirationSound DEF Sound, Typed
<1>1. \A item \in Item : /\ [item EXCEPT !.status = "exhausted"] \in Item
                         /\ [item EXCEPT !.status = "exhausted"].status = "exhausted"
                         /\ [item EXCEPT !.status = "exhausted"].lastLease = item.lastLease
  BY DEF Item, ItemStatus
<1>2. ScannedQueue(k) \in [Runs -> Item]
  BY <1>0, <1>1 DEF ScannedQueue
<1>3. \A r \in Runs : \/ ScannedQueue(k)[r] = ExpiredQueue[r]
                     \/ /\ ExpiredQueue[r].status = "queued"
                        /\ ScannedQueue(k)[r].status = "exhausted"
                        /\ ScannedQueue(k)[r].lastLease = ExpiredQueue[r].lastLease
  BY <1>0, <1>1 DEF ScannedQueue, Offered
<1>4. \A r \in Runs :
        /\ ScannedQueue(k)[r].lastLease = ExpiredQueue[r].lastLease
        /\ (ScannedQueue(k)[r].status = "leased") <=> (ExpiredQueue[r].status = "leased")
        /\ (ScannedQueue(k)[r].status = "completed") <=> (ExpiredQueue[r].status = "completed")
  <2> TAKE r \in Runs
  <2>1. CASE ScannedQueue(k)[r] = ExpiredQueue[r]
    BY <2>1
  <2>2. CASE /\ ExpiredQueue[r].status = "queued"
             /\ ScannedQueue(k)[r].status = "exhausted"
             /\ ScannedQueue(k)[r].lastLease = ExpiredQueue[r].lastLease
    BY <2>2
  <2> QED
    BY <2>1, <2>2, <1>3
<1>5. ExpiredLeases \in Seq(Lease) /\ \A i \in DOMAIN ExpiredLeases : ExpiredLeases[i].runId \in Runs
  <2>1. ExpiredLeases \in Seq(Lease)
    BY <1>0 DEF Sound, Typed
  <2>2. \A i \in DOMAIN ExpiredLeases : ExpiredLeases[i] \in Lease
    BY <2>1
  <2> QED
    BY <2>1, <2>2 DEF Lease
<1>6. /\ Current(ScannedQueue(k), ExpiredLeases, "leased", "active")
      /\ Current(ScannedQueue(k), ExpiredLeases, "completed", "released")
  BY <1>0, <1>4, <1>5 DEF Sound, Current
<1> QED
  BY <1>2, <1>5, <1>6 DEF Sound, Typed, ScannedQueue

\* Setting the status of one lease and of its run's item, in step with each
\* other, preserves the invariant: the common part of releaseLease and
\* failLease.
LEMMA SettleSound ==
  ASSUME NEW q, NEW ls, Sound(q, ls),
         NEW i \in DOMAIN ls, ls[i].status = "active",
         NEW leaseStatus, NEW item \in Item, item.lastLease = q[ls[i].runId].lastLease,
         \/ leaseStatus = "released" /\ item.status = "completed"
         \/ leaseStatus = "failed"   /\ item.status \in {"queued", "exhausted"}
  PROVE  Sound([q EXCEPT ![ls[i].runId] = item], [ls EXCEPT ![i].status = leaseStatus])
<1> DEFINE r   == ls[i].runId
           q2  == [q EXCEPT ![r] = item]
           ls2 == [ls EXCEPT ![i].status = leaseStatus]
<1>1. /\ q \in [Runs -> Item] /\ ls \in Seq(Lease)
      /\ Current(q, ls, "leased", "active") /\ Current(q, ls, "completed", "released")
  BY DEF Sound, Typed
<1>2. \A j \in DOMAIN ls : ls[j] \in Lease /\ ls[j].runId \in Runs
  <2>1. \A j \in DOMAIN ls : ls[j] \in Lease
    BY <1>1
  <2> QED
    BY <2>1 DEF Lease
<1>3. /\ ls2 \in Seq(Lease) /\ DOMAIN ls2 = DOMAIN ls
      /\ \A j \in DOMAIN ls : j # i => ls2[j] = ls[j]
      /\ ls2[i].runId = r /\ ls2[i].status = leaseStatus
  <2>1. ls2 = [j \in DOMAIN ls |-> ls2[j]]
    OBVIOUS
  <2>2. \A j \in DOMAIN ls : j # i => ls2[j] = ls[j]
    OBVIOUS
  <2>3. ls2[i] = [ls[i] EXCEPT !.status = leaseStatus]
    BY <1>1
  <2>4. [ls[i] EXCEPT !.status = leaseStatus] \in Lease
    BY <1>2 DEF Lease, LeaseStatus
  <2>5. ls2[i].runId = r /\ ls2[i].status = leaseStatus
    BY <2>3, <1>2 DEF Lease
  <2>6. \A j \in DOMAIN ls : ls2[j] \in Lease
    BY <2>2, <2>3, <2>4, <1>2
  <2> HIDE DEF ls2
  <2> QED
    BY <1>1, <2>1, <2>2, <2>5, <2>6, MapLeases
<1>4. /\ q2 \in [Runs -> Item] /\ q2[r] = item
      /\ \A s \in Runs : s # r => q2[s] = q[s]
  BY <1>1, <1>2
<1>5. q[r].status = "leased" /\ q[r].lastLease = i /\ r \in Runs
  BY <1>1, <1>2 DEF Current
<1> HIDE DEF q2, ls2
<1>6. Current(q2, ls2, "leased", "active")
  <2>1. ASSUME NEW j \in DOMAIN ls, ls2[j].status = "active"
        PROVE  q2[ls2[j].runId].status = "leased" /\ q2[ls2[j].runId].lastLease = j
    <3>1. j # i /\ ls2[j] = ls[j]
      BY <2>1, <1>3
    <3>2. q[ls[j].runId].status = "leased" /\ q[ls[j].runId].lastLease = j
      BY <3>1, <2>1, <1>1 DEF Current
    <3>3. ls[j].runId # r
      BY <3>1, <3>2, <1>5
    <3> QED
      BY <3>1, <3>2, <3>3, <1>2, <1>4
  <2>2. ASSUME NEW s \in Runs, q2[s].status = "leased"
        PROVE  /\ q2[s].lastLease \in DOMAIN ls /\ ls2[q2[s].lastLease].runId = s
               /\ ls2[q2[s].lastLease].status = "active"
    <3>1. s # r /\ q2[s] = q[s]
      BY <2>2, <1>4
    <3>2. /\ q[s].lastLease \in DOMAIN ls /\ ls[q[s].lastLease].runId = s
          /\ ls[q[s].lastLease].status = "active"
      BY <3>1, <2>2, <1>1 DEF Current
    <3> QED
      BY <3>1, <3>2, <1>3
  <2> QED
    BY <2>1, <2>2, <1>3 DEF Current
<1>7. Current(q2, ls2, "completed", "released")
  <2>1. ASSUME NEW j \in DOMAIN ls, ls2[j].status = "released"
        PROVE  q2[ls2[j].runId].status = "completed" /\ q2[ls2[j].runId].lastLease = j
    <3>1. CASE j = i
      BY <3>1, <2>1, <1>3, <1>4, <1>5
    <3>2. CASE j # i
      <4>1. q[ls[j].runId].status = "completed" /\ q[ls[j].runId].lastLease = j
        BY <3>2, <2>1, <1>1, <1>3 DEF Current
      <4>2. ls[j].runId # r
        BY <4>1, <1>5
      <4> QED
        BY <3>2, <4>1, <4>2, <1>2, <1>3, <1>4
    <3> QED
      BY <3>1, <3>2
  <2>2. ASSUME NEW s \in Runs, q2[s].status = "completed"
        PROVE  /\ q2[s].lastLease \in DOMAIN ls /\ ls2[q2[s].lastLease].runId = s
               /\ ls2[q2[s].lastLease].status = "released"
    <3>1. CASE s = r
      BY <3>1, <2>2, <1>3, <1>4, <1>5
    <3>2. CASE s # r
      <4>1. /\ q2[s] = q[s] /\ q[s].lastLease \in DOMAIN ls
            /\ ls[q[s].lastLease].runId = s /\ ls[q[s].lastLease].status = "released"
        BY <3>2, <2>2, <1>1, <1>4 DEF Current
      <4> QED
        BY <3>2, <4>1, <1>3
    <3> QED
      BY <3>1, <3>2
  <2> QED
    BY <2>1, <2>2, <1>3 DEF Current
<1>8. Sound(q2, ls2)
  BY <1>3, <1>4, <1>6, <1>7 DEF Sound, Typed
<1> QED
  BY <1>8 DEF q2, ls2

\* The lease that acquireLease appends is the active lease of its run.
LEMMA GrantSound ==
  ASSUME Sound(queue, leases), queueOrder \in Seq(Runs),
         NEW k \in DOMAIN queueOrder, NEW d \in Nat, GrantLease(k, d)
  PROVE  Sound(queue', leases')
<1> DEFINE r == queueOrder[k]
           l == [runId |-> r, status |-> "active",
                 attempt |-> ExpiredQueue[r].attempts + 1, ttl |-> d]
           q == ScannedQueue(k)
           n == Len(leases) + 1
<1>1. /\ Sound(q, ExpiredLeases) /\ q \in [Runs -> Item] /\ ExpiredLeases \in Seq(Lease)
      /\ Current(q, ExpiredLeases, "leased", "active")
      /\ Current(q, ExpiredLeases, "completed", "released")
  BY ScanSound DEF Sound, Typed
<1>2. Len(ExpiredLeases) = Len(leases) /\ DOMAIN ExpiredLeases = 1..Len(leases) /\ n \in Nat
  <2>1. leases \in Seq(Lease) /\ DOMAIN leases = 1..Len(leases) /\ Len(leases) \in Nat
    BY DEF Sound, Typed
  <2> QED
    BY <2>1, ExpirationSound
<1>3. r \in Runs /\ q[r] = ExpiredQueue[r] /\ q[r].status = "queued" /\ q[r] \in Item
  <2>1. r \in Runs
    BY DEF GrantLease
  <2>2. Grantable(ExpiredQueue, ExpiredLeases, r)
    BY DEF GrantLease
  <2> QED
    BY <2>1, <2>2, <1>1, ScanSound DEF Grantable, Offered
<1>4. l \in Lease /\ l.attempt \in Nat /\ l.status = "active" /\ l.runId = r
  BY <1>3 DEF Lease, LeaseStatus, Item
<1>5. leases' = Append(ExpiredLeases, l)
  BY DEF GrantLease
<1>6. /\ leases' \in Seq(Lease) /\ DOMAIN leases' = 1..n /\ leases'[n] = l
      /\ \A i \in 1..Len(leases) : leases'[i] = ExpiredLeases[i]
  <2> HIDE DEF l
  <2> QED
    BY <1>1, <1>2, <1>4, <1>5
<1>7. queue' = [q EXCEPT ![r].status = "leased", ![r].attempts = l.attempt, ![r].lastLease = n]
  BY DEF GrantLease
<1>8. /\ queue' \in [Runs -> Item] /\ queue'[r].status = "leased" /\ queue'[r].lastLease = n
      /\ \A s \in Runs : s # r => queue'[s] = q[s]
  <2> HIDE DEF q, l
  <2> QED
    BY <1>1, <1>2, <1>3, <1>4, <1>7 DEF Item, ItemStatus
<1>9. \A i \in 1..Len(leases) : /\ ExpiredLeases[i] \in Lease /\ ExpiredLeases[i].runId \in Runs
                                /\ ExpiredLeases[i].runId = r =>
                                     ExpiredLeases[i].status \notin {"active", "released"}
  <2>1. \A i \in 1..Len(leases) : ExpiredLeases[i] \in Lease
    BY <1>1, <1>2
  <2> QED
    BY <2>1, <1>1, <1>2, <1>3 DEF Lease, Current
<1> HIDE DEF q, l
<1>10. ASSUME NEW inItem, NEW inLease, Current(q, ExpiredLeases, inItem, inLease),
              \/ inItem = "leased" /\ inLease = "active"
              \/ inItem = "completed" /\ inLease = "released"
       PROVE  Current(queue', leases', inItem, inLease)
  <2>1. ASSUME NEW i \in 1..n, leases'[i].status = inLease
        PROVE  queue'[leases'[i].runId].status = inItem /\ queue'[leases'[i].runId].lastLease = i
    <3>1. CASE i = n
      BY <3>1, <2>1, <1>4, <1>6, <1>8, <1>10
    <3>2. CASE i # n
      <4>1. i \in 1..Len(leases) /\ leases'[i] = ExpiredLeases[i]
        BY <3>2, <1>2, <1>6
      <4>a. ExpiredLeases[i].status = "active" \/ ExpiredLeases[i].status = "released"
        BY <4>1, <2>1, <1>10
      <4>2. ExpiredLeases[i].runId # r /\ ExpiredLeases[i].runId \in Runs
        BY <4>1, <4>a, <1>9
      <4>3. q[ExpiredLeases[i].runId].status = inItem /\ q[ExpiredLeases[i].runId].lastLease = i
        BY <4>1, <2>1, <1>2, <1>10 DEF Current
      <4> QED
        BY <4>1, <4>2, <4>3, <1>8
    <3> QED
      BY <3>1, <3>2
  <2>2. ASSUME NEW s \in Runs, queue'[s].status = inItem
        PROVE  /\ queue'[s].lastLease \in 1..n /\ leases'[queue'[s].lastLease].runId = s
               /\ leases'[queue'[s].lastLease].status = inLease
    <3>1. CASE s = r
      BY <3>1, <2>2, <1>2, <1>4, <1>6, <1>8, <1>10
    <3>2. CASE s # r
      <4>1. queue'[s] = q[s]
        BY <3>2, <1>8
      <4>2. /\ q[s].lastLease \in DOMAIN ExpiredLeases
            /\ ExpiredLeases[q[s].lastLease].runId = s
            /\ ExpiredLeases[q[s].lastLease].status = inLease
        BY <4>1, <2>2, <1>10 DEF Current
      <4>3. q[s].lastLease \in 1..Len(leases) /\ q[s].lastLease \in 1..n
        BY <4>2, <1>2
      <4> QED
        BY <4>1, <4>2, <4>3, <1>6
    <3> QED
      BY <3>1, <3>2
  <2> QED
    BY <2>1, <2>2, <1>6 DEF Current
<1>11. /\ Current(queue', leases', "leased", "active")
       /\ Current(queue', leases', "completed", "released")
  BY <1>1, <1>10
<1> QED
  BY <1>6, <1>8, <1>11 DEF Sound, Typed

\* The invariant does not depend on how long the leases last.
LEMMA SameStatusSound ==
  ASSUME NEW q, NEW ls, Sound(q, ls), NEW ls2 \in Seq(Lease), DOMAIN ls2 = DOMAIN ls,
         \A j \in DOMAIN ls : ls2[j].runId = ls[j].runId /\ ls2[j].status = ls[j].status
  PROVE  Sound(q, ls2)
<1>1. ASSUME NEW inItem, NEW inLease, Current(q, ls, inItem, inLease)
      PROVE  Current(q, ls2, inItem, inLease)
  BY <1>1 DEF Current
<1> QED
  BY <1>1 DEF Sound, Typed

\* Every step preserves the invariant.
LEMMA SoundStep ==
  ASSUME Sound(queue, leases), queueOrder \in Seq(Runs), [Next]_vars
  PROVE  Sound(queue', leases') /\ queueOrder' \in Seq(Runs)
<1> USE SchedulerAssumption
<1>0. /\ queue \in [Runs -> Item] /\ leases \in Seq(Lease)
      /\ Current(queue, leases, "leased", "active")
      /\ Current(queue, leases, "completed", "released")
      /\ Sound(ExpiredQueue, ExpiredLeases)
      /\ ExpiredQueue \in [Runs -> Item] /\ ExpiredLeases \in Seq(Lease)
      /\ DOMAIN ExpiredLeases = DOMAIN leases
  BY ExpirationSound DEF Sound, Typed
<1>a. /\ \A i \in DOMAIN leases : leases[i] \in Lease /\ leases[i].runId \in Runs
      /\ \A i \in DOMAIN leases : ExpiredLeases[i] \in Lease
      /\ \A i \in DOMAIN leases : ExpiredLeases[i].runId = leases[i].runId
  <2>1. \A i \in DOMAIN leases : leases[i] \in Lease /\ ExpiredLeases[i] \in Lease
    BY <1>0
  <2> QED
    BY <2>1 DEF ExpiredLeases, Lease
<1>1. ASSUME NEW r \in Runs, NEW max \in AttemptLimits, EnqueueRun(r, max)
      PROVE  Sound(queue', leases') /\ queueOrder' \in Seq(Runs)
  <2>1. /\ queue' \in [Runs -> Item] /\ queue'[r].status = "queued"
        /\ \A s \in Runs : s # r => queue'[s] = queue[s]
        /\ queue[r].status = "absent" /\ leases' = leases
        /\ queueOrder' \in Seq(Runs)
    <3> DEFINE new == [NoItem EXCEPT !.status = "queued", !.maxAttempts = max]
    <3>1. new \in Item /\ new.status = "queued"
      BY DEF NoItem, Item, ItemStatus
    <3>2. queue[r].status = "absent" /\ queue' = [queue EXCEPT ![r] = new] /\ leases' = leases
      BY <1>1 DEF EnqueueRun
    <3>3. queueOrder' \in Seq(Runs)
      BY <1>1 DEF EnqueueRun
    <3> HIDE DEF new
    <3> QED
      BY <1>0, <3>1, <3>2, <3>3
  <2>2. ASSUME NEW inItem, NEW inLease, inItem \in {"leased", "completed"},
               Current(queue, leases, inItem, inLease)
        PROVE  Current(queue', leases', inItem, inLease)
    <3>1. \A s \in Runs : queue'[s].status = inItem \/ queue[s].status = inItem => s # r
      BY <2>1, <2>2
    <3> QED
      BY <2>1, <2>2, <3>1, <1>a DEF Current
  <2> QED
    BY <1>0, <2>1, <2>2 DEF Sound, Typed
<1>2. ASSUME NEW d \in Durations, AcquireLease(d)
      PROVE  Sound(queue', leases') /\ queueOrder' \in Seq(Runs)
  <2>1. CASE \E k \in DOMAIN queueOrder : GrantLease(k, d)
    BY <2>1, GrantSound DEF GrantLease
  <2>2. CASE GrantNothing
    BY <2>2, ScanSound DEF GrantNothing
  <2> QED
    BY <1>2, <2>1, <2>2 DEF AcquireLease
<1>3. ASSUME NEW i, NEW d \in Durations, RenewLease(i, d)
      PROVE  Sound(queue', leases') /\ queueOrder' \in Seq(Runs)
  <2>1. i \in DOMAIN leases /\ queue' = ExpiredQueue /\ queueOrder' = queueOrder
    BY <1>3 DEF RenewLease, StillActive
  <2>2. leases' = [ExpiredLeases EXCEPT ![i].ttl = d]
    BY <1>3 DEF RenewLease
  <2>3. /\ leases' = [j \in DOMAIN ExpiredLeases |-> leases'[j]]
        /\ \A j \in DOMAIN leases : /\ leases'[j] \in Lease
                                    /\ leases'[j].runId = ExpiredLeases[j].runId
                                    /\ leases'[j].status = ExpiredLeases[j].status
    BY <1>0, <1>a, <2>1, <2>2 DEF Lease
  <2>4. leases' \in Seq(Lease) /\ DOMAIN leases' = DOMAIN leases
    BY <1>0, <2>3, MapLeases
  <2> QED
    BY <1>0, <2>1, <2>3, <2>4, SameStatusSound
<1>4. ASSUME NEW i, ReleaseLease(i)
      PROVE  Sound(queue', leases') /\ queueOrder' \in Seq(Runs)
  <2> DEFINE r    == ExpiredLeases[i].runId
             item == [ExpiredQueue[r] EXCEPT !.status = "completed"]
  <2>1. i \in DOMAIN ExpiredLeases /\ ExpiredLeases[i].status = "active"
        /\ queueOrder' = queueOrder /\ r = leases[i].runId /\ r \in Runs
    BY <1>0, <1>a, <1>4 DEF ReleaseLease, StillActive
  <2>2. item \in Item /\ item.lastLease = ExpiredQueue[r].lastLease /\ item.status = "completed"
    BY <1>0, <2>1 DEF Item, ItemStatus
  <2>3. queue' = [ExpiredQueue EXCEPT ![r] = item]
        /\ leases' = [ExpiredLeases EXCEPT ![i].status = "released"]
    BY <1>4, <2>1 DEF ReleaseLease
  <2> HIDE DEF item
  <2> QED
    BY <1>0, <2>1, <2>2, <2>3, SettleSound
<1>5. ASSUME NEW i, FailLease(i)
      PROVE  Sound(queue', leases') /\ queueOrder' \in Seq(Runs)
  <2> DEFINE r == ExpiredLeases[i].runId
  <2>1. i \in DOMAIN ExpiredLeases /\ ExpiredLeases[i].status = "active"
        /\ queueOrder' = queueOrder /\ r = leases[i].runId /\ r \in Runs
    BY <1>0, <1>a, <1>5 DEF FailLease, StillActive
  <2>2. queue' = [ExpiredQueue EXCEPT ![r] = AfterLostAttempt(ExpiredQueue[r])]
        /\ leases' = [ExpiredLeases EXCEPT ![i].status = "failed"]
    BY <1>5, <2>1 DEF FailLease
  <2> QED
    BY <1>0, <2>1, <2>2, SettleSound, AfterLostAttemptType
<1>6. ASSUME NEW i, RefuseLeaseCall(i)
      PROVE  Sound(queue', leases') /\ queueOrder' \in Seq(Runs)
  BY <1>0, <1>6 DEF RefuseLeaseCall
<1>7. CASE List
  BY <1>0, <1>7 DEF List
<1>8. CASE Tick
  <2>1. /\ leases' = [j \in DOMAIN leases |-> leases'[j]]
        /\ \A j \in DOMAIN leases : /\ leases'[j] \in Lease
                                    /\ leases'[j].runId = leases[j].runId
                                    /\ leases'[j].status = leases[j].status
    <3>1. leases' = [j \in DOMAIN leases |->
                       [leases[j] EXCEPT !.ttl = IF @ > 0 THEN @ - 1 ELSE 0]]
      BY <1>8 DEF Tick
    <3>2. \A l \in Lease : LET m == [l EXCEPT !.ttl = IF @ > 0 THEN @ - 1 ELSE 0]
                           IN  m \in Lease /\ m.runId = l.runId /\ m.status = l.status
      BY DEF Lease
    <3> QED
      BY <1>a, <3>1, <3>2
  <2>2. leases' \in Seq(Lease) /\ DOMAIN leases' = DOMAIN leases
    BY <1>0, <2>1, MapLeases
  <2> QED
    BY <1>8, <2>1, <2>2, SameStatusSound DEF Tick
<1>9. CASE UNCHANGED vars
  BY <1>9 DEF vars
<1> QED
  BY <1>1, <1>2, <1>3, <1>4, <1>5, <1>6, <1>7, <1>8, <1>9 DEF Next, Operation, LeaseCall

\* The invariant as the specification states it.
LEMMA SoundIsInv ==
  SchedulerInv <=> Sound(queue, leases) /\ queueOrder \in Seq(Runs) /\ fileBacked \in BOOLEAN
BY DEF SchedulerInv, Sound, Typed, Current, TypeOK, ActiveLeaseIsCurrent, CompletedByCurrentLease

\* SchedulerInv is an invariant of the scheduler: type correctness, and the
\* agreement of queue items and leases that the next theorems rest on.
THEOREM SchedulerInvariant == Spec => []SchedulerInv
<1>1. Init => SchedulerInv
  BY DEF Init, SchedulerInv, TypeOK, NoItem, Item, ItemStatus,
         ActiveLeaseIsCurrent, CompletedByCurrentLease
<1>2. SchedulerInv /\ [Next]_vars => SchedulerInv'
  <2> SUFFICES ASSUME SchedulerInv, [Next]_vars
               PROVE  SchedulerInv'
    OBVIOUS
  <2>1. Sound(queue', leases') /\ queueOrder' \in Seq(Runs)
    BY SoundIsInv, SoundStep
  <2>2. fileBacked' \in BOOLEAN
    BY DEF SchedulerInv, TypeOK, Next, vars
  <2> QED
    BY <2>1, <2>2 DEF SchedulerInv, Sound, Typed, Current, TypeOK, ActiveLeaseIsCurrent,
                CompletedByCurrentLease
<1> QED
  BY <1>1, <1>2, PTL DEF Spec

\* acquireLease never hands out a run that somebody still holds.
THEOREM SchedulerMutualExclusion == Spec => []AtMostOneActiveLease
<1>1. SchedulerInv => AtMostOneActiveLease
  BY DEF SchedulerInv, ActiveLeaseIsCurrent, AtMostOneActiveLease
<1> QED
  BY <1>1, SchedulerInvariant, PTL

\* A run is completed by its last lease and by no other.
THEOREM SchedulerCompletion == Spec => []CompletedByCurrentLease
<1>1. SchedulerInv => CompletedByCurrentLease
  BY DEF SchedulerInv
<1> QED
  BY <1>1, SchedulerInvariant, PTL

\* Leased runs and active leases correspond to each other at all times.
THEOREM SchedulerCurrent == Spec => []ActiveLeaseIsCurrent
<1>1. SchedulerInv => ActiveLeaseIsCurrent
  BY DEF SchedulerInv
<1> QED
  BY <1>1, SchedulerInvariant, PTL

-----------------------------------------------------------------------------
(* Attempts                                                                *)

LeasesOf(ls, r) == {i \in DOMAIN ls : ls[i].runId = r}

\* AttemptsAreLeases of a queue and a sequence of leases.  Before a run is
\* enqueued it has not been charged.
Charged(q, ls) ==
  \A r \in Runs :
    /\ q[r].status = "absent" => q[r].attempts = 0
    /\ q[r].attempts = Cardinality(LeasesOf(ls, r)) /\ q[r].attempts <= q[r].maxAttempts
    /\ \A i \in LeasesOf(ls, r) : ls[i].attempt = Cardinality({j \in LeasesOf(ls, r) : j <= i})

\* Nothing but a grant and an enqueueing concerns the attempts.
LEMMA SameCharges ==
  ASSUME NEW q, NEW ls, Charged(q, ls), NEW q2, NEW ls2, DOMAIN ls2 = DOMAIN ls,
         \A i \in DOMAIN ls : ls2[i].runId = ls[i].runId /\ ls2[i].attempt = ls[i].attempt,
         \A r \in Runs : /\ q2[r].attempts = q[r].attempts /\ q2[r].maxAttempts = q[r].maxAttempts
                         /\ q2[r].status = "absent" => q[r].status = "absent"
  PROVE  Charged(q2, ls2)
<1>1. \A r \in Runs : LeasesOf(ls2, r) = LeasesOf(ls, r)
  BY DEF LeasesOf
<1>2. ASSUME NEW r \in Runs, NEW i \in LeasesOf(ls2, r)
      PROVE  ls2[i].attempt = Cardinality({j \in LeasesOf(ls2, r) : j <= i})
  <2>1. i \in LeasesOf(ls, r) /\ i \in DOMAIN ls
    BY <1>1 DEF LeasesOf
  <2> QED
    BY <1>1, <2>1 DEF Charged
<1> QED
  BY <1>1, <1>2 DEF Charged

LEMMA MineIsFinite ==
  ASSUME NEW ls \in Seq(Lease), NEW r
  PROVE  IsFiniteSet(LeasesOf(ls, r)) /\ Cardinality(LeasesOf(ls, r)) \in Nat
<1>1. DOMAIN ls = 1..Len(ls) /\ Len(ls) \in Nat
  OBVIOUS
<1>2. IsFiniteSet(1..Len(ls))
  BY <1>1, FS_Interval
<1>3. LeasesOf(ls, r) \subseteq 1..Len(ls)
  BY <1>1 DEF LeasesOf
<1> QED
  BY <1>2, <1>3, FS_Subset, FS_CardinalityType

LEMMA LostAttemptCharges ==
  ASSUME NEW item \in Item
  PROVE  /\ AfterLostAttempt(item).attempts = item.attempts
         /\ AfterLostAttempt(item).maxAttempts = item.maxAttempts
         /\ AfterLostAttempt(item).status # "absent"
BY DEF AfterLostAttempt, Item

LEMMA ExpirationCharges ==
  ASSUME Sound(queue, leases), Charged(queue, leases)
  PROVE  /\ Charged(ExpiredQueue, ExpiredLeases)
         /\ \A i \in DOMAIN leases : /\ ExpiredLeases[i].runId = leases[i].runId
                                     /\ ExpiredLeases[i].attempt = leases[i].attempt
<1>1. queue \in [Runs -> Item] /\ leases \in Seq(Lease) /\ DOMAIN ExpiredLeases = DOMAIN leases
  BY ExpirationSound DEF Sound, Typed
<1>2. \A i \in DOMAIN leases : leases[i] \in Lease
  BY <1>1
<1>3. \A i \in DOMAIN leases : /\ ExpiredLeases[i].runId = leases[i].runId
                               /\ ExpiredLeases[i].attempt = leases[i].attempt
  BY <1>2 DEF ExpiredLeases, Lease
<1>4. \A r \in Runs : /\ ExpiredQueue[r].attempts = queue[r].attempts
                      /\ ExpiredQueue[r].maxAttempts = queue[r].maxAttempts
                      /\ ExpiredQueue[r].status = "absent" => queue[r].status = "absent"
  BY <1>1, LostAttemptCharges DEF ExpiredQueue
<1> QED
  BY <1>1, <1>3, <1>4, SameCharges

LEMMA ScanCharges ==
  ASSUME Sound(queue, leases), Charged(queue, leases), NEW k
  PROVE  Charged(ScannedQueue(k), ExpiredLeases)
<1>1. ExpiredQueue \in [Runs -> Item]
  BY ExpirationSound DEF Sound, Typed
<1>2. \A item \in Item : /\ [item EXCEPT !.status = "exhausted"].attempts = item.attempts
                         /\ [item EXCEPT !.status = "exhausted"].maxAttempts = item.maxAttempts
                         /\ [item EXCEPT !.status = "exhausted"].status = "exhausted"
  BY DEF Item
<1>3. \A r \in Runs : /\ ScannedQueue(k)[r].attempts = ExpiredQueue[r].attempts
                      /\ ScannedQueue(k)[r].maxAttempts = ExpiredQueue[r].maxAttempts
                      /\ ScannedQueue(k)[r].status = "absent" => ExpiredQueue[r].status = "absent"
  BY <1>1, <1>2 DEF ScannedQueue
<1> QED
  BY <1>3, ExpirationCharges, SameCharges

\* A grant charges its run one attempt, numbers the lease with it and
\* charges nobody else.
LEMMA GrantCharges ==
  ASSUME Sound(queue, leases), Charged(queue, leases), queueOrder \in Seq(Runs),
         NEW k \in DOMAIN queueOrder, NEW d \in Nat, GrantLease(k, d)
  PROVE  Charged(queue', leases')
<1> DEFINE r == queueOrder[k]
           a == ExpiredQueue[r].attempts + 1
           l == [runId |-> r, status |-> "active", attempt |-> a, ttl |-> d]
           q == ScannedQueue(k)
           ls == ExpiredLeases
           n == Len(leases) + 1
<1>1. /\ Sound(q, ls) /\ q \in [Runs -> Item] /\ ls \in Seq(Lease) /\ Charged(q, ls)
  BY ScanSound, ScanCharges DEF Sound, Typed
<1>2. Len(ls) = Len(leases) /\ DOMAIN ls = 1..Len(leases) /\ n \in Nat /\ n \notin DOMAIN ls
      /\ \A i \in DOMAIN ls : i \in Nat /\ i < n
  <2>1. leases \in Seq(Lease) /\ DOMAIN leases = 1..Len(leases) /\ Len(leases) \in Nat
    BY DEF Sound, Typed
  <2> QED
    BY <2>1, ExpirationSound
<1>3. r \in Runs /\ q[r] = ExpiredQueue[r] /\ q[r] \in Item /\ q[r].attempts < q[r].maxAttempts
  <2>1. r \in Runs /\ Grantable(ExpiredQueue, ExpiredLeases, r)
    BY DEF GrantLease
  <2> QED
    BY <2>1, <1>1, ScanSound DEF Grantable
<1>4. l \in Lease /\ l.attempt = a /\ l.runId = r
  BY <1>3 DEF Lease, LeaseStatus, Item
<1>5. leases' = Append(ls, l)
  BY DEF GrantLease
<1>6. queue' = [q EXCEPT ![r].status = "leased", ![r].attempts = a, ![r].lastLease = n]
  BY DEF GrantLease
<1> HIDE DEF q, l, ls
<1>7. /\ leases' \in Seq(Lease) /\ DOMAIN leases' = 1..n /\ leases'[n] = l
      /\ \A i \in 1..Len(leases) : leases'[i] = ls[i]
  BY <1>1, <1>2, <1>4, <1>5
<1>8. /\ queue'[r].status = "leased" /\ queue'[r].attempts = a
      /\ queue'[r].maxAttempts = q[r].maxAttempts /\ a = q[r].attempts + 1
      /\ \A s \in Runs : s # r => queue'[s] = q[s]
  BY <1>1, <1>2, <1>3, <1>6 DEF Item
<1>9. LeasesOf(leases', r) = LeasesOf(ls, r) \cup {n} /\ n \notin LeasesOf(ls, r)
  BY <1>2, <1>4, <1>7 DEF LeasesOf
<1>10. \A s \in Runs : s # r => LeasesOf(leases', s) = LeasesOf(ls, s)
  BY <1>2, <1>4, <1>7 DEF LeasesOf
<1>11. Cardinality(LeasesOf(leases', r)) = a
  <2>1. IsFiniteSet(LeasesOf(ls, r)) /\ Cardinality(LeasesOf(ls, r)) \in Nat
    BY <1>1, MineIsFinite
  <2>2. Cardinality(LeasesOf(ls, r) \cup {n}) = Cardinality(LeasesOf(ls, r)) + 1
    BY <1>9, <2>1, FS_AddElement
  <2> QED
    BY <1>1, <1>3, <1>8, <1>9, <2>2 DEF Charged
<1>12. a <= q[r].maxAttempts
  BY <1>3, <1>8 DEF Item
<1>13. ASSUME NEW s \in Runs, NEW i \in LeasesOf(leases', s)
       PROVE  leases'[i].attempt = Cardinality({j \in LeasesOf(leases', s) : j <= i})
  <2>1. CASE i = n
    <3>1. s = r
      BY <2>1, <1>2, <1>10, <1>13 DEF LeasesOf
    <3>2. {j \in LeasesOf(leases', r) : j <= n} = LeasesOf(leases', r)
      BY <1>2, <1>7 DEF LeasesOf
    <3> QED
      BY <2>1, <3>1, <3>2, <1>4, <1>7, <1>11
  <2>2. CASE i # n
    <3>1. i \in LeasesOf(ls, s) /\ i \in DOMAIN ls
      BY <2>2, <1>9, <1>10, <1>13 DEF LeasesOf
    <3>2. leases'[i] = ls[i]
      BY <3>1, <1>2, <1>7
    <3>3. ~(n <= i)
      BY <3>1, <1>2
    <3>4. {j \in LeasesOf(leases', s) : j <= i} = {j \in LeasesOf(ls, s) : j <= i}
      BY <3>3, <1>9, <1>10
    <3> QED
      BY <3>1, <3>2, <3>4, <1>1 DEF Charged
  <2> QED
    BY <2>1, <2>2
<1>14. ASSUME NEW s \in Runs
       PROVE  /\ queue'[s].status = "absent" => queue'[s].attempts = 0
              /\ queue'[s].attempts = Cardinality(LeasesOf(leases', s))
              /\ queue'[s].attempts <= queue'[s].maxAttempts
  <2>1. CASE s = r
    BY <2>1, <1>8, <1>11, <1>12
  <2>2. CASE s # r
    BY <2>2, <1>1, <1>8, <1>10 DEF Charged
  <2> QED
    BY <2>1, <2>2
<1> QED
  BY <1>13, <1>14 DEF Charged

\* Every step preserves it.
LEMMA ChargedStep ==
  ASSUME Sound(queue, leases), Charged(queue, leases), queueOrder \in Seq(Runs), [Next]_vars
  PROVE  Charged(queue', leases')
<1> USE SchedulerAssumption
<1>0. /\ queue \in [Runs -> Item] /\ leases \in Seq(Lease)
      /\ ExpiredQueue \in [Runs -> Item] /\ ExpiredLeases \in Seq(Lease)
      /\ DOMAIN ExpiredLeases = DOMAIN leases
      /\ Charged(ExpiredQueue, ExpiredLeases)
  BY ExpirationSound, ExpirationCharges DEF Sound, Typed
<1>a. \A i \in DOMAIN leases : leases[i] \in Lease /\ ExpiredLeases[i] \in Lease
                               /\ leases[i].runId \in Runs
  <2>1. \A i \in DOMAIN leases : leases[i] \in Lease /\ ExpiredLeases[i] \in Lease
    BY <1>0
  <2> QED
    BY <2>1 DEF Lease
<1>1. ASSUME NEW r \in Runs, NEW max \in AttemptLimits, EnqueueRun(r, max)
      PROVE  Charged(queue', leases')
  <2> DEFINE new == [NoItem EXCEPT !.status = "queued", !.maxAttempts = max]
  <2>1. new.status = "queued" /\ new.attempts = 0 /\ new.maxAttempts = max
    BY DEF NoItem
  <2>2. queue[r].status = "absent" /\ queue' = [queue EXCEPT ![r] = new] /\ leases' = leases
    BY <1>1 DEF EnqueueRun
  <2> HIDE DEF new
  <2>3. queue'[r] = new /\ \A s \in Runs : s # r => queue'[s] = queue[s]
    BY <1>0, <2>2
  <2>4. queue[r].attempts = 0 /\ 0 <= max
    BY <2>2 DEF Charged
  <2> QED
    BY <2>1, <2>2, <2>3, <2>4 DEF Charged
<1>2. ASSUME NEW d \in Durations, AcquireLease(d)
      PROVE  Charged(queue', leases')
  <2>1. CASE \E k \in DOMAIN queueOrder : GrantLease(k, d)
    BY <2>1, GrantCharges
  <2>2. CASE GrantNothing
    BY <2>2, ScanCharges DEF GrantNothing
  <2> QED
    BY <1>2, <2>1, <2>2 DEF AcquireLease
<1>3. ASSUME NEW i, NEW d \in Durations, RenewLease(i, d)
      PROVE  Charged(queue', leases')
  <2>1. /\ i \in DOMAIN leases /\ queue' = ExpiredQueue
        /\ leases' = [ExpiredLeases EXCEPT ![i].ttl = d]
    BY <1>3 DEF RenewLease, StillActive
  <2>2. /\ DOMAIN leases' = DOMAIN ExpiredLeases
        /\ \A j \in DOMAIN ExpiredLeases : /\ leases'[j].runId = ExpiredLeases[j].runId
                                           /\ leases'[j].attempt = ExpiredLeases[j].attempt
    BY <1>0, <1>a, <2>1 DEF Lease
  <2> QED
    BY <1>0, <2>1, <2>2, SameCharges
<1>4. ASSUME NEW i \in DOMAIN leases, NEW st, NEW item,
             leases' = [ExpiredLeases EXCEPT ![i].status = st],
             queue' = [ExpiredQueue EXCEPT ![leases[i].runId] = item], item.status # "absent",
             item.attempts = ExpiredQueue[leases[i].runId].attempts,
             item.maxAttempts = ExpiredQueue[leases[i].runId].maxAttempts
      PROVE  Charged(queue', leases')
  <2>1. /\ DOMAIN leases' = DOMAIN ExpiredLeases
        /\ \A j \in DOMAIN ExpiredLeases : /\ leases'[j].runId = ExpiredLeases[j].runId
                                           /\ leases'[j].attempt = ExpiredLeases[j].attempt
    BY <1>0, <1>a, <1>4 DEF Lease
  <2>2. \A s \in Runs : /\ queue'[s].attempts = ExpiredQueue[s].attempts
                        /\ queue'[s].maxAttempts = ExpiredQueue[s].maxAttempts
                        /\ queue'[s].status = "absent" => ExpiredQueue[s].status = "absent"
    BY <1>0, <1>a, <1>4
  <2> QED
    BY <1>0, <2>1, <2>2, SameCharges
<1>5. ASSUME NEW i, ReleaseLease(i)
      PROVE  Charged(queue', leases')
  <2> DEFINE item == [ExpiredQueue[leases[i].runId] EXCEPT !.status = "completed"]
  <2>1. i \in DOMAIN leases
    BY <1>5 DEF ReleaseLease, StillActive
  <2>2. /\ item.status # "absent" /\ item.attempts = ExpiredQueue[leases[i].runId].attempts
        /\ item.maxAttempts = ExpiredQueue[leases[i].runId].maxAttempts
    BY <1>0, <1>a, <2>1 DEF Item
  <2>3. /\ leases' = [ExpiredLeases EXCEPT ![i].status = "released"]
        /\ queue' = [ExpiredQueue EXCEPT ![leases[i].runId] = item]
    BY <1>5 DEF ReleaseLease
  <2> HIDE DEF item
  <2> QED
    BY <2>1, <2>2, <2>3, <1>4
<1>6. ASSUME NEW i, FailLease(i)
      PROVE  Charged(queue', leases')
  <2> DEFINE item == AfterLostAttempt(ExpiredQueue[leases[i].runId])
  <2>1. i \in DOMAIN leases
    BY <1>6 DEF FailLease, StillActive
  <2>2. /\ item.status # "absent" /\ item.attempts = ExpiredQueue[leases[i].runId].attempts
        /\ item.maxAttempts = ExpiredQueue[leases[i].runId].maxAttempts
    BY <1>0, <1>a, <2>1, LostAttemptCharges
  <2>3. /\ leases' = [ExpiredLeases EXCEPT ![i].status = "failed"]
        /\ queue' = [ExpiredQueue EXCEPT ![leases[i].runId] = item]
    BY <1>6 DEF FailLease
  <2> HIDE DEF item
  <2> QED
    BY <2>1, <2>2, <2>3, <1>4
<1>7. ASSUME NEW i, RefuseLeaseCall(i)
      PROVE  Charged(queue', leases')
  BY <1>0, <1>7 DEF RefuseLeaseCall
<1>8. CASE List
  BY <1>0, <1>8 DEF List
<1>9. CASE Tick
  <2>1. /\ DOMAIN leases' = DOMAIN leases /\ queue' = queue
        /\ \A j \in DOMAIN leases : /\ leases'[j].runId = leases[j].runId
                                    /\ leases'[j].attempt = leases[j].attempt
    <3>1. leases' = [j \in DOMAIN leases |->
                       [leases[j] EXCEPT !.ttl = IF @ > 0 THEN @ - 1 ELSE 0]]
      BY <1>9 DEF Tick
    <3>2. \A l \in Lease : LET m == [l EXCEPT !.ttl = IF @ > 0 THEN @ - 1 ELSE 0]
                           IN  m.runId = l.runId /\ m.attempt = l.attempt
      BY DEF Lease
    <3> QED
      BY <1>a, <1>9, <3>1, <3>2 DEF Tick
  <2> QED
    BY <2>1, SameCharges
<1>10. CASE UNCHANGED vars
  BY <1>10 DEF vars
<1> QED
  BY <1>1, <1>2, <1>3, <1>5, <1>6, <1>7, <1>8, <1>9, <1>10 DEF Next, Operation, LeaseCall

\* A run is charged exactly for the leases it was granted, in order and never
\* beyond maxAttempts, whatever was renewed, refused, failed or expired.
THEOREM SchedulerAttempts == Spec => []AttemptsAreLeases
<1>1. Init => Charged(queue, leases)
  <2>1. ASSUME Init, NEW r \in Runs PROVE queue[r].attempts = 0 /\ queue[r].maxAttempts = 0
                                          /\ LeasesOf(leases, r) = {}
    BY <2>1 DEF Init, NoItem, LeasesOf
  <2>2. Cardinality({}) = 0 /\ 0 <= 0
    BY FS_EmptySet
  <2>3. ASSUME Init, NEW r \in Runs PROVE /\ queue[r].attempts = Cardinality(LeasesOf(leases, r))
                                          /\ queue[r].attempts <= queue[r].maxAttempts
    BY <2>1, <2>2, <2>3
  <2> QED
    BY <2>1, <2>3 DEF Charged
<1>2. SchedulerInv /\ Charged(queue, leases) /\ [Next]_vars => Charged(queue, leases)'
  BY SoundIsInv, ChargedStep
<1>3. Charged(queue, leases) => AttemptsAreLeases
  BY DEF Charged, AttemptsAreLeases, LeasesOf
<1> QED
  BY <1>1, <1>2, <1>3, SchedulerInvariant, PTL DEF Spec

-----------------------------------------------------------------------------
(* FileLock: any number of processes, calls, crashes and failing accesses. *)

\* Between the creation of the lock file and its release.
HoldsLock(p) == pc[p] \in {"stamp", "load", "save", "release", "releaseUnlink"}

\* A holder has made a call, a lock file has a maker, and nobody sees a lock
\* file age that is still to be written.
LockIsMade ==
  /\ \A p \in Procs : HoldsLock(p) => calls[p] # 0
  /\ lock # NoLock => lock.owner \in Procs
  /\ lock # NoLock /\ lock.old => ~BeingStamped

\* The lock file is that of the call in progress, and stamped once the call
\* has gone on; so there is one such call.
HolderOwns ==
  \A p \in Procs : HoldsLock(p) =>
    /\ lock # NoLock /\ Mine(p)
    /\ pc[p] # "stamp" => lock.stamped

\* What mutate works on is the state file.
ReadIsCurrent == \A p \in Procs : pc[p] = "save" => read[p] = store

UpdateIsSound == HolderOwns /\ ReadIsCurrent /\ NoLostUpdate

FileLockInv == LockTypeOK /\ LockIsMade /\ (~robbed => UpdateIsSound)

\* The invariant holds initially.
LEMMA FileLockInit ==
  ASSUME LockInit
  PROVE  FileLockInv
<1>1. LockTypeOK
  <2>1. NoLock \in Locks
    BY FileLockAssumption DEF NoLock, Locks
  <2>2. 0 \in 0..MaxCalls /\ 0 \in 0..MaxFailures
    BY FileLockAssumption
  <2> QED
    BY <2>1, <2>2 DEF LockInit, LockTypeOK, PCs
<1>2. LockIsMade
  BY DEF LockInit, LockIsMade, HoldsLock
<1>3. UpdateIsSound
  BY DEF LockInit, UpdateIsSound, HolderOwns, HoldsLock, ReadIsCurrent, NoLostUpdate
<1> QED
  BY <1>1, <1>2, <1>3 DEF FileLockInv

\* A lock file that may be removed is held by nobody: its owner died, or gave
\* up before its pid was in it.
LEMMA ReclaimableIsFree ==
  ASSUME FileLockInv, ~robbed, lock = NoLock \/ Reclaimable(lock)
  PROVE  \A p \in Procs : ~HoldsLock(p)
BY DEF FileLockInv, UpdateIsSound, HolderOwns, HoldsLock, LockIsMade, Reclaimable, OwnerAlive,
       BeingStamped, Mine

\* The types are preserved; that a holder has made a call puts its mutation
\* in range.
LEMMA FileLockTypes ==
  ASSUME FileLockInv, [LockNext]_lockVars
  PROVE  LockTypeOK'
<1>0. LockTypeOK /\ LockIsMade
  BY DEF FileLockInv
<1> USE <1>0, FileLockAssumption DEF LockTypeOK, PCs, Locks, NoLock, Mutations, Goto, noted
<1>1. ASSUME NEW p \in Procs, Create(p)
      PROVE  LockTypeOK'
  <2>1. calls[p] + 1 \in 0..MaxCalls
    BY <1>1 DEF Create
  <2>2. calls' \in [Procs -> 0..MaxCalls] /\ calls'[p] \in 0..MaxCalls
    BY <1>1, <2>1 DEF Create
  <2>3. lock' \in Locks
    BY <1>1, <2>2 DEF Create
  <2> QED
    BY <1>1, <2>2, <2>3 DEF Create
<1>2. ASSUME NEW p \in Procs, Contend(p) \/ Load(p) \/ MutateThrows(p) \/ ReleaseCheck(p)
      PROVE  LockTypeOK'
  BY <1>2 DEF Contend, Load, MutateThrows, ReleaseCheck
<1>3. ASSUME NEW p \in Procs, Stamp(p) \/ StampFails(p)
      PROVE  LockTypeOK'
  <2>3. [owner |-> p, call |-> calls[p], stamped |-> TRUE, old |-> FALSE] \in Locks
    BY <1>3
  <2>1. lock' \in Locks
    <3> HIDE DEF Locks
    <3> QED
      BY <1>3, <2>3 DEF Stamp, StampFails, Stamped
  <2>2. failures' \in 0..MaxFailures
    BY <1>3 DEF Stamp, StampFails, Failure
  <2> QED
    BY <1>3, <2>1, <2>2 DEF Stamp, StampFails
<1>4. ASSUME NEW p \in Procs, Save(p)
      PROVE  LockTypeOK'
  <2>1. <<p, calls[p]>> \in Mutations
    BY <1>4 DEF Save, LockIsMade, HoldsLock
  <2> QED
    BY <1>4, <2>1 DEF Save
<1>5. ASSUME NEW p \in Procs, ReleaseUnlink(p) \/ Unlink(p)
      PROVE  LockTypeOK'
  <2>1. NoLock \in Locks
    OBVIOUS
  <2>2. robbed' \in BOOLEAN
    BY <1>5 DEF ReleaseUnlink, Unlink
  <2> HIDE DEF NoLock, Locks
  <2> QED
    BY <1>5, <2>1, <2>2 DEF ReleaseUnlink, Unlink
<1>6. ASSUME NEW p \in Procs, Inspect(p) \/ Confirm(p)
      PROVE  LockTypeOK'
  <2>1. NoLock \in Locks
    OBVIOUS
  <2> HIDE DEF NoLock, Locks
  <2>2. CASE Inspect(p)
    BY <2>2 DEF Inspect
  <2>3. CASE Confirm(p)
    BY <2>1, <2>3 DEF Confirm
  <2> QED
    BY <1>6, <2>2, <2>3
<1>7. ASSUME Age
      PROVE  LockTypeOK'
  BY <1>7 DEF Age
<1>8. ASSUME NEW p \in Procs, Die(p)
      PROVE  LockTypeOK'
  <2>1. NoLock \in Locks
    OBVIOUS
  <2> HIDE DEF NoLock, Locks
  <2> QED
    BY <1>8, <2>1 DEF Die
<1>9. ASSUME NEW p \in Procs, ReleaseFails(p)
      PROVE  LockTypeOK'
  <2> HIDE DEF NoLock, Locks
  <2> QED
    BY <1>9 DEF ReleaseFails, Failure
<1>10. ASSUME UNCHANGED lockVars
      PROVE  LockTypeOK'
  BY <1>10 DEF lockVars
<1> QED
  BY <1>1, <1>2, <1>3, <1>4, <1>5, <1>6, <1>7, <1>8, <1>9, <1>10
     DEF LockNext, Step, Fails, Terminating

\* Each access to the files preserves the invariant.  A cleanup that robs
\* nobody finds a lock file that nobody holds.
LEMMA FileLockStep ==
  ASSUME FileLockInv, [LockNext]_lockVars
  PROVE  FileLockInv'
<1>0. LockTypeOK'
  BY FileLockTypes
<1>t. LockTypeOK /\ LockIsMade /\ (~robbed => UpdateIsSound)
  BY DEF FileLockInv
<1> DEFINE Rest == LockIsMade' /\ (~robbed' => UpdateIsSound')
<1> USE DEF LockTypeOK, Goto, LockIsMade, UpdateIsSound, HolderOwns, HoldsLock, Mine,
            BeingStamped, ReadIsCurrent, NoLostUpdate, noted
<1>1. ASSUME NEW p \in Procs, Create(p)
      PROVE  Rest
  <2>1. calls' = [calls EXCEPT ![p] = calls[p] + 1] /\ calls[p] \in Nat /\ calls'[p] = calls[p] + 1
    BY <1>1, <1>t DEF Create
  <2>3. PICK n \in Nat : n = calls'[p] /\ n # 0
    BY <2>1
  <2>4. lock' = [owner |-> p, call |-> n, stamped |-> FALSE, old |-> FALSE]
    BY <1>1, <2>3 DEF Create, NoLock
  <2>2. lock' # NoLock /\ lock'.owner = p /\ lock'.call = calls'[p] /\ ~lock'.old /\ ~lock'.stamped
    BY <2>3, <2>4 DEF NoLock
  <2> QED
    BY <1>1, <1>t, <2>1, <2>2 DEF Create
<1>2. ASSUME NEW p \in Procs, Contend(p) \/ Load(p) \/ MutateThrows(p) \/ ReleaseCheck(p)
      PROVE  Rest
  BY <1>2, <1>t DEF Contend, Load, MutateThrows, ReleaseCheck
<1>3. ASSUME NEW p \in Procs, Stamp(p) \/ StampFails(p)
      PROVE  Rest
  <2>1. lock # NoLock /\ lock' # lock =>
          lock' # NoLock /\ lock'.owner = lock.owner /\ lock'.call = lock.call /\ lock'.stamped
    BY <1>3, <1>t DEF Stamp, StampFails, Stamped, NoLock, Locks
  <2>2. lock' # lock => Mine(p) /\ calls[p] # 0 /\ lock # NoLock
    BY <1>3, <1>t DEF Stamp, StampFails, Stamped, NoLock
  <2>3. ~robbed => lock # NoLock /\ Mine(p)
    BY <1>3, <1>t DEF Stamp, StampFails
  <2>4. Stamp(p) /\ lock # NoLock /\ Mine(p) => lock'.stamped
    BY <1>t DEF Stamp, Stamped, Locks
  <2>5. LockIsMade'
    BY <1>3, <1>t, <2>1, <2>2 DEF Stamp, StampFails
  <2>6. ~robbed' => UpdateIsSound'
    BY <1>3, <1>t, <2>1, <2>2, <2>3, <2>4 DEF Stamp, StampFails
  <2> QED
    BY <2>5, <2>6
<1>4. ASSUME NEW p \in Procs, Save(p)
      PROVE  Rest
  BY <1>4, <1>t DEF Save
<1>5. ASSUME NEW p \in Procs, ReleaseUnlink(p)
      PROVE  Rest
  BY <1>5, <1>t DEF ReleaseUnlink
<1>6. ASSUME NEW p \in Procs, Unlink(p)
      PROVE  Rest
  <2>1. ~robbed' => ~robbed /\ (lock = NoLock \/ Reclaimable(lock))
    BY <1>6 DEF Unlink
  <2>2. ~robbed' => \A q \in Procs : ~HoldsLock(q)
    BY <2>1, ReclaimableIsFree
  <2> QED
    BY <1>6, <1>t, <2>1, <2>2 DEF Unlink
<1>7. ASSUME NEW p \in Procs, Inspect(p) \/ Confirm(p)
      PROVE  Rest
  BY <1>7, <1>t DEF Inspect, Confirm
<1>8. ASSUME Age
      PROVE  Rest
  <2>1. lock' # NoLock /\ lock'.owner = lock.owner /\ lock'.call = lock.call /\ lock'.stamped = lock.stamped
    BY <1>8, <1>t DEF Age, NoLock, Locks
  <2> QED
    BY <1>8, <1>t, <2>1 DEF Age
<1>9. ASSUME NEW p \in Procs, Die(p) \/ ReleaseFails(p)
      PROVE  Rest
  BY <1>9, <1>t DEF Die, ReleaseFails
<1>10. ASSUME UNCHANGED lockVars
      PROVE  Rest
  BY <1>10, <1>t DEF lockVars
<1> QED
  BY <1>0, <1>1, <1>2, <1>3, <1>4, <1>5, <1>6, <1>7, <1>8, <1>9, <1>10
     DEF FileLockInv, LockNext, Step, Fails, Terminating

\* The invariant implies atomicity.
LEMMA AtomicFromInv == FileLockInv => UpdatesAreAtomic
BY DEF FileLockInv, UpdateIsSound, HolderOwns, HoldsLock, Mine, UpdatesAreAtomic, MutualExclusion,
       InSection

\* The invariant holds in every behaviour.
THEOREM FileLockInvariant == LockSpec => []FileLockInv
<1>1. LockInit => FileLockInv
  BY FileLockInit
<1>2. FileLockInv /\ [LockNext]_lockVars => FileLockInv'
  BY FileLockStep
<1> QED
  BY <1>1, <1>2, PTL DEF LockSpec

\* withLock makes each mutation of a state file atomic, for every number of
\* processes, calls, crashes and failing accesses, until a stale cleanup removes
\* a fresh lock: the race of lock_cleanup_race is the only way to lose an update.
THEOREM FileLockAtomicUnlessRobbed == LockSpec => []UpdatesAreAtomic
BY FileLockInvariant, AtomicFromInv, PTL

\* What Scheduler and RunManager take for one step of the store: the mutation
\* of one call, applied to the state as it is when it is written.
OneMutation ==
  store' = store \/ \E p \in Procs : pc[p] = "save" /\ store' = store \cup {<<p, calls[p]>>}

\* The lock makes the read, the mutation and the write of a call one step of the
\* state file, until a stale cleanup removes a fresh lock.
THEOREM FileLockMutatesInOneStep == LockSpec => [][~robbed => OneMutation]_lockVars
<1>1. FileLockInv /\ [LockNext]_lockVars => [~robbed => OneMutation]_lockVars
  BY DEF FileLockInv, UpdateIsSound, ReadIsCurrent, OneMutation, lockVars, LockNext, Step, Create,
         Contend, Stamp, Load, Save, MutateThrows, ReleaseCheck, ReleaseUnlink, Inspect,
         Confirm, Unlink, Fails, StampFails, ReleaseFails, Age, Die, Terminating
<1> QED
  BY <1>1, FileLockInvariant, PTL DEF LockSpec

\* While a lock file is there that may be removed, at most one process is left
\* to remove it.
LoneCleaner ==
  Reclaimable(lock) => \A p, q \in Procs : pc[p] # "dead" /\ pc[q] # "dead" => p = q

\* Who is about to unlink a stale lock file finds it still stale.
RemoverIsAlone == \A p \in Procs : pc[p] = "unlink" => Reclaimable(lock)

NobodyRobbed == ~robbed /\ RemoverIsAlone

\* A process that died does nothing.
LEMMA DeadTakeNoStep ==
  ASSUME NEW p, pc[p] = "dead"
  PROVE  ~Step(p) /\ ~Fails(p)
BY DEF Step, Create, Contend, Stamp, Load, Save, MutateThrows, ReleaseCheck,
       ReleaseUnlink, Inspect, Confirm, Unlink, Fails, StampFails, ReleaseFails, Die

\* Only the second look of removeStaleLock leads to the unlink.
LEMMA WayToUnlink ==
  ASSUME LockTypeOK, NEW p \in Procs, Step(p) \/ Fails(p), pc'[p] = "unlink"
  PROVE  pc' = [pc EXCEPT ![p] = "unlink"] /\ lock' = lock /\ Reclaimable(lock)
BY DEF LockTypeOK, Goto, Step, Create, Contend, Stamp, Load, Save, MutateThrows,
       ReleaseCheck, ReleaseUnlink, Inspect, Confirm, Unlink, Fails, StampFails, ReleaseFails, Die

\* A process moves only itself, and a lock is robbed only by an unlink.
LEMMA StepMovesOne ==
  ASSUME LockTypeOK, NEW p \in Procs, Step(p) \/ Fails(p)
  PROVE  /\ \A q \in Procs : q # p => pc'[q] = pc[q]
         /\ robbed' # robbed => pc[p] = "unlink" /\ lock # NoLock /\ ~Reclaimable(lock)
BY DEF LockTypeOK, noted, Goto, Step, Create, Contend, Stamp, Load, Save, MutateThrows,
       ReleaseCheck, ReleaseUnlink, Inspect, Confirm, Unlink, Fails, StampFails, ReleaseFails, Die

\* Once a process has seen twice that the lock file is stale, no other is left
\* to remove it and create a fresh one before it unlinks.
LEMMA RemoverStep ==
  ASSUME LoneCleaner, FileLockInv, NobodyRobbed, [LockNext]_lockVars
  PROVE  NobodyRobbed'
<1>0. LockTypeOK /\ LockIsMade
  BY DEF FileLockInv
<1>1. RemoverIsAlone'
  <2> SUFFICES ASSUME NEW p \in Procs, pc'[p] = "unlink"
               PROVE  Reclaimable(lock)'
    BY Zenon DEF RemoverIsAlone
  <2>2. ASSUME NEW q \in Procs, Step(q) \/ Fails(q)
        PROVE  Reclaimable(lock) /\ lock' = lock /\ pc' = [pc EXCEPT ![p] = "unlink"] /\ pc[p] # "dead"
    <3>1. Reclaimable(lock)
      BY <1>0, <2>2, WayToUnlink, StepMovesOne DEF NobodyRobbed, RemoverIsAlone
    <3>2. pc[q] # "dead"
      BY <2>2, DeadTakeNoStep
    <3>3. p # q => pc[p] # "dead"
      BY <1>0, <2>2, StepMovesOne
    <3>4. p = q
      BY <3>1, <3>2, <3>3 DEF LoneCleaner
    <3> QED
      BY <1>0, <2>2, <3>1, <3>2, <3>4, WayToUnlink
  <2>3. ASSUME NEW q \in Procs, Step(q) \/ Fails(q)
        PROVE  Reclaimable(lock)'
    BY <1>0, <2>2, <2>3 DEF Reclaimable, OwnerAlive, LockTypeOK, LockIsMade
  <2>4. ASSUME Age
        PROVE  FALSE
    BY <2>4 DEF Age, NobodyRobbed, RemoverIsAlone, Reclaimable
  <2>5. CASE UNCHANGED lockVars
    BY <2>5 DEF lockVars, NobodyRobbed, RemoverIsAlone, Reclaimable, OwnerAlive
  <2> QED
    BY <2>3, <2>4, <2>5 DEF LockNext, Terminating
<1>2. ~robbed'
  BY <1>0, StepMovesOne DEF NobodyRobbed, RemoverIsAlone, LockNext, Age, Terminating, lockVars, noted
<1> QED
  BY <1>1, <1>2 DEF NobodyRobbed

\* No cleanup removes a fresh lock as long as stale lock files are left to one
\* process alone, however many work together otherwise: removeStaleLock looks
\* twice, and in between only another cleaner could replace the lock file.
THEOREM FileLockFreshLockSurvives ==
  LockSpec /\ []LoneCleaner => [](~robbed) /\ FreshLockSurvivesCleanup
<1>1. LockInit => FileLockInv /\ NobodyRobbed
  BY FileLockInit DEF LockInit, NobodyRobbed, RemoverIsAlone
<1>2. LoneCleaner /\ FileLockInv /\ NobodyRobbed /\ [LockNext]_lockVars
        => FileLockInv' /\ NobodyRobbed'
  BY FileLockStep, RemoverStep
<1>3. NobodyRobbed => [\A p \in Procs : pc[p] = "unlink" /\ pc'[p] = "idle" /\ lock # NoLock
                                         => Reclaimable(lock)]_lockVars
  BY DEF NobodyRobbed, RemoverIsAlone
<1>4. NobodyRobbed => ~robbed
  BY DEF NobodyRobbed
<1> QED
  BY <1>1, <1>2, <1>3, <1>4, PTL DEF LockSpec, FreshLockSurvivesCleanup

\* So mutations are atomic without reserve, for every number of processes, as
\* long as stale lock files are left to one process alone.
THEOREM FileLockAtomicForLoneCleaner ==
  LockSpec /\ []LoneCleaner => []UpdatesAreAtomic /\ [](MutualExclusion /\ NoLostUpdate)
<1>1. UpdatesAreAtomic /\ ~robbed => MutualExclusion /\ NoLostUpdate
  BY DEF UpdatesAreAtomic
<1> QED
  BY <1>1, FileLockAtomicUnlessRobbed, FileLockFreshLockSurvives, PTL

\* A lock file whose owner lives has a pid or is about to get it, until a write
\* fails.
StampedByTheLiving ==
  failures = 0 /\ lock # NoLock => lock.stamped \/ BeingStamped \/ pc[lock.owner] = "dead"

\* Each step preserves this.
LEMMA StampedStep ==
  ASSUME FileLockInv, StampedByTheLiving, [LockNext]_lockVars
  PROVE  StampedByTheLiving'
<1>0. LockTypeOK /\ LockIsMade
  BY DEF FileLockInv
<1> USE <1>0 DEF LockTypeOK, LockIsMade, Goto, Mine, BeingStamped, noted, StampedByTheLiving
<1>1. ASSUME NEW p \in Procs, Create(p)
      PROVE  StampedByTheLiving'
  <2>1. lock'.owner = p /\ lock'.call = calls'[p]
    BY <1>1 DEF Create, NoLock
  <2> QED
    BY <1>1, <2>1 DEF Create
<1>2. ASSUME NEW p \in Procs, Contend(p) \/ Load(p) \/ Save(p) \/ MutateThrows(p) \/ ReleaseCheck(p)
                                \/ Inspect(p) \/ Confirm(p)
      PROVE  StampedByTheLiving'
  BY <1>2 DEF Contend, Load, Save, MutateThrows, ReleaseCheck, Inspect, Confirm
<1>3. ASSUME NEW p \in Procs, Stamp(p)
      PROVE  StampedByTheLiving'
  BY <1>3 DEF Stamp, Stamped, Locks, NoLock
<1>4. ASSUME NEW p \in Procs, StampFails(p) \/ ReleaseFails(p)
      PROVE  failures' # 0
  BY <1>4 DEF StampFails, ReleaseFails, Failure
<1>5. ASSUME NEW p \in Procs, ReleaseUnlink(p) \/ Unlink(p)
      PROVE  StampedByTheLiving'
  BY <1>5 DEF ReleaseUnlink, Unlink
<1>6. ASSUME NEW p \in Procs, Die(p)
      PROVE  StampedByTheLiving'
  BY <1>6 DEF Die
<1>7. ASSUME Age
      PROVE  StampedByTheLiving'
  BY <1>7 DEF Age, Locks, NoLock
<1>8. ASSUME UNCHANGED lockVars
      PROVE  StampedByTheLiving'
  BY <1>8 DEF lockVars
<1> QED
  BY <1>1, <1>2, <1>3, <1>4, <1>5, <1>6, <1>7, <1>8 DEF LockNext, Step, Fails, Terminating

\* In particular two processes share a state file safely, whoever crashes and
\* whenever, as long as no access to the lock file fails.
THEOREM FileLockAtomicForTwo ==
  ASSUME \A p, q, r \in Procs : p = q \/ q = r \/ p = r
  PROVE  LockSpec /\ [](failures = 0) => []UpdatesAreAtomic /\ [](MutualExclusion /\ NoLostUpdate)
<1>1. LockInit => StampedByTheLiving
  BY DEF LockInit, StampedByTheLiving
<1>2. FileLockInv /\ StampedByTheLiving /\ [LockNext]_lockVars => StampedByTheLiving'
  BY StampedStep
<1>3. FileLockInv /\ StampedByTheLiving /\ failures = 0 => LoneCleaner
  <2> SUFFICES ASSUME FileLockInv, StampedByTheLiving, failures = 0, Reclaimable(lock)
               PROVE  lock.owner \in Procs /\ pc[lock.owner] = "dead"
    BY DEF LoneCleaner
  <2> QED
    BY DEF FileLockInv, LockIsMade, StampedByTheLiving, Reclaimable, OwnerAlive
<1> QED
  BY <1>1, <1>2, <1>3, FileLockInvariant, FileLockAtomicForLoneCleaner, PTL DEF LockSpec

-----------------------------------------------------------------------------
(* RunManager: any number of managers, runs, steps, restarts and crashes,  *)
(* and any dependencies.                                                   *)

\* The calls that may be in progress.
Calls == [phase : {"parent", "deps", "write", "event"}, target : Targets,
          to : RunStatus \cup StepStatus,
          seen : RunStatus \cup StepStatus \cup {"absent"}, deps : SUBSET StepIds]

\* Types.  TypeOK types what a manager has, not the function call itself.
RecordTyped == RunTypeOK /\ call \in [Managers -> Calls \cup {NoCall}]

\* What was read still holds, but for a queued run that was put on hold.
HeldSince(status, now) == now = status \/ (status = "queued" /\ now = "blocked")

\* What the call c for a run may rely on: nobody but HoldRun has moved the run
\* since it was read, or written.
RunCallIsSound(c) ==
  /\ c.phase \in {"write", "event"}
  /\ c.to \in RunStatus
  /\ c.seen = "absent" => c.to = "queued"
  /\ (c.phase = "write" /\ c.seen # "absent") =>
       LegalRunStep(c.seen, c.to) /\ HeldSince(c.seen, run[c.target.run])
  /\ c.phase = "event" => HeldSince(c.to, run[c.target.run])

\* What the call c for a step may rely on: the step is as it was read, the
\* run has been running since the check, and the dependencies that have been
\* read have succeeded.
StepCallIsSound(c) ==
  /\ c.target.run = RunOf[c.target.step]
  /\ c.to \in StepStatus
  /\ c.seen = "absent" => c.to = "pending" /\ c.phase \in {"write", "event"}
  /\ (c.phase # "event" /\ c.seen # "absent") => step[c.target.step] = c.seen
  /\ (c.phase \in {"deps", "write"} /\ c.seen # "absent") =>
       /\ run[c.target.run] = "running" /\ LegalStepStep(c.seen, c.to)
       /\ c.to = "running" =>
            \A d \in DependsOn[c.target.step] \ c.deps : step[d] = "succeeded"
  /\ c.phase = "deps" => c.to = "running"
  /\ c.phase # "deps" => c.deps = {}
  /\ c.phase = "event" => step[c.target.step] = c.to

\* The event that c is about to append is later in the life of its target
\* than all that are logged.
EventIsNew(c) ==
  c.phase = "event" =>
    \A k \in DOMAIN log : log[k].target = c.target => Rank(log[k].to) < Rank(c.to)

\* A call that is in progress has what its phase may rely on.
CallIsSound(c) ==
  c.phase # "idle" =>
    /\ IsStep(c.target) => StepCallIsSound(c)
    /\ ~IsStep(c.target) => RunCallIsSound(c)
    /\ EventIsNew(c)

CallsAreSound == \A m \in Managers : CallIsSound(call[m])

\* Nothing is logged of what was never created.
LoggedExists == \A k \in DOMAIN log : StatusOf(log[k].target) # "absent"

\* Inductive while the calls for one run do not overlap.
RunManagerInv ==
  /\ RecordTyped
  /\ CallsAreSound
  /\ StartedAfterDependencies
  /\ LogIsLifecycle
  /\ LoggedExists

\* No two calls for one run at a time.
RunsAreSerial ==
  \A m, n \in Managers :
    m = n \/ Idle(m) \/ Idle(n) \/ call[m].target.run # call[n].target.run

\* Legal transitions go forward in the life of a run or step.
LEMMA RankRises ==
  /\ \A from, to : LegalRunStep(from, to) => Rank(from) < Rank(to)
  /\ \A from, to : LegalStepStep(from, to) => Rank(from) < Rank(to)
BY DEF LegalRunStep, RunSuccessors, LegalStepStep, StepSuccessors, Rank, TerminalRun

\* Ranks are numbers.
LEMMA RankType == \A status : Rank(status) \in Nat
BY DEF Rank

\* A log with an event appended, index by index.
LEMMA EventAppended ==
  ASSUME log \in Seq(Events), NEW e \in Events, log' = Append(log, e)
  PROVE  /\ log' \in Seq(Events)
         /\ \A k \in DOMAIN log' : (k \in DOMAIN log /\ log'[k] = log[k]) \/ log'[k] = e
         /\ \A j, k \in DOMAIN log' : j < k => j \in DOMAIN log /\ log'[j] = log[j]
         /\ \A k \in DOMAIN log' : k \in DOMAIN log \/ (k = Len(log) + 1 /\ log'[k] = e)
OBVIOUS

\* The invariant holds initially.
LEMMA RunManagerInit ==
  ASSUME RunInit
  PROVE  RunManagerInv
<1> USE DEF RunInit
<1>1. RunTypeOK
  BY RunManagerAssumption DEF RunTypeOK
<1>2. call \in [Managers -> Calls \cup {NoCall}]
  OBVIOUS
<1>3. CallsAreSound
  BY DEF CallsAreSound, CallIsSound, NoCall
<1>4. StartedAfterDependencies
  BY DEF StartedAfterDependencies
<1>5. LogIsLifecycle /\ LoggedExists
  BY DEF LogIsLifecycle, LoggedExists
<1> QED
  BY <1>1, <1>2, <1>3, <1>4, <1>5 DEF RunManagerInv, RecordTyped

\* A status rises through its life.
Rises(before, after) ==
  after = before \/ before = "absent" \/ (Rank(before) < Rank(after) /\ after # "absent")

\* The fields of a logged event.
LEMMA EventFields ==
  ASSUME NEW e \in Events
  PROVE  e.target \in Targets /\ e.to \in RunStatus \cup StepStatus /\ e.number \in Nat
BY DEF Events

\* A log stays faithful when no status falls.
LEMMA LogKept ==
  ASSUME log \in Seq(Events), LogIsLifecycle, LoggedExists, log' = log,
         \A t \in Targets : Rises(StatusOf(t), StatusOf(t)')
  PROVE  LogIsLifecycle' /\ LoggedExists'
<1>1. ASSUME NEW k \in DOMAIN log
      PROVE  /\ StatusOf(log[k].target)' # "absent"
             /\ Rank(log[k].to) < Rank(StatusOf(log[k].target)')
                  \/ log[k].to = StatusOf(log[k].target)'
  <2>0. log[k] \in Events
    OBVIOUS
  <2>1. PICK t \in Targets : t = log[k].target
    BY <2>0, Zenon, EventFields
  <2>2. t = (log[k].target)'
    BY <2>1
  <2>3. StatusOf(t) # "absent"
    BY <2>1 DEF LoggedExists
  <2>4. Rank(log[k].to) < Rank(StatusOf(t)) \/ log[k].to = StatusOf(t)
    BY <2>1 DEF LogIsLifecycle
  <2>5. Rises(StatusOf(t), StatusOf(t)')
    OBVIOUS
  <2>6. StatusOf(log[k].target)' = StatusOf(t)'
    BY <2>2 DEF StatusOf, IsStep
  <2> QED
    BY <2>3, <2>4, <2>5, <2>6, RankType DEF Rises
<1>2. \A k \in DOMAIN log' : StatusOf(log[k].target)' # "absent"
  BY <1>1
<1> QED
  BY <1>1 DEF LogIsLifecycle, LoggedExists

\* What a call may rely on, if nobody writes its run or its step meanwhile.
LEMMA CallKept ==
  ASSUME NEW c \in Calls \cup {NoCall}, CallIsSound(c), log' = log,
         c.phase # "idle" =>
           /\ run'[c.target.run] = run[c.target.run]
           /\ IsStep(c.target) => step'[c.target.step] = step[c.target.step],
         \A d \in StepIds : step[d] = "succeeded" => step'[d] = "succeeded"
  PROVE  CallIsSound(c)'
<1> SUFFICES ASSUME c.phase # "idle"
             PROVE  CallIsSound(c)'
  BY DEF CallIsSound
<1>1. c \in Calls
  BY DEF NoCall
<1>2. EventIsNew(c)'
  BY DEF CallIsSound, EventIsNew
<1>3. ASSUME IsStep(c.target)
      PROVE  StepCallIsSound(c)'
  <2>1. c.target.step \in StepIds
    BY <1>1, <1>3 DEF Calls, Targets, IsStep
  <2>2. DependsOn[c.target.step] \subseteq StepIds
    BY <2>1, RunManagerAssumption
  <2> QED
    BY <1>3, <2>2 DEF CallIsSound, StepCallIsSound
<1>4. ASSUME ~IsStep(c.target)
      PROVE  RunCallIsSound(c)'
  BY <1>4 DEF CallIsSound, RunCallIsSound, HeldSince
<1> QED
  BY <1>2, <1>3, <1>4 DEF CallIsSound, IsStep

\* A step of one manager that writes and logs nothing.
LEMMA QuietStep ==
  ASSUME RunManagerInv, NEW m \in Managers,
         UNCHANGED <<run, step, log>>, RecordTyped',
         NEW new \in Calls \cup {NoCall}, call' = [call EXCEPT ![m] = new], CallIsSound(new)
  PROVE  RunManagerInv'
<1>1. ASSUME NEW c \in Calls \cup {NoCall}, CallIsSound(c)
      PROVE  CallIsSound(c)'
  BY <1>1, CallKept
<1>2. call \in [Managers -> Calls \cup {NoCall}] /\ CallsAreSound
  BY DEF RunManagerInv, RecordTyped
<1>3. ASSUME NEW n \in Managers
      PROVE  CallIsSound(call[n])'
  <2>1. PICK c \in Calls \cup {NoCall} : c = call'[n] /\ CallIsSound(c)
    BY <1>2 DEF CallsAreSound
  <2>2. CallIsSound(c)'
    BY <1>1, <2>1
  <2> QED
    BY <2>1, <2>2
<1>4. StartedAfterDependencies'
  BY DEF RunManagerInv, StartedAfterDependencies
<1>5. LogIsLifecycle' /\ LoggedExists'
  BY DEF RunManagerInv, LogIsLifecycle, LoggedExists, StatusOf, IsStep
<1> QED
  BY <1>3, <1>4, <1>5 DEF RunManagerInv, CallsAreSound

\* The types, from those of what a step changes.
LEMMA TypesKept ==
  ASSUME run' \in [RunIds -> RunStatus \cup {"absent"}],
         step' \in [StepIds -> StepStatus \cup {"absent"}],
         log' \in Seq(Events), sequence' \in [Managers -> Nat],
         call' \in [Managers -> Calls \cup {NoCall}],
         restarts' \in 0..MaxRestarts, crashes' \in 0..MaxCrashes
  PROVE  RecordTyped'
<1>1. ASSUME NEW m \in Managers
      PROVE  call'[m] \in Calls \cup {NoCall}
  OBVIOUS
<1>2. Calls \subseteq [phase : Phases, target : Targets,
                       to : RunStatus \cup StepStatus,
                       seen : RunStatus \cup StepStatus \cup {"absent"},
                       deps : SUBSET StepIds]
  BY DEF Calls, Phases
<1> QED
  BY <1>1, <1>2 DEF RecordTyped, RunTypeOK

\* A step that changes one call only, and how.
CallBecomes(m, new) ==
  /\ UNCHANGED <<run, step, log>>
  /\ new \in Calls \cup {NoCall}
  /\ call' = [call EXCEPT ![m] = new]
  /\ CallIsSound(new)
  /\ sequence' \in [Managers -> Nat]
  /\ restarts' \in 0..MaxRestarts /\ crashes' \in 0..MaxCrashes

\* Such a step preserves the invariant.
LEMMA CallBecomesKeeps ==
  ASSUME RunManagerInv, NEW m \in Managers, NEW new, CallBecomes(m, new)
  PROVE  RunManagerInv'
<1>1. RecordTyped'
  <2>1. RunTypeOK /\ call \in [Managers -> Calls \cup {NoCall}]
    BY DEF RunManagerInv, RecordTyped
  <2>2. /\ run' \in [RunIds -> RunStatus \cup {"absent"}]
        /\ step' \in [StepIds -> StepStatus \cup {"absent"}]
        /\ log' \in Seq(Events)
        /\ call' \in [Managers -> Calls \cup {NoCall}]
    BY <2>1 DEF CallBecomes, RunTypeOK
  <2> QED
    BY <2>2, TypesKept DEF CallBecomes
<1> QED
  BY <1>1, QuietStep DEF CallBecomes

\* What the types say of one call.
LEMMA CallFields ==
  ASSUME NEW c \in Calls
  PROVE  /\ c.phase \in {"parent", "deps", "write", "event"} /\ c.target \in Targets
         /\ c.to \in RunStatus \cup StepStatus
         /\ c.seen \in RunStatus \cup StepStatus \cup {"absent"} /\ c.deps \subseteq StepIds
BY DEF Calls

\* A call in progress is typed and sound.
LEMMA CallInProgress ==
  ASSUME RunManagerInv, NEW m \in Managers, ~Idle(m)
  PROVE  call[m] \in Calls /\ CallIsSound(call[m])
BY DEF RunManagerInv, RecordTyped, CallsAreSound, Idle, NoCall

\* A call that starts with what it has read and checked is sound.
LEMMA Started ==
  ASSUME RunManagerInv, NEW m \in Managers,
         NEW target \in Targets, NEW seen, NEW to, NEW phase,
         Start(m, target, seen, to, phase), phase \in {"parent", "write"},
         to \in RunStatus \cup StepStatus,
         seen \in RunStatus \cup StepStatus \cup {"absent"},
         IsStep(target) => /\ target.run = RunOf[target.step] /\ to \in StepStatus
                              /\ IF seen = "absent" THEN to = "pending" /\ phase = "write"
                                                    ELSE phase = "parent" /\ step[target.step] = seen,
         ~IsStep(target) => /\ phase = "write" /\ to \in RunStatus
                               /\ IF seen = "absent" THEN to = "queued"
                                  ELSE LegalRunStep(seen, to) /\ run[target.run] = seen
  PROVE  RunManagerInv'
<1>1. PICK new : new = [phase |-> phase, target |-> target, to |-> to, seen |-> seen, deps |-> {}]
  OBVIOUS
<1>2. new \in Calls
  BY <1>1 DEF Calls
<1>3. /\ new.phase = phase /\ new.target = target /\ new.to = to /\ new.seen = seen
      /\ new.deps = {}
  BY <1>1
<1>4. EventIsNew(new)
  BY <1>3 DEF EventIsNew
<1>5. IsStep(target) => StepCallIsSound(new)
  BY <1>3 DEF StepCallIsSound
<1>6. ~IsStep(target) => RunCallIsSound(new)
  BY <1>3 DEF RunCallIsSound, HeldSince
<1>7. CallIsSound(new)
  BY <1>3, <1>4, <1>5, <1>6 DEF CallIsSound
<1>8. call' = [call EXCEPT ![m] = new] /\ UNCHANGED <<run, step, log, sequence, restarts, crashes>>
  BY <1>1 DEF Start
<1>9. RunTypeOK
  BY DEF RunManagerInv, RecordTyped
<1>10. CallBecomes(m, new)
  BY <1>2, <1>7, <1>8, <1>9 DEF CallBecomes, RunTypeOK
<1> QED
  BY <1>10, CallBecomesKeeps

\* The targets of runs and steps.
LEMMA TargetsAreTargets ==
  /\ \A r \in RunIds : /\ RunTarget(r) \in Targets /\ ~IsStep(RunTarget(r))
                       /\ RunTarget(r).run = r
  /\ \A s \in StepIds : /\ StepTarget(s) \in Targets /\ IsStep(StepTarget(s))
                        /\ StepTarget(s).step = s /\ StepTarget(s).run = RunOf[s]
BY RunManagerAssumption DEF RunTarget, StepTarget, Targets, IsStep

\* CreateRun, MoveRun, CreateStep and MoveStep preserve the invariant.
LEMMA StartSteps ==
  ASSUME RunManagerInv, NEW m \in Managers,
         \/ \E r \in RunIds : CreateRun(m, r) \/ \E to \in RunStatus : MoveRun(m, r, to)
         \/ \E s \in StepIds : CreateStep(m, s) \/ \E to \in StepStatus : MoveStep(m, s, to)
  PROVE  RunManagerInv'
<1>0. RunTypeOK
  BY DEF RunManagerInv, RecordTyped
<1>s. {"queued"} \subseteq RunStatus /\ {"pending"} \subseteq StepStatus
  BY DEF RunStatus, StepStatus
<1>1. ASSUME NEW r \in RunIds, CreateRun(m, r)
      PROVE  RunManagerInv'
  BY <1>1, <1>s, TargetsAreTargets, Started DEF CreateRun
<1>2. ASSUME NEW r \in RunIds, NEW to \in RunStatus, MoveRun(m, r, to)
      PROVE  RunManagerInv'
  <2>1. LegalRunStep(run[r], to) /\ run[r] \in RunStatus \cup {"absent"} /\ run[r] # "absent"
    BY <1>0, <1>2 DEF MoveRun, RunTypeOK, LegalRunStep, RunSuccessors
  <2> QED
    BY <1>2, <2>1, TargetsAreTargets, Started DEF MoveRun
<1>3. ASSUME NEW s \in StepIds, CreateStep(m, s)
      PROVE  RunManagerInv'
  BY <1>3, <1>s, TargetsAreTargets, Started DEF CreateStep
<1>4. ASSUME NEW s \in StepIds, NEW to \in StepStatus, MoveStep(m, s, to)
      PROVE  RunManagerInv'
  <2>1. step[s] \in StepStatus
    BY <1>0, <1>4 DEF MoveStep, RunTypeOK
  <2> QED
    BY <1>4, <2>1, TargetsAreTargets, Started DEF MoveStep
<1> QED
  BY <1>1, <1>2, <1>3, <1>4

\* No call relies on nothing.
LEMMA NoCallIsSound == CallIsSound(NoCall)
BY DEF CallIsSound, NoCall

\* A call that throws or returns.
LEMMA CallEnds ==
  ASSUME RunManagerInv, NEW m \in Managers, Throw(m), UNCHANGED <<run, step, log>>,
         sequence' \in [Managers -> Nat], restarts' \in 0..MaxRestarts, crashes' \in 0..MaxCrashes
  PROVE  CallBecomes(m, NoCall)
BY NoCallIsSound DEF CallBecomes, Throw

\* Restarts and crashes preserve the invariant.
LEMMA EndSteps ==
  ASSUME RunManagerInv, NEW m \in Managers, Restart(m) \/ Crash(m)
  PROVE  RunManagerInv'
<1>1. RunTypeOK
  BY DEF RunManagerInv, RecordTyped
<1>2. /\ sequence' \in [Managers -> Nat] /\ UNCHANGED <<run, step, log>> /\ Throw(m)
      /\ restarts' \in 0..MaxRestarts /\ crashes' \in 0..MaxCrashes
  <2>1. NewInstance(m)
    BY DEF Restart, Crash
  <2>2. restarts' \in 0..MaxRestarts /\ crashes' \in 0..MaxCrashes
    <3>1. /\ MaxRestarts \in Nat /\ MaxCrashes \in Nat
          /\ restarts \in 0..MaxRestarts /\ crashes \in 0..MaxCrashes
      BY <1>1, RunManagerAssumption DEF RunTypeOK
    <3> QED
      BY <3>1 DEF Restart, Crash
  <2> QED
    BY <1>1, <2>1, <2>2 DEF NewInstance, RunTypeOK
<1> QED
  BY <1>2, CallEnds, CallBecomesKeeps

\* What a start has made sure of when it has yet to read deps.
DependenciesHold(c, deps) ==
  c.to = "running" => \A d \in DependsOn[c.target.step] \ deps : step[d] = "succeeded"

\* A call goes on to its next phase, with the dependencies it has yet to read.
LEMMA CallContinues ==
  ASSUME RunManagerInv, NEW m \in Managers,
         NEW c \in Calls, c = call[m], NEW phase \in {"deps", "write"}, NEW deps \in SUBSET StepIds,
         call' = [call EXCEPT ![m] = [c EXCEPT !.phase = phase, !.deps = deps]],
         UNCHANGED <<run, step, log, sequence, restarts, crashes>>,
         IsStep(c.target), c.seen # "absent", c.phase # "event", c.to \in StepStatus,
         c.target.run = RunOf[c.target.step], step[c.target.step] = c.seen,
         run[c.target.run] = "running", LegalStepStep(c.seen, c.to),
         DependenciesHold(c, deps),
         phase = "deps" => c.to = "running",
         phase = "write" => deps = {}
  PROVE  RunManagerInv'
<1>1. PICK new : new = [c EXCEPT !.phase = phase, !.deps = deps]
  OBVIOUS
<1>2. /\ new \in Calls /\ new.phase = phase /\ new.target = c.target /\ new.to = c.to
      /\ new.seen = c.seen /\ new.deps = deps
  BY <1>1 DEF Calls
<1>3. CallIsSound(new)
  BY <1>2 DEF CallIsSound, StepCallIsSound, EventIsNew, DependenciesHold
<1>4. RunTypeOK
  BY DEF RunManagerInv, RecordTyped
<1>5. CallBecomes(m, new)
  BY <1>1, <1>2, <1>3, <1>4 DEF CallBecomes, RunTypeOK
<1> QED
  BY <1>5, CallBecomesKeeps

\* ReadParent, ReadDependency and DependenciesRead preserve the invariant: they
\* establish what the next phase relies on.
LEMMA CheckSteps ==
  ASSUME RunManagerInv, NEW m \in Managers,
         \/ ReadParent(m)
         \/ DependenciesRead(m)
         \/ \E d \in StepIds : ReadDependency(m, d)
  PROVE  RunManagerInv'
<1>0. PICK c \in Calls : c = call[m] /\ CallIsSound(c)
  <2>1. ~Idle(m)
    BY DEF ReadParent, DependenciesRead, ReadDependency, At, Idle
  <2> QED
    BY <2>1, CallInProgress
<1>1. c.phase \in {"parent", "deps"}
  BY <1>0 DEF ReadParent, DependenciesRead, ReadDependency, At
<1>2. IsStep(c.target) /\ StepCallIsSound(c)
  BY <1>0, <1>1 DEF CallIsSound, RunCallIsSound
<1>3. c.target.step \in StepIds /\ DependsOn[c.target.step] \in SUBSET StepIds /\ c.deps \in SUBSET StepIds
  BY <1>2, CallFields, RunManagerAssumption DEF Targets, IsStep
<1>4. /\ c.seen # "absent" /\ c.to \in StepStatus /\ c.target.run = RunOf[c.target.step]
      /\ step[c.target.step] = c.seen
  BY <1>1, <1>2 DEF StepCallIsSound
<1>5. ASSUME Throw(m), UNCHANGED <<run, step, log, sequence, restarts, crashes>>
      PROVE  RunManagerInv'
  <2>1. RunTypeOK
    BY DEF RunManagerInv, RecordTyped
  <2> QED
    BY <1>5, <2>1, CallEnds, CallBecomesKeeps DEF RunTypeOK
<1>u. UNCHANGED <<run, step, log, sequence, restarts, crashes>>
  BY DEF ReadParent, DependenciesRead, ReadDependency
<1>6. CASE ReadParent(m)
  <2>1. CASE Throw(m)
    BY <1>5, <1>u, <2>1
  <2>2. CASE ~Throw(m)
    <3>1. run[c.target.run] = "running" /\ LegalStepStep(c.seen, c.to)
      BY <1>0, <1>6, <2>2 DEF ReadParent
    <3>2. c.phase = "parent"
      BY <1>0, <1>6 DEF ReadParent, At
    <3>3. CASE c.to = "running"
      <4>1. call' = [call EXCEPT ![m] = [c EXCEPT !.phase = "deps", !.deps = DependsOn[c.target.step]]]
        BY <1>0, <1>6, <3>1, <3>3 DEF ReadParent
      <4>2. DependenciesHold(c, DependsOn[c.target.step])
        BY DEF DependenciesHold
      <4> QED
        BY <1>0, <1>2, <1>3, <1>4, <1>u, <3>1, <3>2, <3>3, <4>1, <4>2, CallContinues
    <3>4. CASE c.to # "running"
      <4>2. c.deps = {}
        BY <1>2, <3>2 DEF StepCallIsSound
      <4>3. [c EXCEPT !.phase = "write", !.deps = {}] = [c EXCEPT !.phase = "write"]
        BY <4>2 DEF Calls
      <4>1. call' = [call EXCEPT ![m] = [c EXCEPT !.phase = "write", !.deps = {}]]
        BY <1>0, <1>6, <3>1, <3>4, <4>3 DEF ReadParent, Continue
      <4>4. DependenciesHold(c, {})
        BY <3>4 DEF DependenciesHold
      <4> QED
        BY <1>0, <1>2, <1>3, <1>4, <1>u, <3>1, <3>2, <4>1, <4>4, CallContinues
    <3> QED
      BY <3>3, <3>4
  <2> QED
    BY <2>1, <2>2
<1>7. CASE DependenciesRead(m)
  <2>1. c.phase = "deps" /\ c.deps = {}
    BY <1>0, <1>7 DEF DependenciesRead, At
  <2>2. [c EXCEPT !.phase = "write", !.deps = {}] = [c EXCEPT !.phase = "write"]
    BY <2>1 DEF Calls
  <2>3. call' = [call EXCEPT ![m] = [c EXCEPT !.phase = "write", !.deps = {}]]
    BY <1>0, <1>7, <2>2 DEF DependenciesRead, Continue
  <2>4. /\ run[c.target.run] = "running" /\ LegalStepStep(c.seen, c.to)
        /\ DependenciesHold(c, {})
    BY <1>2, <1>4, <2>1 DEF StepCallIsSound, DependenciesHold
  <2> QED
    BY <1>0, <1>2, <1>3, <1>4, <1>u, <2>1, <2>3, <2>4, CallContinues
<1>8. ASSUME NEW d \in StepIds, ReadDependency(m, d)
      PROVE  RunManagerInv'
  <2>1. c.phase = "deps" /\ d \in c.deps
    BY <1>0, <1>8 DEF ReadDependency, At
  <2>2. CASE Throw(m)
    BY <1>5, <1>u, <2>2
  <2>3. CASE ~Throw(m)
    <3>1. step[d] = "succeeded"
      BY <1>8, <2>3 DEF ReadDependency, Satisfied
    <3>2. [c EXCEPT !.phase = "deps", !.deps = c.deps \ {d}] = [c EXCEPT !.deps = @ \ {d}]
      BY <2>1 DEF Calls
    <3>3. call' = [call EXCEPT ![m] = [c EXCEPT !.phase = "deps", !.deps = c.deps \ {d}]]
      BY <1>0, <1>8, <2>3, <3>2 DEF ReadDependency
    <3>4. /\ run[c.target.run] = "running" /\ LegalStepStep(c.seen, c.to) /\ c.to = "running"
          /\ DependenciesHold(c, c.deps \ {d})
      BY <1>2, <1>4, <2>1, <3>1 DEF StepCallIsSound, DependenciesHold
    <3>5. c.deps \ {d} \in SUBSET StepIds
      BY <1>3
    <3> QED
      BY <1>0, <1>2, <1>3, <1>4, <1>u, <2>1, <3>3, <3>4, <3>5, CallContinues
  <2> QED
    BY <2>2, <2>3
<1> QED
  BY <1>6, <1>7, <1>8

\* HoldRun leaves every call what it relies on.
LEMMA HoldKeepsCall ==
  ASSUME RunTypeOK, NEW r \in RunIds, HoldRun(r),
         NEW c \in Calls \cup {NoCall}, CallIsSound(c)
  PROVE  CallIsSound(c)'
<1> SUFFICES ASSUME c.phase # "idle"
             PROVE  CallIsSound(c)'
  BY DEF CallIsSound
<1>1. c \in Calls /\ c.target.run \in RunIds
  BY DEF NoCall, Calls, Targets
<1>2. /\ step' = step /\ log' = log /\ run[r] = "queued"
      /\ run'[c.target.run] = IF c.target.run = r THEN "blocked" ELSE run[c.target.run]
  BY <1>1 DEF HoldRun, RunTypeOK
<1>3. EventIsNew(c)'
  BY <1>2 DEF CallIsSound, EventIsNew
<1>4. ASSUME IsStep(c.target)
      PROVE  StepCallIsSound(c)'
  BY <1>2, <1>4 DEF CallIsSound, StepCallIsSound
<1>5. ASSUME ~IsStep(c.target)
      PROVE  RunCallIsSound(c)'
  BY <1>2, <1>5 DEF CallIsSound, RunCallIsSound, HeldSince, LegalRunStep, RunSuccessors
<1> QED
  BY <1>3, <1>4, <1>5 DEF CallIsSound, IsStep

\* HoldRun preserves the invariant.
LEMMA HoldStep ==
  ASSUME RunManagerInv, NEW r \in RunIds, HoldRun(r)
  PROVE  RunManagerInv'
<1>0. RunTypeOK /\ call \in [Managers -> Calls \cup {NoCall}] /\ CallsAreSound
  BY DEF RunManagerInv, RecordTyped
<1>1. UNCHANGED <<step, log, sequence, call, restarts, crashes>>
  BY DEF HoldRun
<1>2. RecordTyped'
  <2>1. run' \in [RunIds -> RunStatus \cup {"absent"}]
    BY <1>0 DEF HoldRun, RunTypeOK, RunStatus
  <2> QED
    BY <1>0, <1>1, <2>1, TypesKept DEF RunTypeOK
<1>3. ASSUME NEW n \in Managers
      PROVE  CallIsSound(call[n])'
  <2>1. PICK c \in Calls \cup {NoCall} : c = call[n] /\ CallIsSound(c)
    BY <1>0 DEF CallsAreSound
  <2>2. CallIsSound(c)' /\ c = call'[n]
    BY <1>0, <1>1, <2>1, HoldKeepsCall
  <2> QED
    BY <2>2
<1>4. StartedAfterDependencies'
  BY <1>1 DEF RunManagerInv, StartedAfterDependencies
<1>5. LogIsLifecycle' /\ LoggedExists'
  <2>1. ASSUME NEW t \in Targets
        PROVE  Rises(StatusOf(t), StatusOf(t)')
    <3>1. t.run \in RunIds
      BY DEF Targets
    <3>2. Rank("queued") < Rank("blocked")
      BY DEF Rank
    <3>3. run'[t.run] = run[t.run] \/ (run[t.run] = "queued" /\ run'[t.run] = "blocked")
      BY <1>0, <3>1 DEF HoldRun, RunTypeOK
    <3> QED
      BY <1>1, <3>2, <3>3 DEF StatusOf, IsStep, Rises
  <2> QED
    BY <1>0, <1>1, <2>1, LogKept DEF RunManagerInv, RunTypeOK
<1> QED
  BY <1>2, <1>3, <1>4, <1>5 DEF RunManagerInv, CallsAreSound

\* What a write does that is not refused.
RunWritten(c) ==
  /\ ~IsStep(c.target) /\ c.target.run \in RunIds /\ c.to \in RunStatus
  /\ run' = [run EXCEPT ![c.target.run] = c.to] /\ step' = step
  /\ run[c.target.run] \notin TerminalRun
  /\ Rises(run[c.target.run], c.to) /\ run[c.target.run] # c.to

StepWritten(c) ==
  /\ IsStep(c.target) /\ c.target.step \in StepIds /\ c.to \in StepStatus
  /\ c.target.run = RunOf[c.target.step]
  /\ step' = [step EXCEPT ![c.target.step] = c.to] /\ run' = run
  /\ step[c.target.step] \notin TerminalStep
  /\ step[c.target.step] # "absent" => run[c.target.run] = "running"
  /\ Rises(step[c.target.step], c.to) /\ step[c.target.step] # c.to
  /\ c.to \in {"running", "succeeded", "failed"} =>
       \A d \in DependsOn[c.target.step] : step[d] = "succeeded"

\* A write is refused, or it is a legal move of what is stored: what was checked
\* some store operations ago still holds.
LEMMA WriteEffect ==
  ASSUME RunManagerInv, NEW m \in Managers, Write(m),
         NEW c \in Calls, c = call[m], CallIsSound(c)
  PROVE  \/ Throw(m) /\ UNCHANGED <<run, step>>
         \/ Continue(m, "event") /\ c.phase = "write" /\ (RunWritten(c) \/ StepWritten(c))
<1>1. c.phase = "write"
  BY DEF Write, At
<1>2. c.to # "absent" /\ c.target \in Targets
  BY CallFields DEF RunStatus, StepStatus, TerminalRun, TerminalStep
<1>3. CASE IsStep(c.target)
  <2>1. StepCallIsSound(c) /\ c.target.step \in StepIds
    BY <1>1, <1>2, <1>3 DEF CallIsSound, Targets, IsStep
  <2>2. CASE c.seen = "absent" /\ step[c.target.step] # "absent"
    BY <1>3, <2>2 DEF Write
  <2>3. CASE ~(c.seen = "absent" /\ step[c.target.step] # "absent")
    <3>1. Continue(m, "event") /\ run' = run /\ step' = [step EXCEPT ![c.target.step] = c.to]
      BY <1>3, <2>3 DEF Write
    <3>2. CASE c.seen = "absent"
      <4>1. step[c.target.step] = "absent" /\ c.to = "pending"
        BY <2>1, <2>3, <3>2 DEF StepCallIsSound
      <4> QED
        BY <1>1, <1>3, <2>1, <3>1, <4>1
           DEF StepWritten, StepCallIsSound, Rises, StepStatus, TerminalStep
    <3>3. CASE c.seen # "absent"
      <4>1. /\ step[c.target.step] = c.seen /\ run[c.target.run] = "running"
            /\ LegalStepStep(c.seen, c.to)
            /\ c.to = "running" => \A d \in DependsOn[c.target.step] : step[d] = "succeeded"
        BY <1>1, <2>1, <3>3 DEF StepCallIsSound
      <4>2. c.to \in {"succeeded", "failed"} => c.seen = "running"
        BY <4>1 DEF LegalStepStep, StepSuccessors
      <4>3. c.seen \notin TerminalStep
        BY <4>1 DEF LegalStepStep, StepSuccessors, TerminalStep
      <4>4. c.seen = "running" => \A d \in DependsOn[c.target.step] : step[d] = "succeeded"
        BY <2>1, <4>1 DEF RunManagerInv, StartedAfterDependencies
      <4>5. Rises(c.seen, c.to) /\ c.seen # c.to
        BY <1>2, <4>1, RankRises, RankType DEF Rises
      <4> QED
        BY <1>1, <1>3, <2>1, <3>1, <4>1, <4>2, <4>3, <4>4, <4>5 DEF StepWritten, StepCallIsSound
    <3> QED
      BY <3>2, <3>3
  <2> QED
    BY <2>2, <2>3
<1>4. CASE ~IsStep(c.target)
  <2>1. RunCallIsSound(c) /\ c.target.run \in RunIds
    BY <1>1, <1>2, <1>4 DEF CallIsSound, Targets
  <2>2. CASE c.seen = "absent" /\ run[c.target.run] # "absent"
    BY <1>4, <2>2 DEF Write
  <2>3. CASE ~(c.seen = "absent" /\ run[c.target.run] # "absent")
    <3>1. Continue(m, "event") /\ step' = step /\ run' = [run EXCEPT ![c.target.run] = c.to]
      BY <1>4, <2>3 DEF Write
    <3>2. CASE c.seen = "absent"
      <4>1. run[c.target.run] = "absent" /\ c.to = "queued"
        BY <2>1, <2>3, <3>2 DEF RunCallIsSound
      <4> QED
        BY <1>1, <1>4, <2>1, <3>1, <4>1
           DEF RunWritten, RunCallIsSound, Rises, RunStatus, TerminalRun
    <3>3. CASE c.seen # "absent"
      <4>1. LegalRunStep(c.seen, c.to) /\ HeldSince(c.seen, run[c.target.run])
        BY <1>1, <2>1, <3>3 DEF RunCallIsSound
      <4>2. run[c.target.run] \notin TerminalRun
        BY <4>1 DEF HeldSince, LegalRunStep, RunSuccessors, TerminalRun
      <4>3. Rises(run[c.target.run], c.to) /\ run[c.target.run] # c.to
        BY <1>2, <4>1
           DEF Rises, HeldSince, LegalRunStep, RunSuccessors, TerminalRun, Rank
      <4> QED
        BY <1>1, <1>4, <2>1, <3>1, <4>2, <4>3 DEF RunWritten, RunCallIsSound
    <3> QED
      BY <3>2, <3>3
  <2> QED
    BY <2>2, <2>3
<1> QED
  BY <1>3, <1>4

\* A write makes a legal move, and keeps the record consistent.
LEMMA WriteKeepsRecord ==
  ASSUME RunManagerInv, NEW c \in Calls, RunWritten(c) \/ StepWritten(c),
         log' = log
  PROVE  /\ run' \in [RunIds -> RunStatus \cup {"absent"}]
         /\ step' \in [StepIds -> StepStatus \cup {"absent"}]
         /\ TerminalStays /\ StepsMoveInRunningRun
         /\ StartedAfterDependencies' /\ LogIsLifecycle' /\ LoggedExists'
<1>0. RunTypeOK /\ StartedAfterDependencies /\ LogIsLifecycle /\ LoggedExists
  BY DEF RunManagerInv, RecordTyped
<1>1. /\ run' \in [RunIds -> RunStatus \cup {"absent"}]
      /\ step' \in [StepIds -> StepStatus \cup {"absent"}]
  BY <1>0 DEF RunTypeOK, RunWritten, StepWritten
<1>2. TerminalStays /\ StepsMoveInRunningRun
  BY <1>0 DEF RunTypeOK, RunWritten, StepWritten, TerminalStays, StepsMoveInRunningRun
<1>3. StartedAfterDependencies'
  <2>1. CASE RunWritten(c)
    BY <1>0, <2>1 DEF RunWritten, StartedAfterDependencies
  <2>2. CASE StepWritten(c)
    <3> SUFFICES ASSUME NEW s \in StepIds, step'[s] \in {"running", "succeeded", "failed"},
                        NEW d \in DependsOn[s]
                 PROVE  step'[d] = "succeeded"
      BY DEF StartedAfterDependencies
    <3>1. d \in StepIds
      BY RunManagerAssumption
    <3>2. step[d] = "succeeded"
      BY <1>0, <2>2 DEF StepWritten, RunTypeOK, StartedAfterDependencies
    <3> QED
      BY <1>2, <3>1, <3>2 DEF TerminalStays, TerminalStep
  <2> QED
    BY <2>1, <2>2
<1>4. ASSUME NEW t \in Targets
      PROVE  Rises(StatusOf(t), StatusOf(t)')
  <2>1. t.run \in RunIds /\ (IsStep(t) => t.step \in StepIds)
    BY DEF Targets, IsStep
  <2>2. CASE RunWritten(c)
    <3>1. step' = step /\ run'[t.run] = IF t.run = c.target.run THEN c.to ELSE run[t.run]
      BY <1>0, <2>1, <2>2 DEF RunWritten, RunTypeOK
    <3>2. Rises(run[c.target.run], c.to)
      BY <2>2 DEF RunWritten
    <3> QED
      BY <3>1, <3>2 DEF Rises, StatusOf, IsStep
  <2>3. CASE StepWritten(c)
    <3>1. /\ run' = run
          /\ IsStep(t) =>
               step'[t.step] = IF t.step = c.target.step THEN c.to ELSE step[t.step]
      BY <1>0, <2>1, <2>3 DEF StepWritten, RunTypeOK
    <3>2. Rises(step[c.target.step], c.to)
      BY <2>3 DEF StepWritten
    <3> QED
      BY <3>1, <3>2 DEF Rises, StatusOf, IsStep
  <2> QED
    BY <2>2, <2>3
<1>5. LogIsLifecycle' /\ LoggedExists'
  BY <1>0, <1>4, LogKept DEF RunTypeOK
<1> QED
  BY <1>1, <1>2, <1>3, <1>5

\* The write of one call leaves the calls of other runs what they rely on.
LEMMA WriteKeepsOthers ==
  ASSUME RunManagerInv, NEW c \in Calls, RunWritten(c) \/ StepWritten(c),
         log' = log, NEW o \in Calls \cup {NoCall}, CallIsSound(o),
         o.phase = "idle" \/ o.target.run # c.target.run
  PROVE  CallIsSound(o)'
<1>0. RunTypeOK
  BY DEF RunManagerInv, RecordTyped
<1>1. \A d \in StepIds : step[d] = "succeeded" => step'[d] = "succeeded"
  BY WriteKeepsRecord DEF TerminalStays, TerminalStep
<1>2. ASSUME o.phase # "idle"
      PROVE  /\ run'[o.target.run] = run[o.target.run]
             /\ IsStep(o.target) => step'[o.target.step] = step[o.target.step]
  <2>1. o.target \in Targets /\ o.target.run \in RunIds
    BY <1>2 DEF NoCall, Calls, Targets
  <2>2. IsStep(o.target) => o.target.step \in StepIds /\ o.target.run = RunOf[o.target.step]
    BY <1>2, <2>1 DEF Targets, IsStep, CallIsSound, StepCallIsSound
  <2> QED
    BY <1>0, <1>2, <2>1, <2>2 DEF RunWritten, StepWritten, RunTypeOK
<1> QED
  BY <1>1, <1>2, CallKept

\* The call that has written has an event to append that the log does not tell.
LEMMA WrittenCallIsSound ==
  ASSUME RunManagerInv, NEW c \in Calls, RunWritten(c) \/ StepWritten(c),
         log' = log, c.phase = "write", CallIsSound(c)
  PROVE  CallIsSound([c EXCEPT !.phase = "event"])'
<1>0. RunTypeOK /\ LogIsLifecycle /\ LoggedExists
  BY DEF RunManagerInv, RecordTyped
<1>1. PICK new : new = [c EXCEPT !.phase = "event"]
  OBVIOUS
<1>2. /\ new.phase = "event" /\ new.target = c.target /\ new.to = c.to
      /\ new.seen = c.seen /\ new.deps = c.deps
  BY <1>1 DEF Calls
<1>3. Rises(StatusOf(c.target), c.to)
  BY DEF RunWritten, StepWritten, StatusOf
<1>4. EventIsNew(new)'
  <2>1. ASSUME NEW k \in DOMAIN log, log[k].target = c.target
        PROVE  Rank(log[k].to) < Rank(c.to)
    <3>1. StatusOf(c.target) # "absent"
      BY <1>0, <2>1 DEF LoggedExists
    <3>2. Rank(log[k].to) < Rank(StatusOf(c.target)) \/ log[k].to = StatusOf(c.target)
      BY <1>0, <2>1 DEF LogIsLifecycle
    <3>3. StatusOf(c.target) # c.to
      BY DEF RunWritten, StepWritten, StatusOf
    <3> QED
      BY <1>3, <3>1, <3>2, <3>3, RankType DEF Rises
  <2> QED
    BY <1>2, <2>1 DEF EventIsNew
<1>5. ASSUME IsStep(c.target)
      PROVE  StepCallIsSound(new)'
  BY <1>0, <1>2, <1>5 DEF CallIsSound, StepCallIsSound, RunWritten, StepWritten, RunTypeOK
<1>6. ASSUME ~IsStep(c.target)
      PROVE  RunCallIsSound(new)'
  BY <1>0, <1>2, <1>6 DEF CallIsSound, RunCallIsSound, RunWritten, StepWritten, RunTypeOK, HeldSince
<1>7. CallIsSound(new)'
  BY <1>2, <1>4, <1>5, <1>6 DEF CallIsSound, IsStep
<1> QED
  BY <1>1, <1>7

\* While calls for one run do not overlap, the others in progress are for other
\* runs.
LEMMA OthersCalls ==
  ASSUME RunManagerInv, RunsAreSerial, NEW m \in Managers, ~Idle(m), NEW n \in Managers, n # m
  PROVE  /\ call[n] \in Calls \cup {NoCall} /\ CallIsSound(call[n])
         /\ call[n].phase = "idle" \/ call[n].target.run # call[m].target.run
BY DEF RunManagerInv, RecordTyped, CallsAreSound, RunsAreSerial, Idle

\* Write preserves the invariant.
LEMMA WriteStep ==
  ASSUME RunManagerInv, RunsAreSerial, NEW m \in Managers, Write(m)
  PROVE  RunManagerInv'
<1>0. RunTypeOK /\ call \in [Managers -> Calls \cup {NoCall}]
  BY DEF RunManagerInv, RecordTyped
<1>1. ~Idle(m)
  BY DEF Write, At, Idle
<1>2. PICK c \in Calls : c = call[m] /\ CallIsSound(c)
  BY <1>1, CallInProgress
<1>u. UNCHANGED <<log, sequence, restarts, crashes>>
  BY DEF Write
<1>3. CASE Throw(m) /\ UNCHANGED <<run, step>>
  BY <1>0, <1>3, <1>u, CallEnds, CallBecomesKeeps DEF RunTypeOK
<1>4. CASE Continue(m, "event") /\ c.phase = "write" /\ (RunWritten(c) \/ StepWritten(c))
  <2>1. PICK new : new = [c EXCEPT !.phase = "event"]
    OBVIOUS
  <2>2. new \in Calls /\ call' = [call EXCEPT ![m] = new]
    BY <1>2, <1>4, <2>1 DEF Calls, Continue
  <2>3. CallIsSound(new)'
    <3>1. CallIsSound([c EXCEPT !.phase = "event"])'
      BY <1>2, <1>4, <1>u, WrittenCallIsSound
    <3> QED
      BY <2>1, <3>1
  <2>4. ASSUME NEW n \in Managers
        PROVE  CallIsSound(call[n])'
    <3>1. CASE n = m
      <4>1. call'[n] = new
        BY <1>0, <2>2, <3>1
      <4> QED
        BY <2>3, <4>1
    <3>2. CASE n # m
      <4>1. PICK o \in Calls \cup {NoCall} :
              /\ o = call[n] /\ CallIsSound(o)
              /\ o.phase = "idle" \/ o.target.run # c.target.run
        BY <1>1, <1>2, <3>2, OthersCalls
      <4>2. CallIsSound(o)'
        BY <1>4, <1>u, <4>1, WriteKeepsOthers
      <4>3. call'[n] = o
        BY <1>0, <2>2, <3>2, <4>1
      <4> QED
        BY <4>2, <4>3
    <3> QED
      BY <3>1, <3>2
  <2>5. /\ run' \in [RunIds -> RunStatus \cup {"absent"}]
        /\ step' \in [StepIds -> StepStatus \cup {"absent"}]
        /\ StartedAfterDependencies' /\ LogIsLifecycle' /\ LoggedExists'
    BY <1>4, <1>u, WriteKeepsRecord
  <2>6. RecordTyped'
    <3>1. call' \in [Managers -> Calls \cup {NoCall}]
      BY <1>0, <2>2
    <3> QED
      BY <1>0, <1>u, <2>5, <3>1, TypesKept DEF RunTypeOK
  <2> QED
    BY <2>4, <2>5, <2>6 DEF RunManagerInv, CallsAreSound
<1> QED
  BY <1>2, <1>3, <1>4, WriteEffect

\* The log with one more event, for a target whose status it tells and which
\* no event so far was up to.
LEMMA LogGrows ==
  ASSUME log \in Seq(Events), LogIsLifecycle, LoggedExists, UNCHANGED <<run, step>>,
         NEW e \in Events, log' = Append(log, e),
         \A k \in DOMAIN log : log[k].target = e.target => Rank(log[k].to) < Rank(e.to),
         StatusOf(e.target) # "absent",
         Rank(e.to) < Rank(StatusOf(e.target)) \/ e.to = StatusOf(e.target)
  PROVE  LogIsLifecycle' /\ LoggedExists'
<1>1. \A t : StatusOf(t)' = StatusOf(t)
  BY DEF StatusOf, IsStep
<1>2. \A j, k \in DOMAIN log' :
        j < k /\ log'[j].target = log'[k].target => Rank(log'[j].to) < Rank(log'[k].to)
  <2> SUFFICES ASSUME NEW j \in DOMAIN log', NEW k \in DOMAIN log', j < k,
                      log'[j].target = log'[k].target
               PROVE  Rank(log'[j].to) < Rank(log'[k].to)
    OBVIOUS
  <2>1. j \in DOMAIN log /\ log'[j] = log[j]
    BY EventAppended
  <2>2. CASE k \in DOMAIN log /\ log'[k] = log[k]
    BY <2>1, <2>2 DEF LogIsLifecycle
  <2>3. CASE log'[k] = e
    BY <2>1, <2>3
  <2> QED
    BY <2>2, <2>3, EventAppended
<1>3. ASSUME NEW k \in DOMAIN log'
      PROVE  /\ StatusOf(log'[k].target) # "absent"
             /\ Rank(log'[k].to) < Rank(StatusOf(log'[k].target))
                  \/ log'[k].to = StatusOf(log'[k].target)
  <2>1. CASE k \in DOMAIN log /\ log'[k] = log[k]
    BY <2>1 DEF LogIsLifecycle, LoggedExists
  <2>2. CASE log'[k] = e
    BY <2>2
  <2> QED
    BY <2>1, <2>2, EventAppended
<1>4. ASSUME NEW k \in DOMAIN log'
      PROVE  StatusOf(log[k].target)' = StatusOf(log'[k].target)
  BY DEF StatusOf, IsStep
<1>5. LoggedExists'
  BY <1>3, <1>4 DEF LoggedExists
<1>6. LogIsLifecycle'
  BY <1>2, <1>3, <1>4 DEF LogIsLifecycle
<1> QED
  BY <1>5, <1>6

\* AppendEvent preserves the invariant, whether or not the id is taken.
LEMMA AppendStep ==
  ASSUME RunManagerInv, RunsAreSerial, NEW m \in Managers, AppendEvent(m)
  PROVE  RunManagerInv'
<1>0. RunTypeOK /\ call \in [Managers -> Calls \cup {NoCall}]
  BY DEF RunManagerInv, RecordTyped
<1>1. ~Idle(m)
  BY DEF AppendEvent, At, Idle
<1>2. PICK c \in Calls : c = call[m] /\ CallIsSound(c) /\ c.phase = "event"
  BY <1>1, CallInProgress DEF AppendEvent, At
<1>3. PICK e : e = [target |-> c.target, to |-> c.to, number |-> sequence[m] + 1]
  OBVIOUS
<1>4. /\ e \in Events /\ e.target = c.target /\ e.to = c.to
      /\ sequence' \in [Managers -> Nat]
  <2>1. sequence[m] + 1 \in Nat
    BY <1>0 DEF RunTypeOK
  <2>2. sequence' = [sequence EXCEPT ![m] = sequence[m] + 1]
    BY DEF AppendEvent
  <2> QED
    BY <1>0, <1>3, <2>1, <2>2, CallFields DEF Events, RunTypeOK
<1>u. UNCHANGED <<run, step, restarts, crashes>> /\ Throw(m)
  BY DEF AppendEvent
<1>5. CASE log' = log
  BY <1>0, <1>4, <1>5, <1>u, CallEnds, CallBecomesKeeps DEF RunTypeOK
<1>6. CASE log' = Append(log, e)
  <2>1. \A k \in DOMAIN log : log[k].target = e.target => Rank(log[k].to) < Rank(e.to)
    BY <1>2, <1>4 DEF CallIsSound, EventIsNew
  <2>2. /\ StatusOf(e.target) # "absent"
        /\ Rank(e.to) < Rank(StatusOf(e.target)) \/ e.to = StatusOf(e.target)
    BY <1>2, <1>4, CallFields
       DEF CallIsSound, RunCallIsSound, StepCallIsSound, HeldSince, StatusOf, Rank,
           RunStatus, StepStatus, TerminalRun, TerminalStep
  <2>3. LogIsLifecycle' /\ LoggedExists'
    BY <1>0, <1>4, <1>6, <1>u, <2>1, <2>2, LogGrows DEF RunManagerInv, RunTypeOK
  <2>4. ASSUME NEW n \in Managers
        PROVE  CallIsSound(call[n])'
    <3>1. CASE n = m
      <4>1. call'[n] = NoCall
        BY <1>0, <1>u, <3>1 DEF Throw
      <4> QED
        BY <4>1 DEF CallIsSound, NoCall
    <3>2. CASE n # m
      <4>1. PICK o \in Calls \cup {NoCall} :
              /\ o = call[n] /\ CallIsSound(o)
              /\ o.phase = "idle" \/ o.target.run # c.target.run
        BY <1>1, <1>2, <3>2, OthersCalls
      <4>2. o.phase # "idle" => o.target # e.target
        BY <1>4, <4>1
      <4>3. EventIsNew(o)'
        <5> SUFFICES ASSUME o.phase = "event", NEW k \in DOMAIN log', log'[k].target = o.target
                     PROVE  Rank(log'[k].to) < Rank(o.to)
          BY DEF EventIsNew
        <5>1. log'[k] # e
          BY <4>2
        <5>2. k \in DOMAIN log /\ log'[k] = log[k]
          BY <1>0, <1>4, <1>6, <5>1, EventAppended DEF RunTypeOK
        <5> QED
          BY <4>1, <5>2 DEF CallIsSound, EventIsNew
      <4>4. CallIsSound(o)'
        BY <1>u, <4>1, <4>3 DEF CallIsSound, RunCallIsSound, StepCallIsSound, HeldSince, IsStep
      <4>5. call'[n] = o
        BY <1>0, <1>u, <3>2, <4>1 DEF Throw
      <4> QED
        BY <4>4, <4>5
    <3> QED
      BY <3>1, <3>2
  <2>5. StartedAfterDependencies'
    BY <1>u DEF RunManagerInv, StartedAfterDependencies
  <2>6. RecordTyped'
    <3>1. call' \in [Managers -> Calls \cup {NoCall}]
      BY <1>0, <1>u DEF Throw
    <3>2. log' \in Seq(Events)
      BY <1>0, <1>4, <1>6, EventAppended DEF RunTypeOK
    <3> QED
      BY <1>0, <1>4, <1>u, <3>1, <3>2, TypesKept DEF RunTypeOK
  <2> QED
    BY <2>3, <2>4, <2>5, <2>6 DEF RunManagerInv, CallsAreSound
<1>7. log' = log \/ log' = Append(log, e)
  BY <1>2, <1>3 DEF AppendEvent
<1> QED
  BY <1>5, <1>6, <1>7

\* Each step preserves the invariant and moves runs and steps legally.
LEMMA RunManagerStep ==
  ASSUME RunManagerInv, RunsAreSerial, [RunNext]_runVars
  PROVE  RunManagerInv' /\ TerminalStays /\ StepsMoveInRunningRun
<1>1. RunManagerInv'
  <2>1. CASE UNCHANGED runVars
    <3>1. RunTypeOK' /\ (call \in [Managers -> Calls \cup {NoCall}])'
      BY <2>1 DEF runVars, RunManagerInv, RecordTyped, RunTypeOK
    <3>2. CallsAreSound'
      BY <2>1 DEF runVars, RunManagerInv, CallsAreSound, CallIsSound, RunCallIsSound,
                  StepCallIsSound, EventIsNew, HeldSince, IsStep
    <3>3. StartedAfterDependencies' /\ LogIsLifecycle' /\ LoggedExists'
      BY <2>1 DEF runVars, RunManagerInv, StartedAfterDependencies, LogIsLifecycle,
                  LoggedExists, StatusOf, IsStep
    <3> QED
      BY <3>1, <3>2, <3>3 DEF RunManagerInv, RecordTyped
  <2> QED
    BY <2>1, HoldStep, StartSteps, CheckSteps, WriteStep, AppendStep, EndSteps DEF RunNext
<1>2. TerminalStays /\ StepsMoveInRunningRun
  <2>0. RunTypeOK
    BY DEF RunManagerInv, RecordTyped
  <2>1. CASE UNCHANGED <<run, step>>
    BY <2>1 DEF TerminalStays, StepsMoveInRunningRun
  <2>2. ASSUME NEW r \in RunIds, HoldRun(r)
        PROVE  TerminalStays /\ StepsMoveInRunningRun
    BY <2>0, <2>2 DEF HoldRun, RunTypeOK, TerminalRun, TerminalStays, StepsMoveInRunningRun
  <2>3. ASSUME NEW m \in Managers, Write(m)
        PROVE  TerminalStays /\ StepsMoveInRunningRun
    <3>1. PICK c \in Calls : c = call[m] /\ CallIsSound(c)
      BY <2>3, CallInProgress DEF Write, At, Idle
    <3>2. log' = log
      BY <2>3 DEF Write
    <3> QED
      BY <2>1, <2>3, <3>1, <3>2, WriteEffect, WriteKeepsRecord
  <2> QED
    BY <2>1, <2>2, <2>3
       DEF RunNext, runVars, CreateRun, MoveRun, CreateStep, MoveStep, Start,
           ReadParent, DependenciesRead, ReadDependency, AppendEvent, Restart,
           Crash, NewInstance
<1> QED
  BY <1>1, <1>2

\* The invariant, while the calls for one run do not overlap.
THEOREM RunManagerInvariant ==
  RunSpec /\ []RunsAreSerial => []RunManagerInv
<1>1. RunInit => RunManagerInv
  BY RunManagerInit
<1>2. RunManagerInv /\ RunsAreSerial /\ [RunNext]_runVars => RunManagerInv'
  BY RunManagerStep
<1> QED
  BY <1>1, <1>2, PTL DEF RunSpec

\* Started steps have their dependencies, and the log tells each life in order
\* and nothing that did not happen, for every number of managers that restart
\* and crash, as long as the calls for one run do not overlap.
THEOREM RunManagerConsistent ==
  RunSpec /\ []RunsAreSerial => []RecordIsConsistent
<1>1. RunManagerInv => RecordIsConsistent
  BY DEF RunManagerInv, RecordTyped, RecordIsConsistent
<1> QED
  BY <1>1, RunManagerInvariant, PTL

\* On the same condition no write brings back what is over or moves a step of a
\* run that is not running, although the checks are store operations of their own.
THEOREM RunManagerMoves ==
  RunSpec /\ []RunsAreSerial => MovesAreLegal
<1>1. RunManagerInv /\ RunsAreSerial /\ [RunNext]_runVars
        => TerminalStays /\ StepsMoveInRunningRun
  BY RunManagerStep
<1> QED
  BY <1>1, RunManagerInvariant, PTL DEF RunSpec, MovesAreLegal

\* A manager that works alone meets the condition.
THEOREM RunManagerAlone ==
  ASSUME \A m, n \in Managers : m = n
  PROVE  RunSpec => []RecordIsConsistent /\ MovesAreLegal
<1>1. RunsAreSerial
  BY DEF RunsAreSerial
<1> QED
  BY <1>1, RunManagerConsistent, RunManagerMoves, PTL
=============================================================================
