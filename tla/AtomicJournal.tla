---------------------------- MODULE AtomicJournal ----------------------------
(***************************************************************************)
(* What a PendingApprovalJournalStore promises its caller                  *)
(* (packages/retain-control): put and update take effect in one step, as   *)
(* they do in InMemoryPendingApprovalJournalStore, and an answer tells the *)
(* truth about that step.  "ok" is told of an effect that outlives a power *)
(* failure, "refused" (duplicate, missing, illegal transition) of a call   *)
(* without effect; "failed" says nothing.                                  *)
(***************************************************************************)
EXTENDS Naturals, PendingApprovalJournal

CONSTANTS
  Processes,
  Entries,      \* journal ids
  NoEntry

VARIABLES
  entry,        \* entry[j]: state, and how often the entry was written
  stable,       \* stable[j]: what is left of it after a power failure
  effect,       \* effect[p]: the write that the call of p has made
  answer        \* answer[p]: the last answer to p, "none" during a call

vars == <<entry, stable, effect, answer>>

Absent   == [state |-> "none", writes |-> 0]
NoEffect == [on |-> NoEntry, writes |-> 0]
Answers  == {"ok", "refused", "failed"}

Init ==
  /\ entry = [j \in Entries |-> Absent] /\ stable = entry
  /\ effect = [p \in Processes |-> NoEffect]
  /\ answer = [p \in Processes |-> "none"]

Begin(p) ==
  /\ effect[p] = NoEffect
  /\ answer' = [answer EXCEPT ![p] = "none"]
  /\ UNCHANGED <<entry, stable, effect>>

Write(p, j, to) ==
  /\ effect[p] = NoEffect
  /\ entry' = [entry EXCEPT ![j] = [state |-> to, writes |-> entry[j].writes + 1]]
  /\ effect' = [effect EXCEPT ![p] = [on |-> j, writes |-> entry[j].writes + 1]]
  /\ UNCHANGED <<stable, answer>>

Put(p, j) == entry[j] = Absent /\ Write(p, j, "pending_accept")

Update(p, j, to) ==
  /\ entry[j] # Absent /\ LegalUpdate(entry[j].state, to)
  /\ Write(p, j, to)

Stabilise == stable' = entry /\ UNCHANGED <<entry, effect, answer>>

Answer(p, a) ==
  /\ a = "ok" => effect[p] # NoEffect /\ effect[p].writes <= stable[effect[p].on].writes
  /\ a = "refused" => effect[p] = NoEffect
  /\ answer' = [answer EXCEPT ![p] = a]
  /\ effect' = [effect EXCEPT ![p] = NoEffect]
  /\ UNCHANGED <<entry, stable>>

\* The process dies without an answer; what it did stays.
Vanish(p) ==
  /\ effect' = [effect EXCEPT ![p] = NoEffect]
  /\ answer' = [answer EXCEPT ![p] = "none"]
  /\ UNCHANGED <<entry, stable>>

\* All of them die, and writes that are not stable may be undone.
PowerFailure ==
  /\ \A j \in Entries : entry'[j] \in {entry[j], stable[j]}
  /\ stable' = entry'
  /\ effect' = [p \in Processes |-> NoEffect]
  /\ answer' = [p \in Processes |-> "none"]

Next ==
  \/ \E p \in Processes :
       \/ Begin(p) \/ Vanish(p)
       \/ \E j \in Entries : Put(p, j) \/ \E to \in JournalStates : Update(p, j, to)
       \/ \E a \in Answers : Answer(p, a)
  \/ Stabilise \/ PowerFailure

Spec == Init /\ [][Next]_vars
=============================================================================
