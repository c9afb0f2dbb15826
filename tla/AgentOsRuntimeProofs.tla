------------------------ MODULE AgentOsRuntimeProofs ------------------------
(***************************************************************************)
(* Proofs about AgentOsRuntime, for every number of runtimes, runs, scopes *)
(* and permits and of failing stores and restarts.                         *)
(*                                                                         *)
(* The argument: a task has one creator, so the plan of a run is written   *)
(* once and nothing that was read in it changes; a permit is issued once   *)
(* and asks for something, so that the eligibility without grants never    *)
(* holds; and every event is appended by a call that has stored before     *)
(* what the event says.                                                    *)
(***************************************************************************)
EXTENDS AgentOsRuntime, FiniteSetTheorems, TLAPS

Tools == {"create_task", "cancel_run", "approve_run"}

Calls == [tool : Tools \cup {"none"}, phase : Phases, run : Runs \cup {NoRun},
          seen : {"absent", "queued", "cancelled"}, policy : SUBSET Scopes, scopes : SUBSET Scopes,
          permit : Permits \cup {NoPermit}, waiting : BOOLEAN, event : Kinds, number : Nat,
          plan : BOOLEAN]

\* No store holds infinitely many events: numbers are bounded.
NumbersAreBounded == \E b \in Nat : \A e \in log : e.number <= b

Typed ==
  /\ TypeOK /\ NumbersAreBounded
  /\ plans \in [Runs -> Seq(Plans)] /\ call \in [Runtimes -> Calls]

\* Runs and plans exist only of stored tasks.
StoresAreSound == \A r \in Runs : r \notin tasks => run[r] = "absent" /\ plans[r] = <<>>

\* A permit asks for something and lies inside a plan of its run.
PermitIsSound(k) ==
  permit[k] # NotIssued =>
    /\ permit[k].run \in tasks
    /\ permit[k].scopes # {} /\ permit[k].scopes \subseteq permit[k].plan.policy
    /\ \E n \in DOMAIN plans[permit[k].run] : plans[permit[k].run][n] = permit[k].plan

Creating(p) == call[p].tool = "create_task"

OneCreator == \A p, q \in Runtimes : Creating(p) /\ Creating(q) /\ call[p].run = call[q].run => p = q

CreatorIsSound(p) ==
  call[p].tool = "create_task" =>
    /\ call[p].phase \in {"run", "created", "plan", "sequence", "event"}
    /\ call[p].phase = "run" <=> run[call[p].run] = "absent"
    /\ call[p].phase \in {"run", "created", "plan"} => plans[call[p].run] = <<>> /\ call[p].plan = FALSE
    /\ call[p].phase \in {"plan", "sequence", "event"} => Logged("created", call[p].run) # {}
    /\ call[p].phase \in {"sequence", "event"} => call[p].event = "create_task"
    /\ call[p].plan = TRUE => plans[call[p].run] # <<>>

CancellerIsSound(p) ==
  call[p].tool = "cancel_run" =>
    /\ call[p].phase \in {"cancel", "cancelled"} /\ run[call[p].run] # "absent"
    /\ call[p].phase = "cancelled" => run[call[p].run] = "cancelled"
    /\ call[p].plan = FALSE

ApproverIsSound(p) ==
  call[p].tool = "approve_run" =>
    /\ call[p].phase \in {"permit", "sequence", "event", "task", "consume"}
    /\ run[call[p].run] # "absent" /\ call[p].plan = FALSE
    /\ call[p].phase = "permit" => call[p].scopes # {}
    /\ call[p].phase # "permit" =>
         /\ call[p].permit \in Permits /\ permit[call[p].permit] # NotIssued
         /\ permit[call[p].permit].run = call[p].run
    /\ call[p].phase \in {"sequence", "event"} => call[p].event = "issued"
    /\ call[p].phase \in {"task", "consume"} =>
         \E e \in Logged("issued", call[p].run) : e.permit = call[p].permit

CallIsSound(p) ==
  /\ call[p].tool = "none" <=> call[p].phase = "idle"
  /\ call[p].tool # "none" => call[p].run \in tasks
  /\ call[p].tool # "approve_run" => call[p].permit = NoPermit
  /\ CreatorIsSound(p) /\ CancellerIsSound(p) /\ ApproverIsSound(p)

EventIsSound(e) ==
  /\ run[e.run] # "absent" /\ e.run \in tasks
  /\ e.plan = TRUE => plans[e.run] # <<>>
  /\ e.kind = "cancelled" =>
       run[e.run] = "cancelled" /\ e.number = 1 /\ e.permit = NoPermit /\ e.plan = FALSE
  /\ e.kind = "issued" =>
       e.permit \in Permits /\ permit[e.permit] # NotIssued /\ permit[e.permit].run = e.run

AnswerHolds(a) ==
  /\ a.tool = "create_task" =>
       /\ a.run \in tasks /\ run[a.run] # "absent"
       /\ Logged("created", a.run) # {} /\ Logged("create_task", a.run) # {}
       /\ a.plan = TRUE => plans[a.run] # <<>>
  /\ a.tool = "cancel_run" => run[a.run] = "cancelled" /\ Logged("cancelled", a.run) # {}
  /\ a.tool = "approve_run" => \E e \in Logged("issued", a.run) : e.permit = a.permit

AgentInv ==
  /\ Typed /\ StoresAreSound /\ OneCreator
  /\ \A k \in Permits : PermitIsSound(k)
  /\ \A p \in Runtimes : CallIsSound(p)
  /\ \A e \in log : EventIsSound(e)
  /\ \A a \in answers : AnswerHolds(a)

\* A bounded set of numbers has a greatest one.
LEMMA MaxOfBounded ==
  ASSUME NEW S, S \subseteq Nat, S # {}, NEW b \in Nat, \A x \in S : x <= b
  PROVE  Max(S) \in S /\ \A x \in S : x <= Max(S)
<1> DEFINE B == {m \in Nat : \A x \in S : x <= m}
<1>1. PICK m \in B : \A y \in B : ~(y < m)
  <2>1. B # {} /\ B \subseteq Nat
    OBVIOUS
  <2>2. PICK m \in B : \A y \in B : ~(<<y, m>> \in OpToRel(<, Nat))
    BY <2>1, NatLessThanWellFounded, WFMin
  <2>3. \A y \in B : y < m => <<y, m>> \in OpToRel(<, Nat)
    BY <2>1 DEF OpToRel
  <2> QED
    BY <2>2, <2>3
<1>2. m \in S
  <2>1. SUFFICES ASSUME m \notin S PROVE FALSE
    OBVIOUS
  <2>0. PICK x \in S : TRUE
    OBVIOUS
  <2>2. m # 0
    BY <2>0, <2>1
  <2>3. m - 1 \in B
    BY <2>1, <2>2
  <2> QED
    BY <1>1, <2>3
<1>3. \A x \in S : m >= x
  OBVIOUS
<1>4. Max(S) \in S /\ \A x \in S : Max(S) >= x
  BY <1>2, <1>3 DEF Max
<1> QED
  BY <1>4

-----------------------------------------------------------------------------
(* What every step keeps                                                   *)

\* The stores only grow, a plan is never touched again, and a permit says
\* for ever what it said when it was issued.
Grows ==
  /\ tasks \subseteq tasks' /\ log \subseteq log'
  /\ \A r \in Runs : /\ run[r] # "absent" => run'[r] # "absent"
                     /\ run[r] = "cancelled" => run'[r] = "cancelled"
                     /\ plans[r] # <<>> => plans'[r] = plans[r]
  /\ \A k \in Permits : permit[k] # NotIssued => permit'[k] = permit[k]

\* A step of p leaves alone the runs that another runtime is creating.
SparesOthers(p) ==
  \A q \in Runtimes : q # p /\ Creating(q) =>
    /\ run[call[q].run] = "absent" => run'[call[q].run] = "absent"
    /\ plans'[call[q].run] = plans[call[q].run]

\* What a call has to be to go on.
LEMMA CallTyped ==
  ASSUME AgentInv, NEW p \in Runtimes
  PROVE  /\ call[p] \in Calls
         /\ call[p].tool \in Tools \cup {"none"} /\ call[p].phase \in Phases
         /\ call[p].run \in Runs \cup {NoRun} /\ call[p].number \in Nat
         /\ call[p].permit \in Permits \cup {NoPermit} /\ call[p].plan \in BOOLEAN
         /\ call[p].policy \in SUBSET Scopes /\ call[p].scopes \in SUBSET Scopes
         /\ call[p].event \in Kinds /\ call[p].waiting \in BOOLEAN
         /\ call[p].tool # "none" => call[p].run \in Runs
<1>1. call[p] \in Calls /\ CallIsSound(p) /\ tasks \subseteq Runs
  BY DEF AgentInv, Typed, TypeOK
<1> QED
  BY <1>1 DEF Calls, CallIsSound

\* The frame of a step of p.
LEMMA StepKeepsInv ==
  ASSUME AgentInv, NEW p \in Runtimes, NEW c, call' = [call EXCEPT ![p] = c],
         Typed', Grows, SparesOthers(p), StoresAreSound', OneCreator', CallIsSound(p)',
         \A k \in Permits : permit[k] = NotIssued => PermitIsSound(k)',
         \A e \in log' \ log : EventIsSound(e)', \A a \in answers' \ answers : AnswerHolds(a)'
  PROVE  AgentInv'
<1>1. ASSUME NEW k \in Permits PROVE PermitIsSound(k)'
  <2>1. CASE permit[k] = NotIssued
    BY <2>1
  <2>2. CASE permit[k] # NotIssued
    <3>1. PermitIsSound(k) /\ permit'[k] = permit[k] /\ permit[k] \in PermitRecords
      BY <2>2 DEF AgentInv, Typed, TypeOK, Grows
    <3>2. permit[k].run \in Runs
      BY <3>1 DEF PermitRecords
    <3>3. plans[permit[k].run] # <<>>
      BY <2>2, <3>1, <3>2 DEF PermitIsSound, AgentInv, Typed
    <3>4. plans'[permit[k].run] = plans[permit[k].run]
      BY <3>2, <3>3 DEF Grows
    <3> QED
      BY <2>2, <3>1, <3>4 DEF PermitIsSound, Grows
  <2> QED
    BY <2>1, <2>2
<1>2. ASSUME NEW e \in log' PROVE EventIsSound(e)'
  <2>1. CASE e \notin log
    BY <2>1
  <2>2. CASE e \in log
    <3>1. EventIsSound(e) /\ e.run \in Runs
      BY <2>2 DEF AgentInv, Typed, TypeOK, Events
    <3> QED
      BY <3>1 DEF EventIsSound, Grows
  <2> QED
    BY <2>1, <2>2
<1>3. ASSUME NEW a \in answers' PROVE AnswerHolds(a)'
  <2>1. CASE a \notin answers
    BY <2>1
  <2>2. CASE a \in answers
    <3>1. AnswerHolds(a) /\ a.run \in Runs
      BY <2>2 DEF AgentInv, Typed, TypeOK
    <3>2. ASSUME NEW kind PROVE Logged(kind, a.run) \subseteq Logged(kind, a.run)'
      BY DEF Logged, Grows
    <3>3. /\ Logged("created", a.run) \subseteq Logged("created", a.run)'
          /\ Logged("create_task", a.run) \subseteq Logged("create_task", a.run)'
          /\ Logged("cancelled", a.run) \subseteq Logged("cancelled", a.run)'
          /\ Logged("issued", a.run) \subseteq Logged("issued", a.run)'
      BY <3>2
    <3> QED
      BY <3>1, <3>3 DEF AnswerHolds, Grows
  <2> QED
    BY <2>1, <2>2
<1>4. ASSUME NEW q \in Runtimes PROVE CallIsSound(q)'
  <2>1. CASE q = p
    BY <2>1
  <2>2. CASE q # p
    <3>0. call'[q] = call[q]
      BY <2>2 DEF AgentInv, Typed
    <3>1. CallIsSound(q) /\ call[q] \in Calls
      BY DEF AgentInv, Typed
    <3>2. CASE call[q].tool = "none"
      BY <3>0, <3>1, <3>2 DEF CallIsSound, CreatorIsSound, CancellerIsSound, ApproverIsSound
    <3>3. CASE call[q].tool # "none"
      <4>1. call[q].run \in Runs /\ call[q].run \in tasks'
        BY <3>1, <3>3, CallTyped DEF CallIsSound, Grows
      <4>2. ASSUME NEW kind PROVE Logged(kind, call[q].run) \subseteq Logged(kind, call[q].run)'
        BY <3>0 DEF Logged, Grows
      <4>3. /\ Logged("created", call[q].run) \subseteq Logged("created", call[q].run)'
            /\ Logged("issued", call[q].run) \subseteq Logged("issued", call[q].run)'
        BY <4>2
      <4>4. CreatorIsSound(q)'
        BY <2>2, <3>0, <3>1, <4>1, <4>3 DEF CallIsSound, CreatorIsSound, Grows, SparesOthers, Creating
      <4>5. CancellerIsSound(q)'
        BY <3>0, <3>1, <4>1 DEF CallIsSound, CancellerIsSound, Grows
      <4>6. ApproverIsSound(q)'
        BY <3>0, <3>1, <4>1, <4>3 DEF CallIsSound, ApproverIsSound, Grows
      <4> QED
        BY <3>0, <3>1, <4>1, <4>4, <4>5, <4>6 DEF CallIsSound
    <3> QED
      BY <3>2, <3>3
  <2> QED
    BY <2>1, <2>2
<1> QED
  BY <1>1, <1>2, <1>3, <1>4, Zenon DEF AgentInv

Answers == [tool : Tools, run : Runs, permit : Permits \cup {NoPermit}, plan : BOOLEAN]

\* The answers of a call are typed.
LEMMA SucceedTyped ==
  ASSUME AgentInv, NEW p \in Runtimes, call[p].tool # "none", Succeed(p)
  PROVE  answers' \subseteq Answers
<1>1. [tool |-> call[p].tool, run |-> call[p].run, permit |-> call[p].permit,
       plan |-> call[p].plan] \in Answers
  BY CallTyped DEF Answers
<1>2. answers \subseteq Answers
  BY DEF AgentInv, Typed, TypeOK, Answers, Tools
<1> QED
  BY <1>1, <1>2 DEF Succeed

LEMMA NoCallTyped == NoCall \in Calls /\ NoCall.tool = "none" /\ NoCall.phase = "idle"
                     /\ NoCall.permit = NoPermit
BY DEF NoCall, Calls, Tools, Kinds, Phases

LEMMA NoCallIsSound ==
  ASSUME NEW p \in Runtimes, call'[p] = NoCall
  PROVE  CallIsSound(p)'
BY NoCallTyped DEF CallIsSound, CreatorIsSound, CancellerIsSound, ApproverIsSound

\* A step that starts no second creation.
LEMMA CreatorsStay ==
  ASSUME AgentInv, NEW p \in Runtimes, NEW c, call' = [call EXCEPT ![p] = c],
         c.tool = "create_task" =>
           \/ call[p].tool = "create_task" /\ c.run = call[p].run
           \/ c.run \notin tasks
  PROVE  OneCreator'
<1>1. call'[p] = c /\ \A q \in Runtimes : q # p => call'[q] = call[q]
  BY DEF AgentInv, Typed
<1>2. \A q \in Runtimes : Creating(q) => call[q].run \in tasks
  BY DEF AgentInv, CallIsSound, Creating
<1> QED
  BY <1>1, <1>2 DEF AgentInv, OneCreator, Creating

\* A step of p that writes neither the stores nor a permit.
LEMMA QuietKeepsInv ==
  ASSUME AgentInv, NEW p \in Runtimes, NEW c \in Calls, call' = [call EXCEPT ![p] = c],
         UNCHANGED stores, UNCHANGED <<permit, unusable>>,
         c.phase = "idle" => c = NoCall,
         c.tool = "create_task" => call[p].tool = "create_task" /\ c.run = call[p].run,
         held' \in [Runtimes -> SUBSET Permits], sequence' \in [Runtimes -> Nat],
         answers' \subseteq Answers, faults' \in 0..MaxFaults, restarts' \in 0..MaxRestarts,
         CallIsSound(p)', \A a \in answers' \ answers : AnswerHolds(a)'
  PROVE  AgentInv'
<1>1. Grows /\ SparesOthers(p) /\ StoresAreSound'
  BY DEF Grows, SparesOthers, stores, AgentInv, StoresAreSound
<1>2. OneCreator'
  BY CreatorsStay
<1>3. \A k \in Permits : PermitIsSound(k)'
  BY DEF AgentInv, PermitIsSound, stores
<1>4. Typed'
  <2>1. call' \in [Runtimes -> Calls] /\ plans' \in [Runs -> Seq(Plans)] /\ NumbersAreBounded'
    BY DEF AgentInv, Typed, stores, NumbersAreBounded
  <2>2. \A q \in Runtimes : call'[q] = c \/ call'[q] = call[q]
    BY DEF AgentInv, Typed
  <2>3. \A q \in Runtimes : call'[q].phase = "idle" => call'[q] = NoCall
    BY <2>2 DEF AgentInv, Typed, TypeOK
  <2>4. \A q \in Runtimes : call'[q].phase \in Phases /\ call'[q].run \in Runs \cup {NoRun}
    BY <2>1 DEF Calls
  <2> QED
    BY <2>1, <2>3, <2>4 DEF AgentInv, Typed, TypeOK, stores, Answers, Tools
<1>5. log' = log
  BY DEF stores
<1> QED
  BY <1>1, <1>2, <1>3, <1>4, <1>5, StepKeepsInv

-----------------------------------------------------------------------------
(* The steps that write no store                                           *)

LEMMA LeaveKeepsInv ==
  ASSUME AgentInv, NEW p \in Runtimes, Leave(p), UNCHANGED stores, UNCHANGED <<permit, unusable>>,
         held' \in [Runtimes -> SUBSET Permits], sequence' \in [Runtimes -> Nat],
         faults' \in 0..MaxFaults, restarts' \in 0..MaxRestarts
  PROVE  AgentInv'
<1>1. call' = [call EXCEPT ![p] = NoCall] /\ answers' = answers /\ answers \subseteq Answers
  BY DEF Leave, AgentInv, Typed, TypeOK, Answers, Tools
<1>2. CallIsSound(p)'
  <2>1. call'[p] = NoCall
    BY <1>1 DEF AgentInv, Typed
  <2> QED
    BY <2>1, NoCallIsSound
<1> QED
  BY <1>1, <1>2, NoCallTyped, QuietKeepsInv

LEMMA StoreThrowsKeepsInv ==
  ASSUME AgentInv, NEW p \in Runtimes, StoreThrows(p)
  PROVE  AgentInv'
<1>1. faults' \in 0..MaxFaults
  BY AgentOsRuntimeAssumption DEF StoreThrows, AgentInv, Typed, TypeOK
<1> QED
  BY <1>1, LeaveKeepsInv DEF StoreThrows, AgentInv, Typed, TypeOK, ledger

LEMMA RestartKeepsInv ==
  ASSUME AgentInv, NEW p \in Runtimes, Restart(p)
  PROVE  AgentInv'
<1>1. restarts' \in 0..MaxRestarts
  BY AgentOsRuntimeAssumption DEF Restart, AgentInv, Typed, TypeOK
<1>2. held' \in [Runtimes -> SUBSET Permits] /\ sequence' \in [Runtimes -> Nat]
  BY DEF Restart, AgentInv, Typed, TypeOK
<1> QED
  BY <1>1, <1>2, LeaveKeepsInv DEF Restart, AgentInv, Typed, TypeOK, ledger

LEMMA CancelRunKeepsInv ==
  ASSUME AgentInv, NEW p \in Runtimes, NEW r \in Runs, CancelRun(p, r)
  PROVE  AgentInv'
<1> DEFINE c == [NoCall EXCEPT !.tool = "cancel_run", !.phase = "cancel", !.run = r]
<1>1. call' = [call EXCEPT ![p] = c]
  BY DEF CancelRun
<1>2. /\ c \in Calls /\ c.tool = "cancel_run" /\ c.phase = "cancel" /\ c.run = r
      /\ c.plan = FALSE /\ c.permit = NoPermit
  BY DEF NoCall, Calls, Tools, Kinds, Phases
<1> HIDE DEF c
<1>3. call'[p] = c /\ run' = run /\ tasks' = tasks
  BY <1>1 DEF AgentInv, Typed, CancelRun, stores
<1>4. r \in tasks /\ run[r] # "absent"
  BY DEF CancelRun, AgentInv, StoresAreSound
<1>5. CallIsSound(p)'
  BY <1>2, <1>3, <1>4 DEF CallIsSound, CreatorIsSound, CancellerIsSound, ApproverIsSound
<1> QED
  BY <1>1, <1>2, <1>5, QuietKeepsInv
     DEF CancelRun, AgentInv, Typed, TypeOK, ledger, bounds, Answers, Tools

LEMMA ApproveRunKeepsInv ==
  ASSUME AgentInv, NEW p \in Runtimes, NEW r \in Runs, NEW scopes \in SUBSET Scopes,
         NEW policy \in SUBSET Scopes, ApproveRun(p, r, scopes, policy)
  PROVE  AgentInv'
<1> DEFINE c == [NoCall EXCEPT !.tool = "approve_run", !.phase = "permit", !.run = r,
                               !.seen = run[r], !.policy = policy, !.scopes = scopes]
<1>1. call' = [call EXCEPT ![p] = c]
  BY DEF ApproveRun
<1>2. /\ c \in Calls /\ c.tool = "approve_run" /\ c.phase = "permit" /\ c.run = r
      /\ c.plan = FALSE /\ c.scopes = scopes
  BY DEF NoCall, Calls, Tools, Kinds, Phases, AgentInv, Typed, TypeOK
<1> HIDE DEF c
<1>3. call'[p] = c /\ run' = run /\ tasks' = tasks
  BY <1>1 DEF AgentInv, Typed, ApproveRun, stores
<1>4. r \in tasks /\ run[r] # "absent" /\ scopes # {}
  BY DEF ApproveRun, AgentInv, StoresAreSound
<1>5. CallIsSound(p)'
  BY <1>2, <1>3, <1>4 DEF CallIsSound, CreatorIsSound, CancellerIsSound, ApproverIsSound
<1> QED
  BY <1>1, <1>2, <1>5, QuietKeepsInv
     DEF ApproveRun, AgentInv, Typed, TypeOK, ledger, bounds, Answers, Tools

\* The number of the next event is a number.
LEMMA SequenceKeepsInv ==
  ASSUME AgentInv, NEW p \in Runtimes, NextRuntimeEventSequence(p)
  PROVE  AgentInv'
<1> DEFINE S == {sequence[p]} \cup RuntimeNumbers(call[p].run)
           n == 1 + Max(S)
           c == [call[p] EXCEPT !.phase = "event", !.number = n]
<1>1. n \in Nat
  <2>1. S \subseteq Nat /\ S # {}
    BY DEF AgentInv, Typed, TypeOK, RuntimeNumbers, Events
  <2>2. PICK b \in Nat : \A e \in log : e.number <= b
    BY DEF AgentInv, Typed, NumbersAreBounded
  <2>3. sequence[p] \in Nat /\ \A e \in log : e.number \in Nat
    BY DEF AgentInv, Typed, TypeOK, Events
  <2>4. \A x \in S : x <= b + sequence[p]
    BY <2>2, <2>3 DEF RuntimeNumbers
  <2>5. b + sequence[p] \in Nat
    BY <2>3
  <2> HIDE DEF S
  <2>6. Max(S) \in S
    BY <2>1, <2>4, <2>5, MaxOfBounded
  <2>7. Max(S) \in Nat
    BY <2>1, <2>6
  <2> QED
    BY <2>7
<1>2. call' = [call EXCEPT ![p] = c] /\ sequence' = [sequence EXCEPT ![p] = n]
      /\ call[p].phase = "sequence"
  BY DEF NextRuntimeEventSequence, At
<1> HIDE DEF n, S
<1>3. /\ c \in Calls /\ c.phase = "event" /\ c.tool = call[p].tool /\ c.run = call[p].run
      /\ c.plan = call[p].plan /\ c.permit = call[p].permit /\ c.event = call[p].event
      /\ c.scopes = call[p].scopes
  BY <1>1, CallTyped DEF Calls, Phases
<1> HIDE DEF c
<1>4. call'[p] = c /\ sequence' \in [Runtimes -> Nat]
  BY <1>1, <1>2 DEF AgentInv, Typed, TypeOK
<1>5. CallIsSound(p)'
  <2>1. CallIsSound(p)
    BY DEF AgentInv
  <2>2. UNCHANGED <<run, tasks, plans, log, permit>>
    BY DEF NextRuntimeEventSequence, stores, ledger
  <2>3. Logged("created", call[p].run)' = Logged("created", call[p].run)
    BY <1>3, <1>4, <2>2 DEF Logged
  <2> QED
    BY <1>2, <1>3, <1>4, <2>1, <2>2, <2>3
       DEF CallIsSound, CreatorIsSound, CancellerIsSound, ApproverIsSound
<1>6. /\ UNCHANGED stores /\ UNCHANGED <<permit, unusable>> /\ answers' = answers
      /\ held' \in [Runtimes -> SUBSET Permits] /\ answers' \subseteq Answers
      /\ faults' \in 0..MaxFaults /\ restarts' \in 0..MaxRestarts
  BY DEF NextRuntimeEventSequence, AgentInv, Typed, TypeOK, ledger, bounds, Answers, Tools
<1> QED
  BY <1>2, <1>3, <1>4, <1>5, <1>6, QuietKeepsInv

\* The calls of approve_run that end without another plan.
LEMMA ApprovedKeepsInv ==
  ASSUME AgentInv, NEW p \in Runtimes, call[p].phase \in {"task", "consume"}, Succeed(p),
         UNCHANGED <<stores, ledger, sequence, bounds>>
  PROVE  AgentInv'
<1>1. /\ UNCHANGED stores /\ UNCHANGED <<permit, unusable>> /\ log' = log
      /\ held' \in [Runtimes -> SUBSET Permits] /\ sequence' \in [Runtimes -> Nat]
      /\ faults' \in 0..MaxFaults /\ restarts' \in 0..MaxRestarts
  BY DEF AgentInv, Typed, TypeOK, ledger, bounds, stores
<1>2. CallIsSound(p) /\ call[p] \in Calls
  BY DEF AgentInv, Typed
<1>3. call[p].tool = "approve_run" /\ \E e \in Logged("issued", call[p].run) : e.permit = call[p].permit
  BY <1>2 DEF CallIsSound, CreatorIsSound, CancellerIsSound, ApproverIsSound, Calls, Tools
<1>4. call' = [call EXCEPT ![p] = NoCall]
  BY DEF Succeed
<1>5. CallIsSound(p)'
  <2>1. call'[p] = NoCall
    BY <1>4 DEF AgentInv, Typed
  <2> QED
    BY <2>1, NoCallIsSound
<1>6. answers' \subseteq Answers
  BY <1>3, SucceedTyped
<1>7. ASSUME NEW a \in answers' \ answers PROVE AnswerHolds(a)'
  <2>1. a.tool = "approve_run" /\ a.run = call[p].run /\ a.permit = call[p].permit
    BY <1>3 DEF Succeed
  <2>2. Logged("issued", a.run)' = Logged("issued", a.run)
    BY <1>1 DEF Logged
  <2> QED
    BY <1>3, <2>1, <2>2 DEF AnswerHolds
<1> QED
  BY <1>1, <1>4, <1>5, <1>6, <1>7, NoCallTyped, QuietKeepsInv

LEMMA ReadTaskKeepsInv ==
  ASSUME AgentInv, NEW p \in Runtimes, ReadTask(p)
  PROVE  AgentInv'
<1>0. call[p].phase = "task" /\ UNCHANGED <<stores, ledger, sequence, bounds>>
  BY DEF ReadTask, At
<1>1. CASE Succeed(p)
  BY <1>0, <1>1, ApprovedKeepsInv
<1>2. CASE Goto(p, "consume")
  <2> DEFINE c == [call[p] EXCEPT !.phase = "consume"]
  <2>1. call' = [call EXCEPT ![p] = c] /\ answers' = answers
    BY <1>2 DEF Goto
  <2>2. /\ c \in Calls /\ c.phase = "consume" /\ c.tool = call[p].tool /\ c.run = call[p].run
        /\ c.plan = call[p].plan /\ c.permit = call[p].permit
    BY CallTyped DEF Calls, Phases
  <2> HIDE DEF c
  <2>3. call'[p] = c
    BY <2>1 DEF AgentInv, Typed
  <2>4. /\ UNCHANGED stores /\ UNCHANGED <<permit, unusable>>
        /\ UNCHANGED <<run, tasks, plans, log, permit>>
        /\ held' \in [Runtimes -> SUBSET Permits] /\ sequence' \in [Runtimes -> Nat]
        /\ faults' \in 0..MaxFaults /\ restarts' \in 0..MaxRestarts /\ answers' \subseteq Answers
    BY <1>0, <2>1 DEF AgentInv, Typed, TypeOK, ledger, bounds, stores, Answers, Tools
  <2>5. CallIsSound(p)'
    <3>1. CallIsSound(p) /\ call[p].tool \in Tools \cup {"none"}
      BY CallTyped DEF AgentInv
    <3>2. Logged("issued", call[p].run)' = Logged("issued", call[p].run)
      BY <2>2, <2>3, <2>4 DEF Logged
    <3> QED
      BY <1>0, <2>2, <2>3, <2>4, <3>1, <3>2
         DEF CallIsSound, CreatorIsSound, CancellerIsSound, ApproverIsSound, Tools
  <2> QED
    BY <2>1, <2>2, <2>4, <2>5, QuietKeepsInv
<1> QED
  BY <1>1, <1>2 DEF ReadTask

\* A permit asks for something, and there are no grants.
LEMMA NeverEligible ==
  ASSUME AgentInv, NEW p \in Runtimes, call[p].phase = "consume", NEW admission
  PROVE  Eligibility(p, admission, call[p].policy, permit[call[p].permit].plan) # "eligible"
<1>1. CallIsSound(p) /\ call[p] \in Calls
  BY DEF AgentInv, Typed
<1>2. call[p].permit \in Permits /\ permit[call[p].permit] # NotIssued
  BY <1>1 DEF CallIsSound, CreatorIsSound, CancellerIsSound, ApproverIsSound, Calls, Tools
<1>3. permit[call[p].permit].plan.policy # {}
  BY <1>2 DEF AgentInv, PermitIsSound
<1> QED
  BY <1>3 DEF Eligibility, CapabilityGrants

LEMMA ConsumePermitKeepsInv ==
  ASSUME AgentInv, NEW p \in Runtimes, NEW admission, ConsumePermit(p, admission)
  PROVE  AgentInv'
<1>0. call[p].phase = "consume"
  BY DEF ConsumePermit, At
<1>1. Succeed(p) /\ UNCHANGED <<stores, ledger, sequence, bounds>>
  BY <1>0, NeverEligible DEF ConsumePermit, stores
<1> QED
  BY <1>0, <1>1, ApprovedKeepsInv

-----------------------------------------------------------------------------
(* The steps that write a store                                            *)

LEMMA TypedIsKept ==
  ASSUME AgentInv, NEW p \in Runtimes, NEW c \in Calls, call' = [call EXCEPT ![p] = c],
         c.phase = "idle" => c = NoCall,
         tasks' \subseteq Runs, run' \in [Runs -> {"absent", "queued", "cancelled"}],
         plans' \in [Runs -> Seq(Plans)], log' \subseteq Events, NumbersAreBounded',
         permit' \in [Permits -> PermitRecords \cup {NotIssued}],
         held' \in [Runtimes -> SUBSET Permits], UNCHANGED <<unusable, sequence, bounds>>,
         answers' \subseteq Answers
  PROVE  Typed'
<1>1. call' \in [Runtimes -> Calls]
  BY DEF AgentInv, Typed
<1>2. \A q \in Runtimes : call'[q] = c \/ call'[q] = call[q]
  BY DEF AgentInv, Typed
<1>3. \A q \in Runtimes : call'[q].phase = "idle" => call'[q] = NoCall
  BY <1>2 DEF AgentInv, Typed, TypeOK
<1>4. \A q \in Runtimes : call'[q].phase \in Phases /\ call'[q].run \in Runs \cup {NoRun}
  BY <1>1 DEF Calls
<1> QED
  BY <1>1, <1>3, <1>4 DEF AgentInv, Typed, TypeOK, bounds, Answers, Tools

LEMMA CreateTaskKeepsInv ==
  ASSUME AgentInv, NEW p \in Runtimes, NEW r \in Runs, NEW policy \in SUBSET Scopes,
         CreateTask(p, r, policy)
  PROVE  AgentInv'
<1> DEFINE c == [NoCall EXCEPT !.tool = "create_task", !.phase = "run", !.run = r,
                               !.policy = policy]
<1>1. call' = [call EXCEPT ![p] = c] /\ tasks' = tasks \cup {r} /\ r \notin tasks
      /\ UNCHANGED <<run, plans, log, ledger, sequence, answers, bounds>>
  BY DEF CreateTask
<1>2. /\ c \in Calls /\ c.tool = "create_task" /\ c.phase = "run" /\ c.run = r
      /\ c.plan = FALSE /\ c.permit = NoPermit
  BY DEF NoCall, Calls, Tools, Kinds, Phases
<1> HIDE DEF c
<1>3. call'[p] = c /\ run[r] = "absent" /\ plans[r] = <<>>
  BY <1>1 DEF AgentInv, Typed, StoresAreSound
<1>4. Typed'
  <2>1. /\ tasks' \subseteq Runs /\ run' \in [Runs -> {"absent", "queued", "cancelled"}]
        /\ plans' \in [Runs -> Seq(Plans)] /\ log' \subseteq Events /\ NumbersAreBounded'
        /\ permit' \in [Permits -> PermitRecords \cup {NotIssued}]
        /\ held' \in [Runtimes -> SUBSET Permits] /\ UNCHANGED <<unusable, sequence, bounds>>
        /\ answers' \subseteq Answers
    BY <1>1 DEF AgentInv, Typed, TypeOK, ledger, Answers, Tools, NumbersAreBounded
  <2> QED
    BY <1>1, <1>2, <2>1, TypedIsKept
<1>5. Grows /\ SparesOthers(p) /\ StoresAreSound'
  BY <1>1 DEF Grows, SparesOthers, AgentInv, StoresAreSound, ledger
<1>6. OneCreator'
  BY <1>1, <1>2, CreatorsStay
<1>7. CallIsSound(p)'
  BY <1>1, <1>2, <1>3 DEF CallIsSound, CreatorIsSound, CancellerIsSound, ApproverIsSound
<1>8. /\ log' = log /\ answers' = answers
      /\ \A k \in Permits : permit[k] = NotIssued => PermitIsSound(k)'
  BY <1>1 DEF PermitIsSound, ledger
<1> QED
  BY <1>1, <1>4, <1>5, <1>6, <1>7, <1>8, StepKeepsInv

LEMMA CreateRunKeepsInv ==
  ASSUME AgentInv, NEW p \in Runtimes, CreateRun(p)
  PROVE  AgentInv'
<1> DEFINE c == [call[p] EXCEPT !.phase = "created"]
           r == call[p].run
<1>0. CallIsSound(p) /\ call[p].phase = "run" /\ call[p].tool \in Tools \cup {"none"}
  BY CallTyped DEF CreateRun, At, AgentInv
<1>1. call[p].tool = "create_task" /\ r \in Runs /\ r \in tasks /\ run[r] = "absent"
      /\ plans[r] = <<>> /\ call[p].plan = FALSE
  BY <1>0, CallTyped DEF CallIsSound, CreatorIsSound, CancellerIsSound, ApproverIsSound, Tools
<1>2. /\ call' = [call EXCEPT ![p] = c] /\ run' = [run EXCEPT ![r] = "queued"]
      /\ UNCHANGED <<tasks, plans, log, ledger, sequence, bounds, answers>>
  BY DEF CreateRun, Goto
<1>3. /\ c \in Calls /\ c.tool = "create_task" /\ c.phase = "created" /\ c.run = r
      /\ c.plan = FALSE /\ c.permit = call[p].permit
  BY <1>1, CallTyped DEF Calls, Phases
<1> HIDE DEF c
<1>4. call'[p] = c /\ run'[r] = "queued" /\ \A s \in Runs : s # r => run'[s] = run[s]
  BY <1>1, <1>2 DEF AgentInv, Typed, TypeOK
<1>5. Typed'
  <2>1. /\ tasks' \subseteq Runs /\ run' \in [Runs -> {"absent", "queued", "cancelled"}]
        /\ plans' \in [Runs -> Seq(Plans)] /\ log' \subseteq Events /\ NumbersAreBounded'
        /\ permit' \in [Permits -> PermitRecords \cup {NotIssued}]
        /\ held' \in [Runtimes -> SUBSET Permits] /\ UNCHANGED <<unusable, sequence, bounds>>
        /\ answers' \subseteq Answers
    BY <1>1, <1>2 DEF AgentInv, Typed, TypeOK, ledger, Answers, Tools, NumbersAreBounded
  <2> QED
    BY <1>2, <1>3, <2>1, TypedIsKept
<1>6. Grows
  BY <1>1, <1>2, <1>4 DEF Grows, ledger
<1>7. SparesOthers(p)
  <2>1. \A q \in Runtimes : q # p /\ Creating(q) => call[q].run \in Runs /\ call[q].run # r
    BY <1>1, CallTyped DEF AgentInv, OneCreator, Creating
  <2> QED
    BY <1>2, <1>4, <2>1 DEF SparesOthers
<1>8. StoresAreSound'
  BY <1>1, <1>2, <1>4 DEF AgentInv, StoresAreSound
<1>9. OneCreator'
  BY <1>1, <1>2, <1>3, CreatorsStay
<1>10. CallIsSound(p)'
  BY <1>0, <1>1, <1>2, <1>3, <1>4 DEF CallIsSound, CreatorIsSound, CancellerIsSound, ApproverIsSound
<1>11. /\ log' = log /\ answers' = answers
       /\ \A k \in Permits : permit[k] = NotIssued => PermitIsSound(k)'
  BY <1>2 DEF PermitIsSound, ledger
<1> QED
  BY <1>2, <1>5, <1>6, <1>7, <1>8, <1>9, <1>10, <1>11, StepKeepsInv

\* A step of p that appends one event, of what is stored.
LEMMA AppendKeepsInv ==
  ASSUME AgentInv, NEW p \in Runtimes, NEW c \in Calls, call' = [call EXCEPT ![p] = c],
         NEW event \in Events, log' = log \cup {event}, EventIsSound(event),
         UNCHANGED <<tasks, run, plans, ledger, sequence, bounds>>,
         c.phase = "idle" => c = NoCall,
         c.tool = "create_task" => call[p].tool = "create_task" /\ c.run = call[p].run,
         answers' \subseteq Answers,
         CallIsSound(p)', \A a \in answers' \ answers : AnswerHolds(a)'
  PROVE  AgentInv'
<1>1. NumbersAreBounded'
  <2>1. PICK b \in Nat : \A e \in log : e.number <= b
    BY DEF AgentInv, Typed, NumbersAreBounded
  <2>2. event.number \in Nat /\ \A e \in log : e.number \in Nat
    BY DEF AgentInv, Typed, TypeOK, Events
  <2>3. \A e \in log' : e.number <= b + event.number
    BY <2>1, <2>2
  <2>4. b + event.number \in Nat
    BY <2>2
  <2> QED
    BY <2>3, <2>4 DEF NumbersAreBounded
<1>2. Typed'
  <2>1. /\ tasks' \subseteq Runs /\ run' \in [Runs -> {"absent", "queued", "cancelled"}]
        /\ plans' \in [Runs -> Seq(Plans)] /\ log' \subseteq Events
        /\ permit' \in [Permits -> PermitRecords \cup {NotIssued}]
        /\ held' \in [Runtimes -> SUBSET Permits] /\ UNCHANGED <<unusable, sequence, bounds>>
    BY DEF AgentInv, Typed, TypeOK, ledger
  <2> QED
    BY <1>1, <2>1, TypedIsKept
<1>3. Grows /\ SparesOthers(p) /\ StoresAreSound'
  BY DEF Grows, SparesOthers, AgentInv, StoresAreSound, ledger
<1>4. OneCreator'
  BY CreatorsStay
<1>5. \A k \in Permits : PermitIsSound(k)'
  BY DEF AgentInv, PermitIsSound, ledger
<1>6. \A e \in log' \ log : EventIsSound(e)'
  <2>1. EventIsSound(event)'
    BY DEF EventIsSound, ledger
  <2> QED
    BY <2>1
<1> QED
  BY <1>2, <1>3, <1>4, <1>5, <1>6, StepKeepsInv

LEMMA RunCreatedKeepsInv ==
  ASSUME AgentInv, NEW p \in Runtimes, AppendRunCreated(p)
  PROVE  AgentInv'
<1> DEFINE c == [call[p] EXCEPT !.phase = "plan"]
           r == call[p].run
           event == Event(p, "created", 1)
<1>0. CallIsSound(p) /\ call[p].phase = "created" /\ call[p].tool \in Tools \cup {"none"}
  BY CallTyped DEF AppendRunCreated, At, AgentInv
<1>1. call[p].tool = "create_task" /\ r \in Runs /\ r \in tasks /\ run[r] # "absent"
      /\ plans[r] = <<>> /\ call[p].plan = FALSE
  BY <1>0, CallTyped DEF CallIsSound, CreatorIsSound, CancellerIsSound, ApproverIsSound, Tools
<1>2. /\ call' = [call EXCEPT ![p] = c] /\ log' = log \cup {event} /\ answers' = answers
      /\ UNCHANGED <<tasks, run, plans, ledger, sequence, bounds>>
  BY DEF AppendRunCreated, Goto
<1>3. /\ c \in Calls /\ c.tool = "create_task" /\ c.phase = "plan" /\ c.run = r
      /\ c.plan = FALSE /\ c.permit = call[p].permit
  BY <1>1, CallTyped DEF Calls, Phases
<1>4. /\ event \in Events /\ event.kind = "created" /\ event.run = r /\ event.plan = FALSE
  BY <1>1, CallTyped DEF Events, Event, Kinds
<1> HIDE DEF c, event
<1>5. call'[p] = c
  BY <1>2 DEF AgentInv, Typed
<1>6. EventIsSound(event)
  BY <1>1, <1>4 DEF EventIsSound
<1>7. CallIsSound(p)'
  <2>1. event \in Logged("created", call[p].run)'
    BY <1>2, <1>3, <1>4, <1>5 DEF Logged
  <2> QED
    BY <1>0, <1>1, <1>2, <1>3, <1>5, <2>1
       DEF CallIsSound, CreatorIsSound, CancellerIsSound, ApproverIsSound
<1>8. answers' \subseteq Answers
  BY <1>2 DEF AgentInv, Typed, TypeOK, Answers, Tools
<1> QED
  BY <1>1, <1>2, <1>3, <1>4, <1>6, <1>7, <1>8, AppendKeepsInv

LEMMA RunCancelledKeepsInv ==
  ASSUME AgentInv, NEW p \in Runtimes, AppendRunCancelled(p)
  PROVE  AgentInv'
<1> DEFINE r == call[p].run
           event == CancelledEvent(p)
<1>0. CallIsSound(p) /\ call[p].phase = "cancelled" /\ call[p].tool \in Tools \cup {"none"}
  BY CallTyped DEF AppendRunCancelled, At, AgentInv
<1>1. call[p].tool = "cancel_run" /\ r \in Runs /\ r \in tasks /\ run[r] = "cancelled"
      /\ call[p].plan = FALSE /\ call[p].permit = NoPermit
  BY <1>0, CallTyped DEF CallIsSound, CreatorIsSound, CancellerIsSound, ApproverIsSound, Tools
<1>2. CASE IdIsTaken(event)
  <2>1. /\ Leave(p) /\ UNCHANGED stores /\ UNCHANGED <<permit, unusable>>
        /\ held' \in [Runtimes -> SUBSET Permits] /\ sequence' \in [Runtimes -> Nat]
        /\ faults' \in 0..MaxFaults /\ restarts' \in 0..MaxRestarts
    BY <1>2 DEF AppendRunCancelled, stores, ledger, bounds, AgentInv, Typed, TypeOK
  <2> QED
    BY <2>1, LeaveKeepsInv
<1>3. CASE ~IdIsTaken(event)
  <2>1. /\ Succeed(p) /\ log' = log \cup {event}
        /\ UNCHANGED <<tasks, run, plans, ledger, sequence, bounds>>
    BY <1>3 DEF AppendRunCancelled
  <2>2. /\ event \in Events /\ event.kind = "cancelled" /\ event.run = r /\ event.plan = FALSE
        /\ event.number = 1 /\ event.permit = NoPermit
    BY <1>1, CallTyped DEF Events, Event, CancelledEvent, Kinds
  <2> HIDE DEF event
  <2>3. call' = [call EXCEPT ![p] = NoCall]
    BY <2>1 DEF Succeed
  <2>4. CallIsSound(p)'
    <3>1. call'[p] = NoCall
      BY <2>3 DEF AgentInv, Typed
    <3> QED
      BY <3>1, NoCallIsSound
  <2>5. EventIsSound(event)
    BY <1>1, <2>2 DEF EventIsSound
  <2>6. answers' \subseteq Answers
    BY <1>1, <2>1, SucceedTyped
  <2>7. ASSUME NEW a \in answers' \ answers PROVE AnswerHolds(a)'
    <3>1. a.tool = "cancel_run" /\ a.run = r
      BY <1>1, <2>1 DEF Succeed
    <3>2. event \in Logged("cancelled", a.run)'
      BY <2>1, <2>2, <3>1 DEF Logged
    <3> QED
      BY <1>1, <2>1, <3>1, <3>2 DEF AnswerHolds
  <2> QED
    BY <2>1, <2>2, <2>3, <2>4, <2>5, <2>6, <2>7, NoCallTyped, AppendKeepsInv
<1> QED
  BY <1>2, <1>3

LEMMA RuntimeEventKeepsInv ==
  ASSUME AgentInv, NEW p \in Runtimes, AppendRuntimeEvent(p)
  PROVE  AgentInv'
<1> DEFINE r == call[p].run
           event == Event(p, call[p].event, call[p].number)
<1>0. CallIsSound(p) /\ call[p].phase = "event" /\ call[p].tool \in Tools \cup {"none"}
  BY CallTyped DEF AppendRuntimeEvent, At, AgentInv
<1>1. /\ call[p].tool \in {"create_task", "approve_run"} /\ r \in Runs /\ r \in tasks
      /\ run[r] # "absent"
  BY <1>0, CallTyped DEF CallIsSound, CreatorIsSound, CancellerIsSound, ApproverIsSound, Tools
<1>2. CASE IdIsTaken(event)
  <2>1. /\ Leave(p) /\ UNCHANGED stores /\ UNCHANGED <<permit, unusable>>
        /\ held' \in [Runtimes -> SUBSET Permits] /\ sequence' \in [Runtimes -> Nat]
        /\ faults' \in 0..MaxFaults /\ restarts' \in 0..MaxRestarts
    BY <1>2 DEF AppendRuntimeEvent, stores, ledger, bounds, AgentInv, Typed, TypeOK
  <2> QED
    BY <2>1, LeaveKeepsInv
<1>3. CASE ~IdIsTaken(event)
  <2>1. /\ log' = log \cup {event}
        /\ UNCHANGED <<tasks, run, plans, ledger, sequence, bounds>>
        /\ \/ event.kind = "issued" /\ Goto(p, "task")
           \/ Succeed(p)
    BY <1>3 DEF AppendRuntimeEvent
  <2>2. /\ event \in Events /\ event.kind = call[p].event /\ event.run = r
        /\ event.plan = call[p].plan /\ event.permit = call[p].permit
    BY <1>1, CallTyped DEF Events, Event
  <2> HIDE DEF event
  <2>3. EventIsSound(event)
    BY <1>0, <1>1, <2>2 DEF EventIsSound, CallIsSound, CreatorIsSound, ApproverIsSound
  <2>4. CASE event.kind = "issued" /\ Goto(p, "task")
    <3> DEFINE c == [call[p] EXCEPT !.phase = "task"]
    <3>1. call' = [call EXCEPT ![p] = c] /\ answers' = answers
      BY <2>4 DEF Goto
    <3>2. /\ c \in Calls /\ c.tool = call[p].tool /\ c.phase = "task" /\ c.run = r
          /\ c.plan = call[p].plan /\ c.permit = call[p].permit
      BY <1>1, CallTyped DEF Calls, Phases
    <3> HIDE DEF c
    <3>3. call'[p] = c
      BY <3>1 DEF AgentInv, Typed
    <3>4. CallIsSound(p)'
      <4>1. event \in Logged("issued", call[p].run)'
        BY <2>1, <2>2, <2>4, <3>2, <3>3 DEF Logged
      <4>2. call[p].tool = "approve_run"
        BY <1>0, <1>1, <2>2, <2>4 DEF CallIsSound, CreatorIsSound
      <4>3. permit' = permit
        BY <2>1 DEF ledger
      <4> QED
        BY <1>0, <1>1, <2>1, <2>2, <3>2, <3>3, <4>1, <4>2, <4>3
           DEF CallIsSound, CreatorIsSound, CancellerIsSound, ApproverIsSound
    <3>5. answers' \subseteq Answers
      BY <3>1 DEF AgentInv, Typed, TypeOK, Answers, Tools
    <3> QED
      BY <2>1, <2>2, <2>3, <3>1, <3>2, <3>4, <3>5, AppendKeepsInv
  <2>5. CASE Succeed(p)
    <3>1. call' = [call EXCEPT ![p] = NoCall]
      BY <2>5 DEF Succeed
    <3>2. CallIsSound(p)'
      <4>1. call'[p] = NoCall
        BY <3>1 DEF AgentInv, Typed
      <4> QED
        BY <4>1, NoCallIsSound
    <3>3. answers' \subseteq Answers
      BY <1>1, <2>5, SucceedTyped
    <3>4. ASSUME NEW a \in answers' \ answers PROVE AnswerHolds(a)'
      <4>1. a.tool = call[p].tool /\ a.run = r /\ a.permit = call[p].permit /\ a.plan = call[p].plan
        BY <2>5 DEF Succeed
      <4>2. CASE call[p].tool = "create_task"
        <5>1. Logged("created", r) # {} /\ call[p].event = "create_task"
              /\ (call[p].plan = TRUE => plans[r] # <<>>)
          BY <1>0, <4>2 DEF CallIsSound, CreatorIsSound
        <5>2. Logged("created", r) \subseteq Logged("created", a.run)'
          BY <2>1, <4>1 DEF Logged
        <5>3. event \in Logged("create_task", a.run)'
          BY <2>1, <2>2, <4>1, <5>1 DEF Logged
        <5> QED
          BY <1>1, <2>1, <4>1, <4>2, <5>1, <5>2, <5>3 DEF AnswerHolds
      <4>3. CASE call[p].tool = "approve_run"
        <5>1. event \in Logged("issued", a.run)'
          BY <1>0, <2>1, <2>2, <4>1, <4>3 DEF Logged, CallIsSound, ApproverIsSound
        <5> QED
          BY <2>2, <4>1, <4>3, <5>1 DEF AnswerHolds
      <4> QED
        BY <1>1, <4>2, <4>3
    <3> QED
      BY <2>1, <2>2, <2>3, <3>1, <3>2, <3>3, <3>4, NoCallTyped, AppendKeepsInv
  <2> QED
    BY <2>1, <2>4, <2>5
<1> QED
  BY <1>2, <1>3

LEMMA PlanKeepsInv ==
  ASSUME AgentInv, NEW p \in Runtimes, MaybePlanProviderExecution(p)
  PROVE  AgentInv'
<1> DEFINE r == call[p].run
<1>0. CallIsSound(p) /\ call[p].phase = "plan" /\ call[p].tool \in Tools \cup {"none"}
  BY CallTyped DEF MaybePlanProviderExecution, At, AgentInv
<1>1. /\ call[p].tool = "create_task" /\ r \in Runs /\ r \in tasks /\ run[r] # "absent"
      /\ plans[r] = <<>> /\ call[p].plan = FALSE /\ Logged("created", r) # {}
  BY <1>0, CallTyped DEF CallIsSound, CreatorIsSound, CancellerIsSound, ApproverIsSound, Tools
<1>2. /\ UNCHANGED <<tasks, run, log, ledger, sequence, answers, bounds>>
      /\ permit' = permit /\ answers' \subseteq Answers
  BY DEF MaybePlanProviderExecution, AgentInv, Typed, TypeOK, Answers, Tools, ledger
<1>3. PICK planned \in BOOLEAN, plan \in Plans :
        /\ call' = [call EXCEPT ![p] = [call[p] EXCEPT !.phase = "sequence", !.event = "create_task",
                                                       !.plan = planned]]
        /\ plans' = IF planned THEN [plans EXCEPT ![r] = Append(@, plan)] ELSE plans
  <2>0. \A e \in {"eligible", "waiting_approval", "blocked"}, k \in BOOLEAN :
          PlanFor(e, call[p].policy, k) \in Plans
    BY CallTyped DEF PlanFor, Plans, PlanStatus
  <2>1. CASE UNCHANGED plans /\ call' = [call EXCEPT ![p].phase = "sequence",
                                                     ![p].event = "create_task"]
    <3>1. [call[p] EXCEPT !.phase = "sequence", !.event = "create_task"]
          = [call[p] EXCEPT !.phase = "sequence", !.event = "create_task", !.plan = FALSE]
      BY <1>1, CallTyped DEF Calls
    <3>2. call' = [call EXCEPT ![p] = [call[p] EXCEPT !.phase = "sequence", !.event = "create_task"]]
      BY <2>1
    <3>3. PlanFor("blocked", call[p].policy, TRUE) \in Plans
      BY <2>0
    <3> QED
      BY <2>1, <3>1, <3>2, <3>3
  <2>2. ASSUME NEW e \in {"eligible", "waiting_approval", "blocked"}, NEW k \in BOOLEAN,
               plans' = [plans EXCEPT ![call[p].run] = Append(@, PlanFor(e, call[p].policy, k))],
               call' = [call EXCEPT ![p].phase = "sequence", ![p].event = "create_task",
                                    ![p].plan = TRUE]
        PROVE  \E planned \in BOOLEAN, plan \in Plans :
                 /\ call' = [call EXCEPT ![p] = [call[p] EXCEPT !.phase = "sequence",
                                                !.event = "create_task", !.plan = planned]]
                 /\ plans' = IF planned THEN [plans EXCEPT ![r] = Append(@, plan)] ELSE plans
    BY <2>0, <2>2
  <2> QED
    BY <2>1, <2>2 DEF MaybePlanProviderExecution
<1> DEFINE c == [call[p] EXCEPT !.phase = "sequence", !.event = "create_task", !.plan = planned]
<1>4. /\ c \in Calls /\ c.tool = "create_task" /\ c.phase = "sequence" /\ c.run = r
      /\ c.event = "create_task" /\ c.plan = planned /\ c.permit = call[p].permit
  BY <1>1, CallTyped DEF Calls, Phases, Kinds
<1> HIDE DEF c
<1>5. call' = [call EXCEPT ![p] = c] /\ call'[p] = c
  BY <1>3 DEF AgentInv, Typed, c
<1>6. /\ plans' \in [Runs -> Seq(Plans)] /\ \A s \in Runs : s # r => plans'[s] = plans[s]
      /\ (planned = TRUE => plans'[r] # <<>>)
  <2>1. plans \in [Runs -> Seq(Plans)]
    BY DEF AgentInv, Typed
  <2>2. Append(plans[r], plan) \in Seq(Plans) /\ Append(plans[r], plan) # <<>>
    BY <1>1, <2>1
  <2> QED
    BY <1>1, <1>3, <2>1, <2>2
<1>7. Typed'
  <2>1. /\ tasks' \subseteq Runs /\ run' \in [Runs -> {"absent", "queued", "cancelled"}]
        /\ log' \subseteq Events /\ NumbersAreBounded'
        /\ permit' \in [Permits -> PermitRecords \cup {NotIssued}]
        /\ held' \in [Runtimes -> SUBSET Permits] /\ UNCHANGED <<unusable, sequence, bounds>>
    BY <1>2 DEF AgentInv, Typed, TypeOK, ledger, NumbersAreBounded
  <2> QED
    BY <1>2, <1>4, <1>5, <1>6, <2>1, TypedIsKept
<1>8. Grows
  BY <1>1, <1>2, <1>6 DEF Grows
<1>9. SparesOthers(p)
  <2>1. \A q \in Runtimes : q # p /\ Creating(q) => call[q].run \in Runs /\ call[q].run # r
    BY <1>1, CallTyped DEF AgentInv, OneCreator, Creating
  <2> QED
    BY <1>2, <1>6, <2>1 DEF SparesOthers
<1>10. StoresAreSound'
  BY <1>1, <1>2, <1>6 DEF AgentInv, StoresAreSound
<1>11. OneCreator'
  BY <1>1, <1>4, <1>5, CreatorsStay
<1>12. CallIsSound(p)'
  <2>1. Logged("created", call[p].run)' = Logged("created", r)
    BY <1>2, <1>4, <1>5 DEF Logged
  <2> QED
    BY <1>0, <1>1, <1>2, <1>4, <1>5, <1>6, <2>1
       DEF CallIsSound, CreatorIsSound, CancellerIsSound, ApproverIsSound
<1>13. \A k \in Permits : permit[k] = NotIssued => PermitIsSound(k)'
  BY <1>2 DEF PermitIsSound
<1> QED
  BY <1>2, <1>5, <1>7, <1>8, <1>9, <1>10, <1>11, <1>12, <1>13, StepKeepsInv

LEMMA UpdateCancelledKeepsInv ==
  ASSUME AgentInv, NEW p \in Runtimes, UpdateCancelledRun(p)
  PROVE  AgentInv'
<1> DEFINE c == [call[p] EXCEPT !.phase = "cancelled"]
           r == call[p].run
<1>0. CallIsSound(p) /\ call[p].phase = "cancel" /\ call[p].tool \in Tools \cup {"none"}
  BY CallTyped DEF UpdateCancelledRun, At, AgentInv
<1>1. /\ call[p].tool = "cancel_run" /\ r \in Runs /\ r \in tasks /\ run[r] # "absent"
      /\ call[p].plan = FALSE
  BY <1>0, CallTyped DEF CallIsSound, CreatorIsSound, CancellerIsSound, ApproverIsSound, Tools
<1>2. /\ call' = [call EXCEPT ![p] = c] /\ run' = [run EXCEPT ![r] = "cancelled"]
      /\ UNCHANGED <<tasks, plans, log, ledger, sequence, bounds, answers>>
  BY DEF UpdateCancelledRun, Goto
<1>3. /\ c \in Calls /\ c.tool = "cancel_run" /\ c.phase = "cancelled" /\ c.run = r
      /\ c.plan = FALSE /\ c.permit = call[p].permit
  BY <1>1, CallTyped DEF Calls, Phases
<1> HIDE DEF c
<1>4. call'[p] = c /\ run'[r] = "cancelled" /\ \A s \in Runs : s # r => run'[s] = run[s]
  BY <1>1, <1>2 DEF AgentInv, Typed, TypeOK
<1>5. Typed'
  <2>1. /\ tasks' \subseteq Runs /\ run' \in [Runs -> {"absent", "queued", "cancelled"}]
        /\ plans' \in [Runs -> Seq(Plans)] /\ log' \subseteq Events /\ NumbersAreBounded'
        /\ permit' \in [Permits -> PermitRecords \cup {NotIssued}]
        /\ held' \in [Runtimes -> SUBSET Permits] /\ UNCHANGED <<unusable, sequence, bounds>>
        /\ answers' \subseteq Answers
    BY <1>1, <1>2 DEF AgentInv, Typed, TypeOK, ledger, Answers, Tools, NumbersAreBounded
  <2> QED
    BY <1>2, <1>3, <2>1, TypedIsKept
<1>6. Grows
  BY <1>1, <1>2, <1>4 DEF Grows, ledger
<1>7. SparesOthers(p)
  <2>1. \A q \in Runtimes : q # p /\ Creating(q) => call[q].run \in Runs
    BY CallTyped DEF Creating
  <2> QED
    BY <1>1, <1>2, <1>4, <2>1 DEF SparesOthers
<1>8. StoresAreSound'
  BY <1>1, <1>2, <1>4 DEF AgentInv, StoresAreSound
<1>9. OneCreator'
  BY <1>2, <1>3, CreatorsStay
<1>10. CallIsSound(p)'
  BY <1>0, <1>1, <1>2, <1>3, <1>4 DEF CallIsSound, CreatorIsSound, CancellerIsSound, ApproverIsSound
<1>11. /\ log' = log /\ answers' = answers
       /\ \A k \in Permits : permit[k] = NotIssued => PermitIsSound(k)'
  BY <1>2 DEF PermitIsSound, ledger
<1> QED
  BY <1>2, <1>5, <1>6, <1>7, <1>8, <1>9, <1>10, <1>11, StepKeepsInv

\* A new permit says what the run's latest plan allows.
LEMMA IssuePermitKeepsInv ==
  ASSUME AgentInv, NEW p \in Runtimes, NEW k \in Permits, IssuePermit(p, k)
  PROVE  AgentInv'
<1> DEFINE r == call[p].run
           plan == Last(plans[r])
           new == [run |-> r, scopes |-> call[p].scopes, plan |-> plan]
<1>9. PICK waits \in BOOLEAN : waits = (plan.status = "waiting_approval")
  BY Zenon
<1> DEFINE c == [call[p] EXCEPT !.phase = "sequence", !.event = "issued", !.permit = k,
                                !.waiting = waits]
<1>0. CallIsSound(p) /\ call[p].phase = "permit" /\ call[p].tool \in Tools \cup {"none"}
  BY CallTyped DEF IssuePermit, At, AgentInv
<1>1. /\ call[p].tool = "approve_run" /\ r \in Runs /\ r \in tasks /\ run[r] # "absent"
      /\ call[p].plan = FALSE /\ call[p].scopes # {}
  BY <1>0, CallTyped DEF CallIsSound, CreatorIsSound, CancellerIsSound, ApproverIsSound, Tools
<1>2. UNCHANGED <<stores, sequence, bounds>>
  BY DEF IssuePermit
<1>3. CASE Leave(p) /\ UNCHANGED ledger
  <2>1. /\ UNCHANGED stores /\ UNCHANGED <<permit, unusable>>
        /\ held' \in [Runtimes -> SUBSET Permits] /\ sequence' \in [Runtimes -> Nat]
        /\ faults' \in 0..MaxFaults /\ restarts' \in 0..MaxRestarts
    BY <1>2, <1>3 DEF ledger, bounds, AgentInv, Typed, TypeOK
  <2> QED
    BY <1>3, <2>1, LeaveKeepsInv
<1>4. CASE ~(Leave(p) /\ UNCHANGED ledger)
  <2>1. /\ permit[k] = NotIssued /\ plans[r] # <<>> /\ MayIssue(p, k, plan)
        /\ permit' = [permit EXCEPT ![k] = new]
        /\ held' = [held EXCEPT ![p] = @ \cup {k}]
        /\ call' = [call EXCEPT ![p] = c] /\ UNCHANGED <<unusable, answers>>
    BY <1>4, <1>9 DEF IssuePermit, MayIssue
  <2>2. plan \in Plans /\ call[p].scopes \subseteq plan.policy
    BY <2>1 DEF MayIssue
  <2>3. /\ plans[r] \in Seq(Plans) /\ Len(plans[r]) \in DOMAIN plans[r]
        /\ plans[r][Len(plans[r])] = plan
    BY <1>1, <2>1 DEF AgentInv, Typed, Last
  <2> HIDE DEF plan
  <2>5. /\ c \in Calls /\ c.tool = "approve_run" /\ c.phase = "sequence" /\ c.run = r
        /\ c.event = "issued" /\ c.permit = k /\ c.plan = FALSE
    <3>1. \A w \in BOOLEAN : [call[p] EXCEPT !.phase = "sequence", !.event = "issued", !.permit = k,
                                             !.waiting = w] \in Calls
      BY CallTyped DEF Calls, Phases, Kinds
    <3>2. c \in Calls
      BY <3>1
    <3> QED
      BY <1>1, <3>2, CallTyped DEF Calls
  <2>6. /\ new \in PermitRecords /\ new.run = r /\ new.scopes = call[p].scopes /\ new.plan = plan
        /\ new # NotIssued
    <3>1. new.run = r /\ new.scopes = call[p].scopes /\ new.plan = plan /\ new \in PermitRecords
      BY <1>1, <2>2, CallTyped DEF PermitRecords
    <3>2. NotIssued.run = NoRun
      BY DEF NotIssued
    <3> QED
      BY <1>1, <3>1, <3>2, AgentOsRuntimeAssumption
  <2> HIDE DEF c, new
  <2>7. /\ permit'[k] = new /\ \A j \in Permits : j # k => permit'[j] = permit[j]
        /\ permit' \in [Permits -> PermitRecords \cup {NotIssued}] /\ call'[p] = c
        /\ held' \in [Runtimes -> SUBSET Permits]
    BY <2>1, <2>6 DEF AgentInv, Typed, TypeOK
  <2>8. /\ UNCHANGED <<run, tasks, plans, log>> /\ answers' = answers /\ answers' \subseteq Answers
    BY <1>2, <2>1 DEF stores, AgentInv, Typed, TypeOK, Answers, Tools
  <2>9. Typed'
    <3>1. /\ tasks' \subseteq Runs /\ run' \in [Runs -> {"absent", "queued", "cancelled"}]
          /\ log' \subseteq Events /\ NumbersAreBounded' /\ plans' \in [Runs -> Seq(Plans)]
          /\ UNCHANGED <<unusable, sequence, bounds>>
      BY <1>2, <2>1, <2>8 DEF AgentInv, Typed, TypeOK, NumbersAreBounded
    <3> QED
      BY <2>1, <2>5, <2>7, <2>8, <3>1, TypedIsKept
  <2>10. Grows /\ SparesOthers(p) /\ StoresAreSound'
    BY <2>1, <2>7, <2>8 DEF Grows, SparesOthers, AgentInv, StoresAreSound
  <2>11. OneCreator'
    BY <2>1, <2>5, CreatorsStay
  <2>12. CallIsSound(p)'
    BY <1>1, <2>5, <2>6, <2>7, <2>8
       DEF CallIsSound, CreatorIsSound, CancellerIsSound, ApproverIsSound
  <2>13. PermitIsSound(k)'
    BY <1>1, <2>2, <2>3, <2>6, <2>7, <2>8 DEF PermitIsSound
  <2>14. \A j \in Permits : permit[j] = NotIssued => PermitIsSound(j)'
    <3>1. \A j \in Permits : j # k /\ permit[j] = NotIssued => PermitIsSound(j)'
      BY <2>7 DEF PermitIsSound
    <3> QED
      BY <2>13, <3>1
  <2> QED
    BY <2>1, <2>8, <2>9, <2>10, <2>11, <2>12, <2>14, StepKeepsInv
<1> QED
  BY <1>3, <1>4

LEMMA StutterKeepsInv ==
  ASSUME AgentInv, UNCHANGED <<stores, permit, held, sequence, call, answers, bounds>>,
         unusable' \subseteq Permits
  PROVE  AgentInv'
<1>1. UNCHANGED <<tasks, run, plans, log, permit, held, sequence, call, answers, faults, restarts>>
  BY DEF stores, bounds
<1>2. Typed' /\ StoresAreSound' /\ OneCreator'
  BY <1>1 DEF AgentInv, Typed, TypeOK, NumbersAreBounded, StoresAreSound, OneCreator, Creating
<1>3. \A k \in Permits : PermitIsSound(k)'
  BY <1>1 DEF AgentInv, PermitIsSound
<1>4. ASSUME NEW p \in Runtimes PROVE CallIsSound(p)'
  <2>1. CallIsSound(p)
    BY DEF AgentInv
  <2>2. /\ Logged("created", call[p].run)' = Logged("created", call[p].run)
        /\ Logged("issued", call[p].run)' = Logged("issued", call[p].run)
    BY <1>1 DEF Logged
  <2> QED
    BY <1>1, <2>1, <2>2 DEF CallIsSound, CreatorIsSound, CancellerIsSound, ApproverIsSound
<1>5. \A e \in log' : EventIsSound(e)'
  BY <1>1 DEF AgentInv, EventIsSound
<1>6. \A a \in answers' : AnswerHolds(a)'
  BY <1>1 DEF AgentInv, AnswerHolds, Logged
<1> QED
  BY <1>2, <1>3, <1>4, <1>5, <1>6, Zenon DEF AgentInv

-----------------------------------------------------------------------------
(* The theorems                                                            *)

LEMMA InitIsSound == Init => AgentInv
<1> SUFFICES ASSUME Init PROVE AgentInv
  OBVIOUS
<1>0. \A r \in Runs : <<>> \in Seq(Plans)
  OBVIOUS
<1>1. Typed
  <2>1. call \in [Runtimes -> Calls] /\ \A p \in Runtimes : call[p] = NoCall
    BY NoCallTyped DEF Init
  <2>2. plans \in [Runs -> Seq(Plans)] /\ NumbersAreBounded
    BY DEF Init, NumbersAreBounded
  <2>3. \A p \in Runtimes : call[p].phase \in Phases /\ call[p].run \in Runs \cup {NoRun}
    BY <2>1 DEF Calls
  <2> QED
    BY <2>1, <2>2, <2>3, AgentOsRuntimeAssumption DEF Init, Typed, TypeOK
<1>2. \A p \in Runtimes : call[p].tool = "none" /\ call[p].phase = "idle" /\ call[p].permit = NoPermit
  BY NoCallTyped DEF Init
<1>3. \A p \in Runtimes : CallIsSound(p)
  BY <1>2 DEF CallIsSound, CreatorIsSound, CancellerIsSound, ApproverIsSound
<1>4. OneCreator
  BY <1>2 DEF OneCreator, Creating
<1> QED
  BY <1>1, <1>3, <1>4 DEF Init, AgentInv, StoresAreSound, PermitIsSound

LEMMA NextKeepsInv == AgentInv /\ [Next]_vars => AgentInv'
<1> SUFFICES ASSUME AgentInv, [Next]_vars PROVE AgentInv'
  OBVIOUS
<1>1. ASSUME NEW p \in Runtimes, ToolCall(p) PROVE AgentInv'
  BY <1>1, CreateTaskKeepsInv, ApproveRunKeepsInv, CancelRunKeepsInv DEF ToolCall
<1>2. ASSUME NEW p \in Runtimes, Step(p) PROVE AgentInv'
  BY <1>2, CreateRunKeepsInv, RunCreatedKeepsInv, PlanKeepsInv, UpdateCancelledKeepsInv,
     RunCancelledKeepsInv, IssuePermitKeepsInv, ReadTaskKeepsInv, ConsumePermitKeepsInv,
     SequenceKeepsInv, RuntimeEventKeepsInv DEF Step
<1>3. ASSUME NEW k \in Permits, RevokeOrExpire(k) PROVE AgentInv'
  <2>1. unusable' \subseteq Permits
    BY <1>3 DEF RevokeOrExpire, AgentInv, Typed, TypeOK
  <2> QED
    BY <1>3, <2>1, StutterKeepsInv DEF RevokeOrExpire
<1>4. CASE UNCHANGED vars
  <2>1. unusable' \subseteq Permits
    BY <1>4 DEF vars, ledger, AgentInv, Typed, TypeOK
  <2> QED
    BY <1>4, <2>1, StutterKeepsInv DEF vars, ledger, bounds
<1> QED
  BY <1>1, <1>2, <1>3, <1>4, StoreThrowsKeepsInv, RestartKeepsInv DEF Next

LEMMA NextKeepsPlans ==
  ASSUME AgentInv, [Next]_vars, NEW r \in Runs, plans[r] # <<>>
  PROVE  plans'[r] = plans[r]
<1>1. ASSUME NEW p \in Runtimes, MaybePlanProviderExecution(p) PROVE plans'[r] = plans[r]
  <2>1. CallIsSound(p) /\ call[p].phase = "plan" /\ call[p].tool \in Tools \cup {"none"}
    BY <1>1, CallTyped DEF MaybePlanProviderExecution, At, AgentInv
  <2>2. plans[call[p].run] = <<>>
    BY <2>1 DEF CallIsSound, CreatorIsSound, CancellerIsSound, ApproverIsSound, Tools
  <2> QED
    BY <1>1, <2>2 DEF MaybePlanProviderExecution, AgentInv, Typed
<1>2. ASSUME NEW p \in Runtimes, NEW admission, ConsumePermit(p, admission)
      PROVE  plans'[r] = plans[r]
  BY <1>2, NeverEligible DEF ConsumePermit, At
<1>3. ASSUME NEW p \in Runtimes, Step(p) PROVE plans'[r] = plans[r]
  BY <1>1, <1>2, <1>3
     DEF Step, CreateRun, AppendRunCreated, UpdateCancelledRun, AppendRunCancelled, IssuePermit,
         ReadTask, NextRuntimeEventSequence, AppendRuntimeEvent, stores
<1>4. ASSUME NEW p \in Runtimes, ToolCall(p) \/ StoreThrows(p) \/ Restart(p)
      PROVE  plans'[r] = plans[r]
  BY <1>4 DEF ToolCall, CreateTask, ApproveRun, CancelRun, StoreThrows, Restart, stores
<1>5. ASSUME NEW k \in Permits, RevokeOrExpire(k) PROVE plans'[r] = plans[r]
  BY <1>5 DEF RevokeOrExpire, stores
<1>6. CASE UNCHANGED vars
  BY <1>6 DEF vars, stores
<1> QED
  BY <1>3, <1>4, <1>5, <1>6 DEF Next

\* The inductive invariant holds for every number of runtimes, runs, scopes
\* and permits: one creator for a task, permits inside a stored plan, calls
\* and events backed by the stores.
THEOREM AgentInvariant == Spec => []AgentInv
<1>1. Init => AgentInv
  BY InitIsSound
<1>2. AgentInv /\ [Next]_vars => AgentInv'
  BY NextKeepsInv
<1> QED
  BY <1>1, <1>2, PTL DEF Spec

\* What create_task, cancel_run and approve_run answered with "succeeded"
\* stays true.
THEOREM AgentAnswersAreDurable == Spec => []AnswerIsDurable
<1>1. AgentInv => AnswerIsDurable
  <2> SUFFICES ASSUME AgentInv PROVE AnswerIsDurable
    OBVIOUS
  <2> SUFFICES ASSUME NEW a \in answers
               PROVE  CASE a.tool = "create_task" -> /\ a.run \in tasks /\ run[a.run] # "absent"
                                                     /\ Logged("created", a.run) # {}
                                                     /\ Logged("create_task", a.run) # {}
                                                     /\ a.plan => plans[a.run] # <<>>
                        [] a.tool = "cancel_run" -> /\ run[a.run] = "cancelled"
                                                    /\ Logged("cancelled", a.run) # {}
                        [] OTHER -> \E e \in Logged("issued", a.run) : e.permit = a.permit
    BY DEF AnswerIsDurable
  <2>1. AnswerHolds(a)
    BY DEF AgentInv
  <2>2. a.tool \in Tools
    BY DEF AgentInv, Typed, TypeOK, Tools
  <2>3. CASE a.tool = "create_task"
    BY <2>1, <2>3 DEF AnswerHolds
  <2>4. CASE a.tool = "cancel_run"
    BY <2>1, <2>4 DEF AnswerHolds
  <2>5. CASE a.tool = "approve_run"
    BY <2>1, <2>5 DEF AnswerHolds
  <2> QED
    BY <2>2, <2>3, <2>4, <2>5 DEF Tools
<1> QED
  BY <1>1, AgentInvariant, PTL

\* The event log is never ahead of the stores, and a run is logged as
\* cancelled once.
THEOREM AgentLogIsFaithful == Spec => []LogIsFaithful
<1>1. AgentInv => LogIsTrue
  <2> SUFFICES ASSUME AgentInv, NEW e \in log
               PROVE  /\ run[e.run] # "absent" /\ e.run \in tasks
                      /\ e.plan => plans[e.run] # <<>>
                      /\ e.kind = "cancelled" => run[e.run] = "cancelled"
                      /\ e.kind = "issued" =>
                           /\ permit[e.permit].run = e.run
                           /\ \E n \in DOMAIN plans[e.run] :
                                permit[e.permit].scopes \subseteq plans[e.run][n].policy
    BY DEF LogIsTrue
  <2>1. EventIsSound(e)
    BY DEF AgentInv
  <2>2. ASSUME e.kind = "issued"
        PROVE  \E n \in DOMAIN plans[e.run] :
                 permit[e.permit].scopes \subseteq plans[e.run][n].policy
    <3>1. e.permit \in Permits /\ permit[e.permit] # NotIssued /\ permit[e.permit].run = e.run
      BY <2>1, <2>2 DEF EventIsSound
    <3>2. PermitIsSound(e.permit)
      BY <3>1 DEF AgentInv
    <3> QED
      BY <3>1, <3>2 DEF PermitIsSound
  <2> QED
    BY <2>1, <2>2 DEF EventIsSound
<1>2. AgentInv => CancelledOnce
  <2> SUFFICES ASSUME AgentInv, NEW r \in Runs PROVE Cardinality(Logged("cancelled", r)) <= 1
    BY DEF CancelledOnce
  <2> DEFINE only == [kind |-> "cancelled", run |-> r, number |-> 1, permit |-> NoPermit,
                      plan |-> FALSE]
  <2>1. Logged("cancelled", r) \subseteq {only}
    <3>1. ASSUME NEW e \in Logged("cancelled", r) PROVE e = only
      <4>1. e \in Events /\ EventIsSound(e) /\ e.kind = "cancelled" /\ e.run = r
        BY DEF Logged, AgentInv, Typed, TypeOK
      <4> QED
        BY <4>1 DEF EventIsSound, Events
    <3> QED
      BY <3>1
  <2> HIDE DEF only
  <2>2. IsFiniteSet({only}) /\ Cardinality({only}) = 1
    BY FS_Singleton
  <2>3. Cardinality(Logged("cancelled", r)) <= Cardinality({only})
    BY <2>1, <2>2, FS_Subset
  <2> QED
    BY <2>2, <2>3
<1>3. AgentInv => LogIsFaithful
  BY <1>1, <1>2 DEF LogIsFaithful, AgentInv, Typed
<1> QED
  BY <1>3, AgentInvariant, PTL

\* No approval, revocation, retry or race changes the plan a run was created
\* with.
THEOREM AgentPermitsDoNotExpand == Spec => PermitsDoNotExpand
<1>1. AgentInv /\ [Next]_vars => [\A r \in Runs : plans[r] # <<>> => plans'[r] = plans[r]]_vars
  BY NextKeepsPlans
<1> QED
  BY <1>1, AgentInvariant, PTL DEF Spec, PermitsDoNotExpand
=============================================================================
