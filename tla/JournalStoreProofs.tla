------------------------- MODULE JournalStoreProofs -------------------------
(***************************************************************************)
(* Proofs about JournalStore, for every set of processes and entries and   *)
(* every number of writes, faults, crashes and power failures: the         *)
(* invariants of the file store, and that it implements AtomicJournal.     *)
(*                                                                         *)
(* The refinement rests on what the lock guarantees: between the check of  *)
(* an entry and the rename nobody else replaces it or its temporary file,  *)
(* so the write that becomes visible is the one that was checked.          *)
(***************************************************************************)
EXTENDS JournalStore, Integers, TLAPS

Checked == {"open", "sync", "recheck", "rename"}

\* An entry is missing or was written, synced and legible.
Whole(x) == x = Absent \/ (x.state \in JournalStates /\ x.writes # 0 /\ x.synced = TRUE)

FilesAreWhole == \A j \in Entries : Whole(file[j]) /\ Whole(disk[j])

\* What a call relies on about the entry it has locked.
EntryIsHeld(c, j) ==
  /\ c.phase = "idle" => j = NoEntry
  /\ c.phase # "idle" => j \in Entries /\ j \in lock
  /\ c.phase \in {"check"} \cup Checked /\ c.op = "update" => file[j].writes < MaxWrites
  /\ c.phase \in Checked /\ c.op = "put" => file[j] = Absent
  /\ c.phase \in Checked /\ c.op = "update" =>
       file[j].state \in JournalStates /\ LegalUpdate(file[j].state, c.to)
  /\ c.phase \in {"sync", "recheck", "rename"} =>
       tmp[j].state = c.to /\ tmp[j].writes = file[j].writes + 1
  /\ c.phase \in {"recheck", "rename"} => tmp[j].synced = TRUE
  /\ c.phase = "syncDirectory" => tmp[j] = Absent
  /\ c.writes # 0 => c.writes = file[j].writes

\* What its answer may claim.
AnswerIsDue(c, j) ==
  /\ c.op = "put" => c.to = "pending_accept"
  /\ c.phase \in {"idle", "check"} \cup Checked => c.writes = 0
  /\ c.phase = "syncDirectory" => c.writes # 0
  /\ c.phase \in {"check", "syncDirectory"} \cup Checked => c.answer = "none"
  /\ c.phase = "cleanup" => c.answer \in {"refused", "failed"}
  /\ c.phase = "unlock" => c.answer \in {"ok", "refused", "failed"}
  /\ c.phase \in {"cleanup", "unlock"} /\ c.answer = "refused" => c.writes = 0
  /\ c.phase = "unlock" /\ c.answer = "ok" => c.writes # 0 /\ c.writes = disk[j].writes

CallIsSound(p) == EntryIsHeld(call[p], call[p].on) /\ AnswerIsDue(call[p], call[p].on)

JournalInv ==
  /\ TypeOK
  /\ EntryLockExcludes /\ EntryLockIsReleased
  /\ FilesAreWhole
  /\ \A p \in Processes : CallIsSound(p)

RestTyped ==
  /\ file \in [Entries -> Files] /\ disk \in [Entries -> Files] /\ tmp \in [Entries -> Files]
  /\ lock \subseteq Entries
  /\ faults \in 0..MaxFaults /\ crashes \in 0..MaxCrashes

\* What a step of another process leaves alone for q.
Spares(q) ==
  /\ call'[q] = call[q]
  /\ call[q].phase # "idle" =>
       /\ call[q].on \in lock'
       /\ file'[call[q].on] = file[call[q].on] /\ tmp'[call[q].on] = tmp[call[q].on]
       /\ disk'[call[q].on] \in {disk[call[q].on], file[call[q].on]}

LEMMA SparedIsSound ==
  ASSUME NEW q \in Processes, CallIsSound(q), Spares(q)
  PROVE  CallIsSound(q)'
<1>1. EntryIsHeld(call[q], call[q].on)'
  BY DEF CallIsSound, EntryIsHeld, AnswerIsDue, Spares, Checked
<1>2. AnswerIsDue(call[q], call[q].on)'
  BY DEF CallIsSound, EntryIsHeld, AnswerIsDue, Spares, Checked
<1> QED
  BY <1>1, <1>2 DEF CallIsSound

LEMMA CallMoves ==
  ASSUME JournalInv, NEW p \in Processes, NEW c \in Calls, call' = [call EXCEPT ![p] = c],
         RestTyped', FilesAreWhole', EntryLockIsReleased',
         EntryIsHeld(c, c.on)', AnswerIsDue(c, c.on)',
         c.phase # "idle" => \A q \in Processes \ {p} : ~Inside(q, c.on),
         \A q \in Processes \ {p} : call'[q] = call[q] => Spares(q)
  PROVE  JournalInv'
<1>1. call'[p] = c /\ \A q \in Processes \ {p} : call'[q] = call[q]
  BY DEF JournalInv, TypeOK
<1>2. TypeOK'
  BY DEF JournalInv, TypeOK, RestTyped
<1>3. EntryLockExcludes'
  BY <1>1 DEF JournalInv, EntryLockExcludes, Inside
<1>4. \A q \in Processes : CallIsSound(q)'
  BY <1>1, SparedIsSound DEF JournalInv, CallIsSound
<1> QED
  BY <1>2, <1>3, <1>4 DEF JournalInv

\* A step on the locked entry j, after which the call is still inside.
LEMMA InsideMoves ==
  ASSUME JournalInv, NEW p \in Processes, NEW j \in Entries, Inside(p, j),
         NEW c \in Calls, call' = [call EXCEPT ![p] = c], c.on = j, c.phase # "idle",
         RestTyped', FilesAreWhole', EntryIsHeld(c, j)', AnswerIsDue(c, j)',
         UNCHANGED <<lock, crashes>>, faults' = faults \/ Fault,
         \A k \in Entries \ {j} : /\ file'[k] = file[k] /\ tmp'[k] = tmp[k]
                                  /\ disk'[k] \in {disk[k], file[k]}
  PROVE  JournalInv'
<1>1. /\ TypeOK /\ EntryLockExcludes /\ EntryLockIsReleased
      /\ \A q \in Processes : CallIsSound(q)
  BY DEF JournalInv
<1>2. \A q \in Processes \ {p} : ~Inside(q, j)
  BY <1>1 DEF EntryLockExcludes
<1>3. ASSUME NEW q \in Processes \ {p}, call'[q] = call[q] PROVE Spares(q)
  <2>1. call[q].phase # "idle" => call[q].on \in Entries \ {j} /\ call[q].on \in lock
    BY <1>1, <1>2 DEF CallIsSound, EntryIsHeld, Inside
  <2> QED
    BY <1>3, <2>1 DEF Spares
<1>4. EntryLockIsReleased'
  <2>1. \A q \in Processes, k \in Entries : Inside(q, k) => Inside(q, k)'
    BY <1>1 DEF TypeOK, Inside
  <2>2. faults + crashes > 0 => faults' + crashes' > 0
    <3>1. faults \in Nat /\ crashes \in Nat /\ (faults + crashes > 0 => (faults + 1) + crashes > 0)
      BY <1>1, JournalStoreAssumption DEF JournalStoreAssumption, TypeOK
    <3> QED
      BY <3>1 DEF Fault
  <2> QED
    BY <1>1, <2>1, <2>2 DEF EntryLockIsReleased, TypeOK
<1> QED
  BY <1>2, <1>3, <1>4, CallMoves

-----------------------------------------------------------------------------
(* Steps                                                                   *)

LEMMA Goes ==
  ASSUME TypeOK, NEW p \in Processes, NEW ph \in Phases, Goto(p, ph)
  PROVE  \E c \in Calls :
           /\ call' = [call EXCEPT ![p] = c] /\ c.phase = ph /\ c.answer = call[p].answer
           /\ c.op = call[p].op /\ c.on = call[p].on /\ c.to = call[p].to /\ c.writes = call[p].writes
<1> DEFINE c == [call[p] EXCEPT !.phase = ph]
<1>1. call[p] \in Calls
  BY DEF TypeOK
<1>2. /\ c \in Calls /\ c.phase = ph /\ c.answer = call[p].answer
      /\ c.op = call[p].op /\ c.on = call[p].on /\ c.to = call[p].to /\ c.writes = call[p].writes
  BY <1>1 DEF Calls
<1>3. call' = [call EXCEPT ![p] = c]
  BY DEF Goto
<1> HIDE DEF c
<1> QED
  BY <1>2, <1>3

LEMMA Leaves ==
  ASSUME TypeOK, NEW p \in Processes, NEW ph \in Phases,
         NEW a \in {"none", "ok", "refused", "failed"}, Leave(p, ph, a)
  PROVE  \E c \in Calls :
           /\ call' = [call EXCEPT ![p] = c] /\ c.phase = ph /\ c.answer = a
           /\ c.op = call[p].op /\ c.on = call[p].on /\ c.to = call[p].to /\ c.writes = call[p].writes
<1> DEFINE c == [call[p] EXCEPT !.phase = ph, !.answer = a]
<1>1. call[p] \in Calls
  BY DEF TypeOK
<1>2. /\ c \in Calls /\ c.phase = ph /\ c.answer = a
      /\ c.op = call[p].op /\ c.on = call[p].on /\ c.to = call[p].to /\ c.writes = call[p].writes
  BY <1>1 DEF Calls
<1>3. call' = [call EXCEPT ![p] = c]
  BY DEF Leave
<1> HIDE DEF c
<1> QED
  BY <1>2, <1>3

LEMMA IdleType ==
  ASSUME NEW a \in {"none", "ok", "refused", "failed"}
  PROVE  /\ Idle(a) \in Calls /\ Idle(a).phase = "idle" /\ Idle(a).op = "put" /\ Idle(a).answer = a
         /\ Idle(a).to = "pending_accept" /\ Idle(a).writes = 0 /\ Idle(a).on = NoEntry
BY JournalStoreAssumption DEF JournalStoreAssumption, Idle, Calls, Phases, JournalStates

LEMMA AbsentType == Absent \in Files /\ Absent.state = "none" /\ Absent.writes = 0
BY JournalStoreAssumption DEF JournalStoreAssumption, Absent, Files

LEMMA FaultCounts ==
  ASSUME RestTyped, Fault
  PROVE  faults' \in 0..MaxFaults /\ faults' + crashes > 0
<1>1. faults + 1 \in 0..MaxFaults /\ (faults + 1) + crashes > 0
  BY JournalStoreAssumption DEF JournalStoreAssumption, RestTyped, Fault
<1> QED
  BY <1>1 DEF Fault

\* What a call inside knows; the start of every proof below.
LEMMA InsideFacts ==
  ASSUME JournalInv, NEW p \in Processes, call[p].phase # "idle"
  PROVE  /\ TypeOK /\ RestTyped /\ FilesAreWhole
         /\ call[p] \in Calls /\ call[p].on \in Entries /\ Inside(p, call[p].on)
         /\ EntryIsHeld(call[p], call[p].on) /\ AnswerIsDue(call[p], call[p].on)
BY DEF JournalInv, TypeOK, RestTyped, CallIsSound, EntryIsHeld, Inside

\* A step that touches nothing but the call and perhaps the faults.
LEMMA PhaseMoves ==
  ASSUME JournalInv, NEW p \in Processes, call[p].phase # "idle",
         NEW c \in Calls, call' = [call EXCEPT ![p] = c], c.on = call[p].on, c.phase # "idle",
         UNCHANGED <<file, disk, tmp, lock, crashes>>, faults' = faults \/ Fault,
         EntryIsHeld(c, call[p].on), AnswerIsDue(c, call[p].on)
  PROVE  JournalInv'
<1>1. TypeOK /\ RestTyped /\ FilesAreWhole /\ call[p].on \in Entries /\ Inside(p, call[p].on)
  BY InsideFacts
<1>2. PICK j \in Entries : j = call[p].on
  BY <1>1
<1>3. RestTyped'
  BY <1>1, FaultCounts DEF RestTyped
<1>4. FilesAreWhole'
  BY <1>1 DEF FilesAreWhole
<1>5. EntryIsHeld(c, j)' /\ AnswerIsDue(c, j)'
  BY <1>2 DEF EntryIsHeld, AnswerIsDue
<1> QED
  BY <1>1, <1>2, <1>3, <1>4, <1>5, InsideMoves

LEMMA CheckEntryKeeps ==
  ASSUME JournalInv, NEW p \in Processes, CheckEntry(p)
  PROVE  JournalInv'
<1>1. /\ TypeOK /\ FilesAreWhole /\ call[p] \in Calls /\ call[p].on \in Entries
      /\ EntryIsHeld(call[p], call[p].on) /\ AnswerIsDue(call[p], call[p].on)
      /\ call[p].phase = "check"
  BY InsideFacts DEF CheckEntry, At
<1>2. CASE Accepted(p)
  <2>1. PICK c \in Calls :
           /\ call' = [call EXCEPT ![p] = c] /\ c.phase = "open" /\ c.answer = call[p].answer
           /\ c.op = call[p].op /\ c.on = call[p].on /\ c.to = call[p].to /\ c.writes = call[p].writes
    BY <1>1, <1>2, Goes DEF CheckEntry, Phases
  <2>2. c.op = "update" =>
          file[c.on].state \in JournalStates /\ LegalUpdate(file[c.on].state, c.to)
    BY <1>1, <1>2, <2>1 DEF Accepted, FilesAreWhole, Whole
  <2>3. EntryIsHeld(c, call[p].on) /\ AnswerIsDue(c, call[p].on)
    BY <1>1, <1>2, <2>1, <2>2 DEF EntryIsHeld, AnswerIsDue, Checked, Accepted
  <2> QED
    BY <1>1, <2>1, <2>3, PhaseMoves DEF CheckEntry
<1>3. CASE ~Accepted(p)
  <2>1. PICK c \in Calls :
           /\ call' = [call EXCEPT ![p] = c] /\ c.phase = "unlock" /\ c.answer = "refused"
           /\ c.op = call[p].op /\ c.on = call[p].on /\ c.to = call[p].to /\ c.writes = call[p].writes
    BY <1>1, <1>3, Leaves DEF CheckEntry, Phases
  <2>2. EntryIsHeld(c, call[p].on) /\ AnswerIsDue(c, call[p].on)
    BY <1>1, <2>1 DEF EntryIsHeld, AnswerIsDue, Checked
  <2> QED
    BY <1>1, <2>1, <2>2, PhaseMoves DEF CheckEntry
<1> QED
  BY <1>2, <1>3

LEMMA OpenTempKeeps ==
  ASSUME JournalInv, NEW p \in Processes, OpenTemp(p)
  PROVE  JournalInv'
<1>1. /\ TypeOK /\ RestTyped /\ FilesAreWhole /\ call[p] \in Calls /\ call[p].on \in Entries
      /\ EntryIsHeld(call[p], call[p].on) /\ AnswerIsDue(call[p], call[p].on)
      /\ call[p].phase = "open" /\ Inside(p, call[p].on)
  BY InsideFacts DEF OpenTemp, At
<1>2. CASE tmp[call[p].on] # Absent
  <2>1. PICK c \in Calls :
           /\ call' = [call EXCEPT ![p] = c] /\ c.phase = "cleanup" /\ c.answer = "failed"
           /\ c.op = call[p].op /\ c.on = call[p].on /\ c.to = call[p].to /\ c.writes = call[p].writes
    BY <1>1, <1>2, Leaves DEF OpenTemp, Phases
  <2>2. EntryIsHeld(c, call[p].on) /\ AnswerIsDue(c, call[p].on)
    BY <1>1, <2>1 DEF EntryIsHeld, AnswerIsDue, Checked
  <2>3. UNCHANGED <<file, disk, tmp, lock, crashes, faults>>
    BY <1>2 DEF OpenTemp
  <2> QED
    BY <1>1, <2>1, <2>2, <2>3, PhaseMoves
<1>3. CASE tmp[call[p].on] = Absent
  <2>1. PICK c \in Calls :
           /\ call' = [call EXCEPT ![p] = c] /\ c.phase = "sync" /\ c.answer = call[p].answer
           /\ c.op = call[p].op /\ c.on = call[p].on /\ c.to = call[p].to /\ c.writes = call[p].writes
    BY <1>1, <1>3, Goes DEF OpenTemp, Phases
  <2>2. PICK j \in Entries : j = call[p].on
    BY <1>1
  <2> DEFINE x == [state |-> call[p].to, synced |-> FALSE, writes |-> file[j].writes + 1]
  <2>3. tmp' = [tmp EXCEPT ![j] = x] /\ UNCHANGED <<file, disk, lock, faults, crashes>>
    BY <1>3, <2>2 DEF OpenTemp
  <2>4. file[j].writes + 1 \in 0..MaxWrites
    <3>1. file[j] \in Files
      BY <1>1 DEF TypeOK
    <3>2. CASE call[p].op = "put"
      <4>1. file[j].writes = 0
        BY <1>1, <2>2, <3>2, AbsentType DEF EntryIsHeld, Checked
      <4> QED
        BY <4>1, JournalStoreAssumption DEF JournalStoreAssumption
    <3>3. CASE call[p].op = "update"
      <4>1. file[j].writes < MaxWrites
        BY <1>1, <2>2, <3>3 DEF EntryIsHeld, Checked
      <4> QED
        BY <3>1, <4>1, JournalStoreAssumption DEF JournalStoreAssumption, Files
    <3> QED
      BY <1>1, <3>2, <3>3 DEF Calls
  <2>5. x \in Files
    BY <1>1, <2>4 DEF Files, Calls
  <2>6. RestTyped' /\ FilesAreWhole'
    BY <1>1, <2>3, <2>5 DEF RestTyped, FilesAreWhole
  <2>7. tmp'[j].state = c.to /\ tmp'[j].writes = file'[j].writes + 1
    BY <1>1, <2>1, <2>3 DEF RestTyped
  <2>8. EntryIsHeld(c, j)' /\ AnswerIsDue(c, j)'
    BY <1>1, <2>1, <2>2, <2>3, <2>7 DEF EntryIsHeld, AnswerIsDue, Checked
  <2>9. \A k \in Entries \ {j} : tmp'[k] = tmp[k]
    BY <1>1, <2>3 DEF RestTyped
  <2> HIDE DEF x
  <2> QED
    BY <1>1, <2>1, <2>2, <2>3, <2>6, <2>8, <2>9, InsideMoves
<1> QED
  BY <1>2, <1>3

LEMMA SyncTempKeeps ==
  ASSUME JournalInv, NEW p \in Processes, SyncTemp(p)
  PROVE  JournalInv'
<1>1. /\ TypeOK /\ RestTyped /\ FilesAreWhole /\ call[p] \in Calls /\ call[p].on \in Entries
      /\ EntryIsHeld(call[p], call[p].on) /\ AnswerIsDue(call[p], call[p].on)
      /\ call[p].phase = "sync" /\ Inside(p, call[p].on)
  BY InsideFacts DEF SyncTemp, At
<1> DEFINE ph == IF call[p].op = "put" THEN "recheck" ELSE "rename"
<1>2. Goto(p, ph) /\ ph \in Phases /\ ph \in {"recheck", "rename"}
  BY DEF SyncTemp, Phases
<1> HIDE DEF ph
<1>3. PICK c \in Calls :
         /\ call' = [call EXCEPT ![p] = c] /\ c.phase = ph /\ c.answer = call[p].answer
         /\ c.op = call[p].op /\ c.on = call[p].on /\ c.to = call[p].to /\ c.writes = call[p].writes
  BY <1>1, <1>2, Goes
<1>4. PICK j \in Entries : j = call[p].on
  BY <1>1
<1>5. /\ tmp' = [tmp EXCEPT ![j].synced = TRUE]
      /\ UNCHANGED <<file, disk, lock, faults, crashes>>
  BY <1>4 DEF SyncTemp
<1>6. /\ tmp'[j].state = tmp[j].state /\ tmp'[j].writes = tmp[j].writes /\ tmp'[j].synced = TRUE
      /\ \A k \in Entries \ {j} : tmp'[k] = tmp[k]
  BY <1>1, <1>5 DEF RestTyped, Files
<1>7. RestTyped' /\ FilesAreWhole'
  <2>1. tmp' \in [Entries -> Files]
    BY <1>1, <1>5 DEF RestTyped, Files
  <2> QED
    BY <1>1, <1>5, <2>1 DEF RestTyped, FilesAreWhole
<1>8. EntryIsHeld(c, j)' /\ AnswerIsDue(c, j)'
  BY <1>1, <1>2, <1>3, <1>4, <1>5, <1>6 DEF EntryIsHeld, AnswerIsDue, Checked
<1> QED
  BY <1>1, <1>2, <1>3, <1>4, <1>5, <1>6, <1>7, <1>8, InsideMoves

LEMMA RecheckKeeps ==
  ASSUME JournalInv, NEW p \in Processes, Recheck(p)
  PROVE  JournalInv'
<1>1. /\ TypeOK /\ RestTyped /\ FilesAreWhole /\ call[p] \in Calls /\ call[p].on \in Entries
      /\ EntryIsHeld(call[p], call[p].on) /\ AnswerIsDue(call[p], call[p].on)
      /\ call[p].phase = "recheck" /\ Inside(p, call[p].on)
  BY InsideFacts DEF Recheck, At
<1>2. CASE file[call[p].on] = Absent
  <2>1. PICK c \in Calls :
           /\ call' = [call EXCEPT ![p] = c] /\ c.phase = "rename" /\ c.answer = call[p].answer
           /\ c.op = call[p].op /\ c.on = call[p].on /\ c.to = call[p].to /\ c.writes = call[p].writes
    BY <1>1, <1>2, Goes DEF Recheck, Phases
  <2>2. EntryIsHeld(c, call[p].on) /\ AnswerIsDue(c, call[p].on)
    BY <1>1, <2>1 DEF EntryIsHeld, AnswerIsDue, Checked
  <2> QED
    BY <1>1, <2>1, <2>2, PhaseMoves DEF Recheck
<1>3. CASE file[call[p].on] # Absent
  <2>1. PICK c \in Calls :
           /\ call' = [call EXCEPT ![p] = c] /\ c.phase = "cleanup" /\ c.answer = "refused"
           /\ c.op = call[p].op /\ c.on = call[p].on /\ c.to = call[p].to /\ c.writes = call[p].writes
    BY <1>1, <1>3, Leaves DEF Recheck, Phases
  <2>2. EntryIsHeld(c, call[p].on) /\ AnswerIsDue(c, call[p].on)
    BY <1>1, <2>1 DEF EntryIsHeld, AnswerIsDue, Checked
  <2> QED
    BY <1>1, <2>1, <2>2, PhaseMoves DEF Recheck
<1> QED
  BY <1>2, <1>3

LEMMA RenameKeeps ==
  ASSUME JournalInv, NEW p \in Processes, Rename(p)
  PROVE  JournalInv'
<1>1. /\ TypeOK /\ RestTyped /\ FilesAreWhole /\ call[p] \in Calls /\ call[p].on \in Entries
      /\ EntryIsHeld(call[p], call[p].on) /\ AnswerIsDue(call[p], call[p].on)
      /\ call[p].phase = "rename" /\ Inside(p, call[p].on)
  BY InsideFacts DEF Rename, At
<1>2. PICK j \in Entries : j = call[p].on
  BY <1>1
<1>3. /\ file' = [file EXCEPT ![j] = tmp[j]] /\ tmp' = [tmp EXCEPT ![j] = Absent]
      /\ call' = [call EXCEPT ![p].phase = "syncDirectory", ![p].writes = tmp[j].writes]
      /\ UNCHANGED <<disk, lock, faults, crashes>>
  BY <1>2 DEF Rename
<1>4. /\ tmp[j] \in Files /\ file[j] \in Files /\ tmp[j].state = call[p].to
      /\ tmp[j].writes = file[j].writes + 1 /\ tmp[j].synced = TRUE
  BY <1>1, <1>2 DEF EntryIsHeld, RestTyped
<1>5. tmp[j].writes # 0 /\ call[p].to \in JournalStates /\ tmp[j].writes \in 0..MaxWrites
  BY <1>1, <1>4 DEF Files, Calls
<1>6. PICK c \in Calls :
         /\ call' = [call EXCEPT ![p] = c] /\ c.phase = "syncDirectory" /\ c.answer = call[p].answer
         /\ c.op = call[p].op /\ c.on = j /\ c.to = call[p].to /\ c.writes = tmp[j].writes
  <2> DEFINE r == [call[p] EXCEPT !.phase = "syncDirectory", !.writes = tmp[j].writes]
  <2>1. /\ r \in Calls /\ r.phase = "syncDirectory" /\ r.answer = call[p].answer
        /\ r.op = call[p].op /\ r.on = j /\ r.to = call[p].to /\ r.writes = tmp[j].writes
    BY <1>1, <1>2, <1>5 DEF Calls, Phases
  <2>2. call' = [call EXCEPT ![p] = r]
    BY <1>3
  <2> HIDE DEF r
  <2> QED
    BY <2>1, <2>2
<1>7. /\ file'[j] = tmp[j] /\ tmp'[j] = Absent
      /\ \A k \in Entries \ {j} : file'[k] = file[k] /\ tmp'[k] = tmp[k]
  BY <1>1, <1>3 DEF RestTyped
<1>8. RestTyped'
  BY <1>1, <1>3, <1>4, AbsentType DEF RestTyped
<1>9. FilesAreWhole'
  BY <1>1, <1>3, <1>4, <1>5, <1>7 DEF FilesAreWhole, Whole
<1>10. EntryIsHeld(c, j)' /\ AnswerIsDue(c, j)'
  BY <1>1, <1>2, <1>3, <1>5, <1>6, <1>7 DEF EntryIsHeld, AnswerIsDue, Checked
<1> QED
  BY <1>1, <1>2, <1>3, <1>6, <1>7, <1>8, <1>9, <1>10, InsideMoves

LEMMA SyncDirectoryKeeps ==
  ASSUME JournalInv, NEW p \in Processes, SyncDirectory(p)
  PROVE  JournalInv'
<1>1. /\ TypeOK /\ RestTyped /\ FilesAreWhole /\ call[p] \in Calls /\ call[p].on \in Entries
      /\ EntryIsHeld(call[p], call[p].on) /\ AnswerIsDue(call[p], call[p].on)
      /\ call[p].phase = "syncDirectory" /\ Inside(p, call[p].on)
  BY InsideFacts DEF SyncDirectory, At
<1>2. PICK j \in Entries : j = call[p].on
  BY <1>1
<1>3. PICK c \in Calls :
         /\ call' = [call EXCEPT ![p] = c] /\ c.phase = "unlock" /\ c.answer = "ok"
         /\ c.op = call[p].op /\ c.on = call[p].on /\ c.to = call[p].to /\ c.writes = call[p].writes
  BY <1>1, Leaves DEF SyncDirectory, Phases
<1>4. disk' = file /\ UNCHANGED <<file, tmp, lock, faults, crashes>>
  BY DEF SyncDirectory
<1>5. RestTyped' /\ FilesAreWhole'
  BY <1>1, <1>4 DEF RestTyped, FilesAreWhole
<1>6. EntryIsHeld(c, j)' /\ AnswerIsDue(c, j)'
  BY <1>1, <1>2, <1>3, <1>4 DEF EntryIsHeld, AnswerIsDue, Checked
<1> QED
  BY <1>1, <1>2, <1>3, <1>4, <1>5, <1>6, InsideMoves

LEMMA WriteFailsKeeps ==
  ASSUME JournalInv, NEW p \in Processes, WriteFails(p)
  PROVE  JournalInv'
<1>1. /\ TypeOK /\ RestTyped /\ FilesAreWhole /\ call[p] \in Calls /\ call[p].on \in Entries
      /\ EntryIsHeld(call[p], call[p].on) /\ AnswerIsDue(call[p], call[p].on)
      /\ call[p].phase \in {"check", "open", "sync", "recheck", "rename", "syncDirectory"} /\ Inside(p, call[p].on)
  BY InsideFacts DEF WriteFails
<1> DEFINE ph == IF At(p, "check") THEN "unlock" ELSE "cleanup"
<1>2. Leave(p, ph, "failed") /\ ph \in Phases /\ ph \in {"unlock", "cleanup"}
  BY DEF WriteFails, Phases
<1> HIDE DEF ph
<1>3. PICK c \in Calls :
         /\ call' = [call EXCEPT ![p] = c] /\ c.phase = ph /\ c.answer = "failed"
         /\ c.op = call[p].op /\ c.on = call[p].on /\ c.to = call[p].to /\ c.writes = call[p].writes
  BY <1>1, <1>2, Leaves
<1>4. EntryIsHeld(c, call[p].on) /\ AnswerIsDue(c, call[p].on)
  BY <1>1, <1>2, <1>3 DEF EntryIsHeld, AnswerIsDue, Checked
<1> QED
  BY <1>1, <1>2, <1>3, <1>4, PhaseMoves DEF WriteFails

LEMMA CleanupKeeps ==
  ASSUME JournalInv, NEW p \in Processes, Cleanup(p)
  PROVE  JournalInv'
<1>1. /\ TypeOK /\ RestTyped /\ FilesAreWhole /\ call[p] \in Calls /\ call[p].on \in Entries
      /\ EntryIsHeld(call[p], call[p].on) /\ AnswerIsDue(call[p], call[p].on)
      /\ call[p].phase = "cleanup" /\ Inside(p, call[p].on)
  BY InsideFacts DEF Cleanup, At
<1>2. PICK c \in Calls :
         /\ call' = [call EXCEPT ![p] = c] /\ c.phase = "unlock" /\ c.answer = call[p].answer
         /\ c.op = call[p].op /\ c.on = call[p].on /\ c.to = call[p].to /\ c.writes = call[p].writes
  BY <1>1, Goes DEF Cleanup, Phases
<1>3. CASE UNCHANGED tmp /\ Fault
  <2>1. EntryIsHeld(c, call[p].on) /\ AnswerIsDue(c, call[p].on)
    BY <1>1, <1>2 DEF EntryIsHeld, AnswerIsDue, Checked
  <2> QED
    BY <1>1, <1>2, <1>3, <2>1, PhaseMoves DEF Cleanup
<1>4. CASE tmp' = [tmp EXCEPT ![call[p].on] = Absent] /\ UNCHANGED faults
  <2>1. PICK j \in Entries : j = call[p].on
    BY <1>1
  <2>2. UNCHANGED <<file, disk, lock, crashes>> /\ \A k \in Entries \ {j} : tmp'[k] = tmp[k]
    BY <1>1, <1>4, <2>1 DEF Cleanup, RestTyped
  <2>3. RestTyped' /\ FilesAreWhole'
    BY <1>1, <1>4, <2>2, AbsentType DEF RestTyped, FilesAreWhole
  <2>4. EntryIsHeld(c, j)' /\ AnswerIsDue(c, j)'
    BY <1>1, <1>2, <2>1, <2>2 DEF EntryIsHeld, AnswerIsDue, Checked
  <2> QED
    BY <1>1, <1>2, <1>4, <2>1, <2>2, <2>3, <2>4, InsideMoves
<1> QED
  BY <1>3, <1>4 DEF Cleanup

\* A call outside the lock after the step: Unlock, LockUnavailable, Crash.
LEMMA CallEnds ==
  ASSUME JournalInv, NEW p \in Processes, NEW a \in {"none", "ok", "refused", "failed"},
         call' = [call EXCEPT ![p] = Idle(a)], UNCHANGED <<file, disk, tmp>>, RestTyped',
         EntryLockIsReleased', \A k \in lock : ~Inside(p, k) => k \in lock'
  PROVE  JournalInv'
<1>1. /\ TypeOK /\ EntryLockExcludes /\ FilesAreWhole
      /\ \A q \in Processes : CallIsSound(q)
  BY DEF JournalInv
<1>2. PICK c \in Calls : c = Idle(a)
  BY IdleType
<1>3. /\ c.phase = "idle" /\ c.op = "put" /\ c.to = "pending_accept" /\ c.writes = 0
      /\ c.on = NoEntry
  BY <1>2, IdleType
<1>4. call' = [call EXCEPT ![p] = c]
  BY <1>2
<1>5. EntryIsHeld(c, c.on)' /\ AnswerIsDue(c, c.on)'
  BY <1>3 DEF EntryIsHeld, AnswerIsDue, Checked
<1>6. FilesAreWhole'
  BY <1>1 DEF FilesAreWhole
<1>7. ASSUME NEW q \in Processes \ {p}, call'[q] = call[q] PROVE Spares(q)
  <2>1. call[q].phase # "idle" => call[q].on \in lock /\ call[q].on \in Entries
    BY <1>1 DEF CallIsSound, EntryIsHeld
  <2>2. call[q].phase # "idle" => ~Inside(p, call[q].on)
    BY <1>1, <2>1 DEF EntryLockExcludes, Inside
  <2> QED
    BY <1>7, <2>1, <2>2 DEF Spares
<1> QED
  BY <1>3, <1>4, <1>5, <1>6, <1>7, CallMoves

LEMMA UnlockKeeps ==
  ASSUME JournalInv, NEW p \in Processes, Unlock(p)
  PROVE  JournalInv'
<1>1. /\ TypeOK /\ RestTyped /\ EntryLockExcludes /\ EntryLockIsReleased
      /\ call[p].phase = "unlock" /\ call[p].on \in Entries
      /\ call[p].answer \in {"none", "ok", "refused", "failed"}
  BY InsideFacts DEF JournalInv, Unlock, At, Calls
<1>2. /\ call' = [call EXCEPT ![p] = Idle(call[p].answer)]
      /\ UNCHANGED <<file, disk, tmp, crashes>>
  BY DEF Unlock
<1>3. \A q \in Processes \ {p}, k \in Entries : Inside(q, k) => Inside(q, k)'
  BY <1>1, <1>2 DEF TypeOK, Inside
<1>4. CASE lock' = lock \ {call[p].on} /\ UNCHANGED faults
  <2>1. RestTyped'
    BY <1>1, <1>2, <1>4 DEF RestTyped
  <2>2. EntryLockIsReleased'
    <3> SUFFICES ASSUME NEW j \in lock'
                 PROVE  (\E q \in Processes : Inside(q, j)') \/ faults' + crashes' > 0
      BY DEF EntryLockIsReleased
    <3>1. j \in lock /\ j \in Entries /\ ~Inside(p, j)
      BY <1>1, <1>4 DEF RestTyped, Inside
    <3>2. CASE \E q \in Processes : Inside(q, j)
      BY <1>3, <3>1, <3>2
    <3>3. CASE faults + crashes > 0
      BY <1>2, <1>4, <3>3
    <3> QED
      BY <1>1, <3>1, <3>2, <3>3 DEF EntryLockIsReleased
  <2>3. \A k \in lock : ~Inside(p, k) => k \in lock'
    BY <1>1, <1>4 DEF Inside
  <2> QED
    BY <1>1, <1>2, <2>1, <2>2, <2>3, CallEnds
<1>5. CASE UNCHANGED lock /\ Fault
  <2>1. faults' \in 0..MaxFaults /\ faults' + crashes > 0
    BY <1>1, <1>5, FaultCounts
  <2>2. RestTyped' /\ EntryLockIsReleased'
    BY <1>1, <1>2, <1>5, <2>1 DEF RestTyped, EntryLockIsReleased
  <2> QED
    BY <1>1, <1>2, <1>5, <2>2, CallEnds
<1> QED
  BY <1>4, <1>5 DEF Unlock

LEMMA LockUnavailableKeeps ==
  ASSUME JournalInv, NEW p \in Processes, NEW j \in Entries, LockUnavailable(p, j)
  PROVE  JournalInv'
<1>1. TypeOK /\ RestTyped /\ EntryLockIsReleased /\ call[p].phase = "idle"
  BY DEF JournalInv, TypeOK, RestTyped, LockUnavailable, At
<1>2. /\ call' = [call EXCEPT ![p] = Idle("failed")]
      /\ UNCHANGED <<file, disk, tmp, crashes>>
  BY DEF LockUnavailable
<1>3. CASE UNCHANGED <<lock, faults>>
  <2>1. \A q \in Processes, k \in Entries : Inside(q, k) => Inside(q, k)'
    BY <1>1, <1>2 DEF TypeOK, Inside
  <2>2. RestTyped'
    BY <1>1, <1>2, <1>3 DEF RestTyped
  <2>3. EntryLockIsReleased'
    BY <1>1, <1>2, <1>3, <2>1 DEF RestTyped, EntryLockIsReleased
  <2> QED
    BY <1>2, <1>3, <2>2, <2>3, CallEnds
<1>4. CASE Fault /\ lock' \in {lock, lock \cup {j}}
  <2>1. faults' \in 0..MaxFaults /\ faults' + crashes > 0
    BY <1>1, <1>4, FaultCounts
  <2>2. RestTyped' /\ EntryLockIsReleased'
    BY <1>1, <1>2, <1>4, <2>1 DEF RestTyped, EntryLockIsReleased
  <2> QED
    BY <1>2, <1>4, <2>2, CallEnds
<1> QED
  BY <1>3, <1>4 DEF LockUnavailable

LEMMA CrashCounts ==
  ASSUME RestTyped, crashes < MaxCrashes, crashes' = crashes + 1, faults' = faults
  PROVE  crashes' \in 0..MaxCrashes /\ faults' + crashes' > 0
<1>1. crashes + 1 \in 0..MaxCrashes /\ faults + (crashes + 1) > 0
  BY JournalStoreAssumption DEF JournalStoreAssumption, RestTyped
<1> QED
  BY <1>1

LEMMA CrashKeeps ==
  ASSUME JournalInv, NEW p \in Processes, Crash(p)
  PROVE  JournalInv'
<1>1. RestTyped
  BY DEF JournalInv, TypeOK, RestTyped
<1>2. crashes' \in 0..MaxCrashes /\ faults' + crashes' > 0
  BY <1>1, CrashCounts DEF Crash
<1>3. RestTyped' /\ EntryLockIsReleased'
  BY <1>1, <1>2 DEF Crash, RestTyped, EntryLockIsReleased
<1> QED
  BY <1>3, CallEnds DEF Crash

LEMMA AcquireKeeps ==
  ASSUME JournalInv, NEW p \in Processes, NEW op \in {"put", "update"}, NEW j \in Entries,
         NEW to \in JournalStates, op = "put" => to = "pending_accept", Acquire(p, op, j, to)
  PROVE  JournalInv'
<1>1. /\ TypeOK /\ RestTyped /\ FilesAreWhole /\ EntryLockIsReleased
      /\ \A q \in Processes : CallIsSound(q)
  BY DEF JournalInv, TypeOK, RestTyped
<1>2. /\ j \notin lock /\ lock' = lock \cup {j} /\ UNCHANGED <<file, disk, tmp, faults, crashes>>
      /\ op = "update" => file[j].writes < MaxWrites
  BY DEF Acquire, LockIsFree
<1>3. PICK c \in Calls :
         /\ call' = [call EXCEPT ![p] = c] /\ c.phase = "check" /\ c.answer = "none"
         /\ c.op = op /\ c.on = j /\ c.to = to /\ c.writes = 0
  <2> DEFINE r == [Idle("none") EXCEPT !.phase = "check", !.op = op, !.on = j, !.to = to]
  <2>1. /\ r \in Calls /\ r.phase = "check" /\ r.answer = "none"
        /\ r.op = op /\ r.on = j /\ r.to = to /\ r.writes = 0
    BY IdleType DEF Calls, Phases
  <2>2. call' = [call EXCEPT ![p] = r]
    BY DEF Acquire
  <2> HIDE DEF r
  <2> QED
    BY <2>1, <2>2
<1>4. \A q \in Processes : ~Inside(q, j)
  BY <1>1, <1>2 DEF CallIsSound, EntryIsHeld, Inside
<1>5. RestTyped' /\ FilesAreWhole'
  BY <1>1, <1>2 DEF RestTyped, FilesAreWhole
<1>6. EntryLockIsReleased'
  <2>1. call'[p] = c /\ \A q \in Processes \ {p} : call'[q] = call[q]
    BY <1>1, <1>3 DEF TypeOK
  <2>2. call[p].phase = "idle"
    BY DEF Acquire, At
  <2> QED
    BY <1>1, <1>2, <1>3, <2>1, <2>2 DEF EntryLockIsReleased, Inside
<1>7. EntryIsHeld(c, c.on)' /\ AnswerIsDue(c, c.on)'
  BY <1>2, <1>3 DEF EntryIsHeld, AnswerIsDue, Checked
<1>8. ASSUME NEW q \in Processes \ {p}, call'[q] = call[q] PROVE Spares(q)
  BY <1>1, <1>2, <1>8 DEF Spares, CallIsSound, EntryIsHeld
<1> QED
  BY <1>3, <1>4, <1>5, <1>6, <1>7, <1>8, CallMoves

\* Of whole entries nothing but the entries themselves survives.
LEMMA SurvivorsAreWhole ==
  ASSUME JournalInv, PowerFailure
  PROVE  /\ file' \in [Entries -> Files] /\ disk' = file'
         /\ \A j \in Entries : file'[j] \in {file[j], disk[j]} /\ Whole(file'[j])
<1>1. TypeOK /\ FilesAreWhole
  BY DEF JournalInv
<1>2. PICK survivors \in [Entries -> UNION {Surviving(j) : j \in Entries}] :
         /\ \A j \in Entries : survivors[j] \in Surviving(j)
         /\ file' = survivors /\ disk' = survivors
  BY DEF PowerFailure
<1>3. ASSUME NEW j \in Entries PROVE Surviving(j) \subseteq {file[j], disk[j]}
  <2>1. file[j].synced = TRUE
    BY <1>1 DEF FilesAreWhole, Whole, Absent
  <2> QED
    BY <2>1 DEF Surviving
<1>4. \A j \in Entries : file'[j] \in {file[j], disk[j]} /\ Whole(file'[j]) /\ file'[j] \in Files
  BY <1>1, <1>2, <1>3 DEF FilesAreWhole, TypeOK
<1>5. file' = [j \in Entries |-> file'[j]]
  BY <1>2
<1> QED
  BY <1>2, <1>4, <1>5

LEMMA PowerFailureKeeps ==
  ASSUME JournalInv, PowerFailure
  PROVE  JournalInv'
<1>1. RestTyped
  BY DEF JournalInv, TypeOK, RestTyped
<1>2. crashes' \in 0..MaxCrashes /\ faults' + crashes' > 0
  BY <1>1, CrashCounts DEF PowerFailure
<1>3. tmp' \in [Entries -> Files]
  BY <1>1, AbsentType DEF PowerFailure, RestTyped
<1>4. call' = [p \in Processes |-> Idle("none")]
  BY DEF PowerFailure
<1>5. TypeOK'
  BY <1>1, <1>2, <1>3, <1>4, IdleType, SurvivorsAreWhole DEF PowerFailure, RestTyped, TypeOK
<1>6. FilesAreWhole'
  BY SurvivorsAreWhole DEF FilesAreWhole
<1>7. \A p \in Processes : /\ call'[p].phase = "idle" /\ call'[p].writes = 0 /\ call'[p].on = NoEntry
                           /\ call'[p].op = "put" /\ call'[p].to = "pending_accept"
  BY <1>4, IdleType
<1>8. \A p \in Processes : CallIsSound(p)'
  BY <1>7 DEF CallIsSound, EntryIsHeld, AnswerIsDue, Checked
<1>9. EntryLockExcludes' /\ EntryLockIsReleased'
  BY <1>2, <1>7 DEF EntryLockExcludes, EntryLockIsReleased, Inside
<1> QED
  BY <1>5, <1>6, <1>8, <1>9 DEF JournalInv

LEMMA OperatorRemovesLockKeeps ==
  ASSUME JournalInv, NEW j \in Entries, OperatorRemovesLock(j)
  PROVE  JournalInv'
<1>1. /\ lock' = lock \ {j} /\ UNCHANGED <<file, disk, tmp, call, faults, crashes>>
      /\ \A p \in Processes : ~Inside(p, j)
  BY DEF OperatorRemovesLock
<1>2. TypeOK' /\ FilesAreWhole' /\ EntryLockExcludes' /\ EntryLockIsReleased'
  BY <1>1
  DEF JournalInv, TypeOK, FilesAreWhole, EntryLockExcludes, EntryLockIsReleased, Inside
<1>3. ASSUME NEW p \in Processes PROVE Spares(p)
  BY <1>1 DEF JournalInv, Spares, CallIsSound, EntryIsHeld, Inside
<1> QED
  BY <1>2, <1>3, SparedIsSound DEF JournalInv

-----------------------------------------------------------------------------
(* The invariants                                                          *)

LEMMA InitInv == Init => JournalInv
<1> SUFFICES ASSUME Init PROVE JournalInv
  OBVIOUS
<1>1. \A j \in Entries : file[j] = Absent /\ disk[j] = Absent
  BY DEF Init
<1>2. \A p \in Processes : /\ call[p].phase = "idle" /\ call[p].writes = 0 /\ call[p].on = NoEntry
                           /\ call[p].op = "put" /\ call[p].to = "pending_accept"
  BY IdleType DEF Init
<1>3. TypeOK
  <2>1. file \in [Entries -> Files] /\ disk \in [Entries -> Files] /\ tmp \in [Entries -> Files]
    BY AbsentType DEF Init
  <2>2. call \in [Processes -> Calls]
    BY IdleType DEF Init
  <2>3. faults \in 0..MaxFaults /\ crashes \in 0..MaxCrashes
    BY JournalStoreAssumption DEF JournalStoreAssumption, Init
  <2> QED
    BY <2>1, <2>2, <2>3 DEF Init, TypeOK
<1>4. \A p \in Processes : CallIsSound(p)
  BY <1>2 DEF CallIsSound, EntryIsHeld, AnswerIsDue, Checked
<1>5. EntryLockExcludes /\ EntryLockIsReleased /\ FilesAreWhole
  BY <1>1, <1>2 DEF Init, EntryLockExcludes, EntryLockIsReleased, FilesAreWhole, Whole, Inside
<1> QED
  BY <1>3, <1>4, <1>5 DEF JournalInv

LEMMA StepInv == JournalInv /\ [Next]_vars => JournalInv'
<1> SUFFICES ASSUME JournalInv, [Next]_vars PROVE JournalInv'
  OBVIOUS
<1>1. ASSUME NEW p \in Processes, Step(p) PROVE JournalInv'
  BY <1>1, CheckEntryKeeps, OpenTempKeeps, SyncTempKeeps, RecheckKeeps, RenameKeeps,
     SyncDirectoryKeeps, WriteFailsKeeps, CleanupKeeps, UnlockKeeps DEF Step
<1>2. ASSUME NEW p \in Processes, Crash(p) PROVE JournalInv'
  BY <1>2, CrashKeeps
<1>3. ASSUME NEW p \in Processes, NEW j \in Entries, Start(p, j) PROVE JournalInv'
  <2>1. CASE Acquire(p, "put", j, "pending_accept")
    BY <2>1, AcquireKeeps DEF JournalStates
  <2>2. ASSUME NEW to \in UpdateStates, Acquire(p, "update", j, to) PROVE JournalInv'
    <3>1. to \in JournalStates
      BY JournalStoreAssumption DEF JournalStoreAssumption
    <3> QED
      BY <2>2, <3>1, AcquireKeeps
  <2>3. CASE LockUnavailable(p, j)
    BY <2>3, LockUnavailableKeeps
  <2> QED
    BY <1>3, <2>1, <2>2, <2>3 DEF Start
<1>4. ASSUME NEW j \in Entries, OperatorRemovesLock(j) PROVE JournalInv'
  BY <1>4, OperatorRemovesLockKeeps
<1>5. CASE PowerFailure
  BY <1>5, PowerFailureKeeps
<1>6. CASE UNCHANGED vars
  BY <1>6
  DEF vars, JournalInv, TypeOK, EntryLockExcludes, EntryLockIsReleased, FilesAreWhole, Inside,
      CallIsSound, EntryIsHeld, AnswerIsDue
<1> QED
  BY <1>1, <1>2, <1>3, <1>4, <1>5, <1>6 DEF Next

(* The inductive invariant of the file store: what a call has checked stays  *)
(* so while it holds the lock, and what it will answer is the truth.         *)
THEOREM JournalInvariant == Spec => []JournalInv
BY InitInv, StepInv, PTL DEF Spec

(* withLock admits one call per entry, its lock outlives it only after an    *)
(* error or a crash, and no entry is ever corrupt, power failures included.  *)
THEOREM JournalIsProtected == Spec => []EntryIsProtected
<1>1. JournalInv => EntryIsProtected
  <2>1. FilesAreWhole => NeverCorrupt
    BY DEF FilesAreWhole, Whole, NeverCorrupt, Corrupt, Absent, JournalStates
  <2> QED
    BY <2>1 DEF JournalInv, EntryIsProtected
<1> QED
  BY <1>1, JournalInvariant, PTL

(* A call that came as far as writeAtomic leaves no temporary file behind,   *)
(* whatever it found there, unless an rm failed.                             *)
THEOREM JournalClearsTemp == Spec => AttemptClearsTemp
<1>1. JournalInv /\ [Next]_vars =>
        [\A p \in Processes :
           /\ call[p].phase \in {"open", "cleanup", "syncDirectory"}
           /\ call'[p].phase = "unlock" /\ faults' = faults
           => tmp'[call[p].on] = Absent]_vars
  <2> SUFFICES ASSUME JournalInv, Next, NEW p \in Processes,
                      call[p].phase \in {"open", "cleanup", "syncDirectory"},
                      call'[p].phase = "unlock", faults' = faults
               PROVE  tmp'[call[p].on] = Absent
    BY DEF vars
  <2>1. /\ TypeOK /\ RestTyped /\ call[p].on \in Entries
        /\ EntryIsHeld(call[p], call[p].on)
    BY InsideFacts
  <2>2. ~Fault
    BY <2>1 DEF Fault, RestTyped
  <2>3. Idle("none").phase = "idle"
    BY IdleType
  <2>4. ASSUME NEW q \in Processes, Step(q), q # p PROVE FALSE
    BY <2>1, <2>4, IdleType
    DEF TypeOK, Step, CheckEntry, OpenTemp, SyncTemp, Recheck, Rename, SyncDirectory, WriteFails,
        Cleanup, Unlock, Goto, Leave
  <2>5. ~PowerFailure /\ \A q \in Processes : ~Crash(q)
    BY <2>1, <2>3 DEF PowerFailure, Crash, TypeOK
  <2>6. \A q \in Processes, j \in Entries : ~Start(q, j)
    <3>1. \A op, j, to : [Idle("none") EXCEPT !.phase = "check", !.op = op, !.on = j, !.to = to].phase = "check"
      BY DEF Idle
    <3> QED
      BY <2>1, <3>1, IdleType DEF Start, Acquire, LockUnavailable, TypeOK, At
  <2>7. \A j \in Entries : ~OperatorRemovesLock(j)
    BY DEF OperatorRemovesLock
  <2>8. Step(p)
    BY <2>4, <2>5, <2>6, <2>7 DEF Next
  <2>9. CASE call[p].phase = "open"
    BY <2>1, <2>2, <2>8, <2>9
    DEF TypeOK, Step, CheckEntry, OpenTemp, SyncTemp, Recheck, Rename, SyncDirectory, WriteFails,
        Cleanup, Unlock, Goto, Leave, At, Calls
  <2>10. CASE call[p].phase = "cleanup"
    BY <2>1, <2>2, <2>8, <2>10
    DEF RestTyped, Step, CheckEntry, OpenTemp, SyncTemp, Recheck, Rename, SyncDirectory, WriteFails,
        Cleanup, Unlock, At
  <2>11. CASE call[p].phase = "syncDirectory"
    BY <2>1, <2>2, <2>8, <2>11
    DEF EntryIsHeld, Step, CheckEntry, OpenTemp, SyncTemp, Recheck, Rename, SyncDirectory, WriteFails,
        Cleanup, Unlock, At
  <2> QED
    BY <2>9, <2>10, <2>11
<1> QED
  BY <1>1, JournalInvariant, PTL DEF Spec, AttemptClearsTemp

-----------------------------------------------------------------------------
(* The refinement                                                          *)

\* The mapping of JournalStore under names, for the proofs.
EntryBar  == [j \in Entries |-> [state |-> file[j].state, writes |-> file[j].writes]]
StableBar == [j \in Entries |-> [state |-> disk[j].state, writes |-> disk[j].writes]]
EffectBar == [p \in Processes |->
                IF call[p].writes = 0 THEN [on |-> NoEntry, writes |-> 0]
                ELSE [on |-> call[p].on, writes |-> call[p].writes]]
AnswerBar == [p \in Processes |-> IF At(p, "idle") THEN call[p].answer ELSE "none"]

EffectOf(c) == IF c.writes = 0 THEN [on |-> NoEntry, writes |-> 0]
               ELSE [on |-> c.on, writes |-> c.writes]
AnswerOf(c) == IF c.phase = "idle" THEN c.answer ELSE "none"

LEMMA InitRefines == Init => Journal!Init
<1> SUFFICES ASSUME Init PROVE Journal!Init
  OBVIOUS
<1>1. \A p \in Processes : call[p].phase = "idle" /\ call[p].writes = 0 /\ call[p].answer = "none"
  BY IdleType DEF Init
<1>2. \A j \in Entries : file[j] = Absent /\ disk[j] = Absent
  BY DEF Init
<1> QED
  BY <1>1, <1>2 DEF Journal!Init, Journal!Absent, Journal!NoEffect, Absent, At

\* A step inside the lock that writes nothing is none of the abstract journal.
LEMMA StutterRefines ==
  ASSUME JournalInv, NEW p \in Processes, NEW c \in Calls, call' = [call EXCEPT ![p] = c],
         call[p].phase # "idle", c.phase # "idle", c.on = call[p].on, c.writes = call[p].writes,
         UNCHANGED <<file, disk>>
  PROVE  UNCHANGED <<EntryBar, StableBar, EffectBar, AnswerBar>>
<1>1. call \in [Processes -> Calls]
  BY DEF JournalInv, TypeOK
<1>2. call'[p] = c /\ \A q \in Processes \ {p} : call'[q] = call[q]
  BY <1>1
<1>3. \A q \in Processes : /\ call'[q].writes = call[q].writes /\ call'[q].on = call[q].on
                           /\ (call'[q].phase = "idle") = (call[q].phase = "idle")
                           /\ call[q].phase = "idle" => call'[q].answer = call[q].answer
  BY <1>2
<1>4. EffectBar' = EffectBar
  BY <1>3 DEF EffectBar
<1>5. AnswerBar' = AnswerBar
  BY <1>3 DEF AnswerBar, At
<1> QED
  BY <1>4, <1>5 DEF EntryBar, StableBar

LEMMA RenameRefines ==
  ASSUME JournalInv, NEW p \in Processes, Rename(p)
  PROVE  \E j \in Entries : Journal!Put(p, j) \/ \E to \in JournalStates : Journal!Update(p, j, to)
<1>1. /\ TypeOK /\ RestTyped /\ FilesAreWhole /\ call[p] \in Calls /\ call[p].on \in Entries
      /\ EntryIsHeld(call[p], call[p].on) /\ AnswerIsDue(call[p], call[p].on)
      /\ call[p].phase = "rename"
  BY InsideFacts DEF Rename, At
<1>2. PICK j \in Entries : j = call[p].on
  BY <1>1
<1>3. PICK to \in JournalStates : to = call[p].to
  BY <1>1 DEF Calls
<1>4. /\ file' = [file EXCEPT ![j] = tmp[j]] /\ UNCHANGED disk
      /\ call' = [call EXCEPT ![p].phase = "syncDirectory", ![p].writes = tmp[j].writes]
  BY <1>2 DEF Rename
<1>5. /\ tmp[j].state = to /\ tmp[j].writes = file[j].writes + 1 /\ file[j] \in Files
      /\ call[p].writes = 0
  BY <1>1, <1>2, <1>3 DEF EntryIsHeld, AnswerIsDue, RestTyped, Checked
<1>6. file[j].writes + 1 # 0
  BY <1>5 DEF Files
<1>7. /\ call'[p].on = j /\ call'[p].writes = file[j].writes + 1 /\ call'[p].phase = "syncDirectory"
      /\ \A q \in Processes \ {p} : call'[q] = call[q]
  BY <1>1, <1>2, <1>4, <1>5 DEF TypeOK, Calls
<1>8. file'[j].state = to /\ file'[j].writes = file[j].writes + 1
      /\ \A k \in Entries \ {j} : file'[k] = file[k]
  BY <1>1, <1>4, <1>5 DEF RestTyped
<1>9. EntryBar' = [EntryBar EXCEPT ![j] = [state |-> to, writes |-> EntryBar[j].writes + 1]]
  BY <1>8 DEF EntryBar
<1>10. EffectBar' = [EffectBar EXCEPT ![p] = [on |-> j, writes |-> EntryBar[j].writes + 1]]
  BY <1>6, <1>7 DEF EffectBar, EntryBar
<1>11. AnswerBar' = AnswerBar /\ StableBar' = StableBar /\ EffectBar[p] = [on |-> NoEntry, writes |-> 0]
  <2>1. \A q \in Processes : /\ (call'[q].phase = "idle") = (call[q].phase = "idle")
                             /\ call[q].phase = "idle" => call'[q].answer = call[q].answer
    BY <1>1, <1>7
  <2>2. AnswerBar' = AnswerBar
    BY <2>1 DEF AnswerBar, At
  <2>3. StableBar' = StableBar
    BY <1>4 DEF StableBar
  <2>4. EffectBar[p] = [on |-> NoEntry, writes |-> 0]
    BY <1>5 DEF EffectBar
  <2> QED
    BY <2>2, <2>3, <2>4
<1>12. Journal!Write(p, j, to)
  <2>1. Journal!NoEffect = [on |-> NoEntry, writes |-> 0]
    BY DEF Journal!NoEffect
  <2> QED
    BY <1>9, <1>10, <1>11, <2>1, Zenon DEF Journal!Write, EntryBar, EffectBar, AnswerBar, StableBar
<1>13. CASE call[p].op = "put"
  <2>1. file[j] = Absent /\ to = "pending_accept"
    BY <1>1, <1>2, <1>3, <1>13 DEF EntryIsHeld, AnswerIsDue, Checked
  <2> QED
    BY <1>12, <2>1 DEF Journal!Put, Journal!Absent, Absent
<1>14. CASE call[p].op = "update"
  <2>1. file[j].state \in JournalStates /\ LegalUpdate(file[j].state, to)
    BY <1>1, <1>2, <1>3, <1>14 DEF EntryIsHeld, Checked
  <2>2. file[j].state # "none"
    BY <2>1 DEF JournalStates
  <2>3. EntryBar[j].state = file[j].state /\ EntryBar[j] # [state |-> "none", writes |-> 0]
    BY <2>2 DEF EntryBar
  <2>4. EntryBar[j] # Journal!Absent /\ LegalUpdate(EntryBar[j].state, to)
    BY <2>1, <2>3 DEF Journal!Absent
  <2>5. Journal!LegalUpdate(EntryBar[j].state, to)
    BY <2>4 DEF LegalUpdate, JournalSuccessors, Journal!LegalUpdate, Journal!JournalSuccessors
  <2> QED
    BY <1>12, <2>4, <2>5, Zenon DEF Journal!Update, EntryBar
<1> QED
  BY <1>1, <1>13, <1>14 DEF Calls

\* What the replacement of one call's record is to the abstract journal.
LEMMA CallRefines ==
  ASSUME JournalInv, NEW p \in Processes, NEW c \in Calls, call' = [call EXCEPT ![p] = c]
  PROVE  /\ EffectBar' = [EffectBar EXCEPT ![p] = EffectOf(c)]
         /\ AnswerBar' = [AnswerBar EXCEPT ![p] = AnswerOf(c)]
         /\ EffectBar[p] = EffectOf(call[p]) /\ AnswerBar[p] = AnswerOf(call[p])
<1>1. call'[p] = c /\ \A q \in Processes \ {p} : call'[q] = call[q]
  BY DEF JournalInv, TypeOK
<1>2. EffectBar' = [EffectBar EXCEPT ![p] = EffectOf(c)]
  BY <1>1 DEF EffectBar, EffectOf
<1>3. AnswerBar' = [AnswerBar EXCEPT ![p] = AnswerOf(c)]
  BY <1>1 DEF AnswerBar, AnswerOf, At, JournalInv, TypeOK, Calls
<1>4. EffectBar[p] = EffectOf(call[p])
  BY DEF EffectBar, EffectOf
<1>5. AnswerBar[p] = AnswerOf(call[p])
  BY DEF AnswerBar, AnswerOf, At
<1> QED
  BY <1>2, <1>3, <1>4, <1>5

LEMMA NoEffectOf ==
  ASSUME NEW c, c.writes = 0
  PROVE  EffectOf(c) = Journal!NoEffect
BY DEF EffectOf, Journal!NoEffect

\* The call of an idle process has no effect.
LEMMA IdleHasNoEffect ==
  ASSUME JournalInv, NEW p \in Processes, call[p].phase = "idle"
  PROVE  EffectOf(call[p]) = Journal!NoEffect
<1>1. call[p].writes = 0
  BY DEF JournalInv, CallIsSound, AnswerIsDue
<1> QED
  BY <1>1, NoEffectOf

LEMMA AcquireRefines ==
  ASSUME JournalInv, NEW p \in Processes, NEW op \in {"put", "update"}, NEW j \in Entries,
         NEW to \in JournalStates, Acquire(p, op, j, to)
  PROVE  Journal!Begin(p)
<1> DEFINE c == [Idle("none") EXCEPT !.phase = "check", !.op = op, !.on = j, !.to = to]
<1>1. c \in Calls /\ c.phase = "check" /\ c.writes = 0
  BY IdleType DEF Calls, Phases, Idle
<1>2. call' = [call EXCEPT ![p] = c] /\ UNCHANGED <<file, disk>> /\ call[p].phase = "idle"
  BY DEF Acquire, At
<1> HIDE DEF c
<1>3. EffectOf(c) = Journal!NoEffect /\ AnswerOf(c) = "none"
  BY <1>1, NoEffectOf DEF AnswerOf
<1>4. EffectBar[p] = Journal!NoEffect
  BY <1>1, <1>2, CallRefines, IdleHasNoEffect
<1>5. EffectBar' = EffectBar
  <2>1. EffectBar' = [EffectBar EXCEPT ![p] = EffectBar[p]]
    BY <1>1, <1>2, <1>3, <1>4, CallRefines
  <2> QED
    BY <2>1 DEF EffectBar
<1>6. AnswerBar' = [AnswerBar EXCEPT ![p] = "none"]
  BY <1>1, <1>2, <1>3, CallRefines
<1>7. EntryBar' = EntryBar /\ StableBar' = StableBar
  BY <1>2 DEF EntryBar, StableBar
<1> QED
  BY <1>4, <1>5, <1>6, <1>7, Zenon DEF Journal!Begin, EntryBar, StableBar, EffectBar, AnswerBar

\* A call that returns or dies.
LEMMA EndRefines ==
  ASSUME JournalInv, NEW p \in Processes, NEW a \in {"none", "ok", "refused", "failed"},
         call' = [call EXCEPT ![p] = Idle(a)], UNCHANGED <<file, disk>>
  PROVE  /\ EntryBar' = EntryBar /\ StableBar' = StableBar
         /\ EffectBar' = [EffectBar EXCEPT ![p] = Journal!NoEffect]
         /\ AnswerBar' = [AnswerBar EXCEPT ![p] = a]
<1>0. PICK c \in Calls : c = Idle(a)
  BY IdleType
<1>1. EffectOf(c) = Journal!NoEffect /\ AnswerOf(c) = a /\ call' = [call EXCEPT ![p] = c]
  BY <1>0, IdleType, NoEffectOf DEF AnswerOf
<1>2. /\ EffectBar' = [EffectBar EXCEPT ![p] = Journal!NoEffect]
      /\ AnswerBar' = [AnswerBar EXCEPT ![p] = a]
  BY <1>1, CallRefines
<1> QED
  BY <1>2 DEF EntryBar, StableBar

LEMMA LockUnavailableRefines ==
  ASSUME JournalInv, NEW p \in Processes, NEW j \in Entries, LockUnavailable(p, j)
  PROVE  Journal!Answer(p, "failed")
<1>1. call' = [call EXCEPT ![p] = Idle("failed")] /\ UNCHANGED <<file, disk>>
  BY DEF LockUnavailable
<1>2. /\ EntryBar' = EntryBar /\ StableBar' = StableBar
      /\ EffectBar' = [EffectBar EXCEPT ![p] = Journal!NoEffect]
      /\ AnswerBar' = [AnswerBar EXCEPT ![p] = "failed"]
  BY <1>1, EndRefines
<1>3. "failed" # "ok" /\ "failed" # "refused"
  OBVIOUS
<1> QED
  BY <1>2, <1>3, Zenon DEF Journal!Answer, EntryBar, StableBar, EffectBar, AnswerBar

LEMMA CrashRefines ==
  ASSUME JournalInv, NEW p \in Processes, Crash(p)
  PROVE  Journal!Vanish(p)
<1>1. call' = [call EXCEPT ![p] = Idle("none")] /\ UNCHANGED <<file, disk>>
  BY DEF Crash
<1>2. /\ EntryBar' = EntryBar /\ StableBar' = StableBar
      /\ EffectBar' = [EffectBar EXCEPT ![p] = Journal!NoEffect]
      /\ AnswerBar' = [AnswerBar EXCEPT ![p] = "none"]
  BY <1>1, EndRefines
<1> QED
  BY <1>2, Zenon DEF Journal!Vanish, EntryBar, StableBar, EffectBar, AnswerBar

LEMMA UnlockRefines ==
  ASSUME JournalInv, NEW p \in Processes, Unlock(p)
  PROVE  \E a \in Journal!Answers : Journal!Answer(p, a)
<1>1. /\ call[p].phase = "unlock" /\ UNCHANGED <<file, disk>>
      /\ call' = [call EXCEPT ![p] = Idle(call[p].answer)]
  BY DEF Unlock, At
<1>2. /\ call[p] \in Calls /\ call[p].on \in Entries /\ RestTyped
      /\ AnswerIsDue(call[p], call[p].on)
  BY <1>1, InsideFacts
<1>3. PICK a \in {"ok", "refused", "failed"} : a = call[p].answer
  BY <1>1, <1>2 DEF AnswerIsDue
<1>4. /\ EntryBar' = EntryBar /\ StableBar' = StableBar
      /\ EffectBar' = [EffectBar EXCEPT ![p] = Journal!NoEffect]
      /\ AnswerBar' = [AnswerBar EXCEPT ![p] = a]
  BY <1>1, <1>3, EndRefines
<1>5. EffectBar[p] = EffectOf(call[p])
  BY DEF EffectBar, EffectOf
<1>6. a = "refused" => EffectBar[p] = Journal!NoEffect
  BY <1>1, <1>2, <1>3, <1>5, NoEffectOf DEF AnswerIsDue
<1>7. a = "ok" => /\ EffectBar[p] # Journal!NoEffect
                  /\ EffectBar[p].writes <= StableBar[EffectBar[p].on].writes
  <2> HAVE a = "ok"
  <2>1. call[p].writes # 0 /\ call[p].writes = disk[call[p].on].writes
    BY <1>1, <1>2, <1>3 DEF AnswerIsDue
  <2>2. EffectBar[p].on = call[p].on /\ EffectBar[p].writes = call[p].writes
    BY <1>5, <2>1 DEF EffectOf
  <2>3. EffectBar[p] # Journal!NoEffect
    BY <2>1, <2>2 DEF Journal!NoEffect
  <2>4. StableBar[call[p].on].writes = call[p].writes
    BY <1>2, <2>1 DEF StableBar
  <2>5. call[p].writes \in Nat
    BY <1>2, JournalStoreAssumption DEF JournalStoreAssumption, Calls
  <2> QED
    BY <2>2, <2>3, <2>4, <2>5
<1>8. a \in Journal!Answers
  BY DEF Journal!Answers
<1>9. Journal!Answer(p, a)
  BY <1>4, <1>6, <1>7, Zenon DEF Journal!Answer, EntryBar, StableBar, EffectBar, AnswerBar
<1> QED
  BY <1>8, <1>9

LEMMA SyncDirectoryRefines ==
  ASSUME JournalInv, NEW p \in Processes, SyncDirectory(p)
  PROVE  Journal!Stabilise
<1>1. /\ call[p].phase = "syncDirectory" /\ UNCHANGED file /\ disk' = file
      /\ Leave(p, "unlock", "ok")
  BY DEF SyncDirectory, At
<1>2. PICK c \in Calls :
        /\ call' = [call EXCEPT ![p] = c] /\ c.phase = "unlock"
        /\ c.on = call[p].on /\ c.writes = call[p].writes
  BY <1>1, Leaves DEF JournalInv, Phases
<1>3. EffectOf(c) = EffectOf(call[p]) /\ AnswerOf(c) = AnswerOf(call[p])
  BY <1>1, <1>2 DEF EffectOf, AnswerOf
<1>4. /\ EffectBar' = [EffectBar EXCEPT ![p] = EffectBar[p]]
      /\ AnswerBar' = [AnswerBar EXCEPT ![p] = AnswerBar[p]]
  <2>1. /\ EffectBar' = [EffectBar EXCEPT ![p] = EffectOf(c)]
        /\ AnswerBar' = [AnswerBar EXCEPT ![p] = AnswerOf(c)]
        /\ EffectBar[p] = EffectOf(call[p]) /\ AnswerBar[p] = AnswerOf(call[p])
    BY <1>2, CallRefines
  <2> QED
    BY <1>3, <2>1
<1>5. EffectBar' = EffectBar /\ AnswerBar' = AnswerBar
  BY <1>4 DEF EffectBar, AnswerBar
<1>6. EntryBar' = EntryBar /\ StableBar' = EntryBar
  BY <1>1 DEF EntryBar, StableBar
<1> QED
  BY <1>5, <1>6, Zenon DEF Journal!Stabilise, EntryBar, StableBar, EffectBar, AnswerBar

LEMMA PowerFailureRefines ==
  ASSUME JournalInv, PowerFailure
  PROVE  Journal!PowerFailure
<1>1. call' = [p \in Processes |-> Idle("none")]
  BY DEF PowerFailure
<1>2. \A p \in Processes : call'[p].phase = "idle" /\ call'[p].writes = 0 /\ call'[p].answer = "none"
  BY <1>1, IdleType
<1>3. EffectBar' = [p \in Processes |-> Journal!NoEffect]
  BY <1>2 DEF EffectBar, Journal!NoEffect
<1>4. AnswerBar' = [p \in Processes |-> "none"]
  BY <1>2 DEF AnswerBar, At
<1>5. StableBar' = EntryBar'
  BY SurvivorsAreWhole DEF StableBar, EntryBar
<1>6. \A j \in Entries : EntryBar'[j] \in {EntryBar[j], StableBar[j]}
  BY SurvivorsAreWhole DEF StableBar, EntryBar
<1> QED
  BY <1>3, <1>4, <1>5, <1>6, Zenon DEF Journal!PowerFailure, EntryBar, StableBar, EffectBar, AnswerBar

\* The steps of a call between its lock and its answer, but for the rename
\* and the sync of the directory.
LEMMA InsideStutters ==
  ASSUME JournalInv, NEW p \in Processes,
         CheckEntry(p) \/ OpenTemp(p) \/ SyncTemp(p) \/ Recheck(p) \/ WriteFails(p) \/ Cleanup(p)
  PROVE  UNCHANGED <<EntryBar, StableBar, EffectBar, AnswerBar>>
<1>1. call[p].phase # "idle" /\ UNCHANGED <<file, disk>>
  BY DEF CheckEntry, OpenTemp, SyncTemp, Recheck, WriteFails, Cleanup, At
<1>2. TypeOK
  BY DEF JournalInv
<1>3. \/ \E ph \in Phases \ {"idle"} : Goto(p, ph)
      \/ \E ph \in Phases \ {"idle"}, a \in {"none", "ok", "refused", "failed"} : Leave(p, ph, a)
  BY DEF CheckEntry, OpenTemp, SyncTemp, Recheck, WriteFails, Cleanup, Phases
<1> DEFINE Moved == \E c \in Calls : /\ call' = [call EXCEPT ![p] = c] /\ c.phase # "idle"
                                     /\ c.on = call[p].on /\ c.writes = call[p].writes
<1>4. Moved
  <2>1. ASSUME NEW ph \in Phases \ {"idle"}, Goto(p, ph) PROVE Moved
    BY <1>2, <2>1, Goes
  <2>2. ASSUME NEW ph \in Phases \ {"idle"}, NEW a \in {"none", "ok", "refused", "failed"}, Leave(p, ph, a)
        PROVE Moved
    BY <1>2, <2>2, Leaves
  <2> QED
    BY <1>3, <2>1, <2>2
<1> QED
  BY <1>1, <1>4, StutterRefines

\* Every step of the file store is one of the abstract journal or none.
LEMMA StepRefines == JournalInv /\ [Next]_vars => [Journal!Next]_(Journal!vars)
<1> SUFFICES ASSUME JournalInv, [Next]_vars PROVE Journal!Next \/ UNCHANGED Journal!vars
  OBVIOUS
<1> DEFINE Unmoved == UNCHANGED <<EntryBar, StableBar, EffectBar, AnswerBar>>
<1>1. Unmoved => UNCHANGED Journal!vars
  BY Zenon DEF Journal!vars, EntryBar, StableBar, EffectBar, AnswerBar
<1>2. Journal!JournalStates = JournalStates
  BY DEF Journal!JournalStates, JournalStates
<1>3. ASSUME NEW p \in Processes, Step(p) PROVE Journal!Next \/ Unmoved
  <2>1. CASE CheckEntry(p) \/ OpenTemp(p) \/ SyncTemp(p) \/ Recheck(p) \/ WriteFails(p) \/ Cleanup(p)
    BY <2>1, InsideStutters
  <2>2. CASE Rename(p)
    BY <1>2, <2>2, RenameRefines, Zenon DEF Journal!Next
  <2>3. CASE SyncDirectory(p)
    BY <2>3, SyncDirectoryRefines DEF Journal!Next
  <2>4. CASE Unlock(p)
    BY <2>4, UnlockRefines DEF Journal!Next
  <2> QED
    BY <1>3, <2>1, <2>2, <2>3, <2>4 DEF Step
<1>4. ASSUME NEW p \in Processes, Crash(p) PROVE Journal!Next
  BY <1>4, CrashRefines DEF Journal!Next
<1>5. ASSUME NEW p \in Processes, NEW j \in Entries, Start(p, j) PROVE Journal!Next
  <2>1. CASE Acquire(p, "put", j, "pending_accept")
    <3>1. Journal!Begin(p)
      BY <2>1, AcquireRefines DEF JournalStates
    <3> QED
      BY <3>1 DEF Journal!Next
  <2>2. ASSUME NEW to \in UpdateStates, Acquire(p, "update", j, to) PROVE Journal!Next
    <3>1. to \in JournalStates
      BY JournalStoreAssumption DEF JournalStoreAssumption
    <3>2. Journal!Begin(p)
      BY <2>2, <3>1, AcquireRefines
    <3> QED
      BY <3>2 DEF Journal!Next
  <2>3. CASE LockUnavailable(p, j)
    <3>1. Journal!Answer(p, "failed")
      BY <2>3, LockUnavailableRefines
    <3> QED
      BY <3>1 DEF Journal!Next, Journal!Answers
  <2> QED
    BY <1>5, <2>1, <2>2, <2>3 DEF Start
<1>6. ASSUME NEW j \in Entries, OperatorRemovesLock(j) PROVE Unmoved
  BY <1>6 DEF OperatorRemovesLock, EntryBar, StableBar, EffectBar, AnswerBar, At
<1>7. CASE PowerFailure
  BY <1>7, PowerFailureRefines DEF Journal!Next
<1>8. CASE UNCHANGED vars
  <2>1. file' = file /\ disk' = disk /\ call' = call
    BY <1>8 DEF vars
  <2>2. Unmoved
    BY <2>1 DEF EntryBar, StableBar, EffectBar, AnswerBar, At
  <2> QED
    BY <1>1, <2>2
<1> HIDE DEF Unmoved
<1> QED
  BY <1>1, <1>3, <1>4, <1>5, <1>6, <1>7, <1>8 DEF Next

(* Every behaviour of the file store is one of the journal its callers rely  *)
(* on: a put or an update is one legal step that takes place at the rename,  *)
(* "ok" is answered only of a write that outlives a power failure and        *)
(* "refused" only where nothing was written.                                 *)
THEOREM JournalImplements == Spec => ImplementsAtomicJournal
BY InitRefines, StepRefines, JournalInvariant, PTL DEF Spec, ImplementsAtomicJournal, Journal!Spec
=============================================================================
