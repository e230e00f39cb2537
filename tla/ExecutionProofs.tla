--------------------------- MODULE ExecutionProofs ---------------------------
(***************************************************************************)
(* A run that is completed was executed, for every number of steps,        *)
(* runtimes, handovers and crashes.  Every entry of every checkpoint that  *)
(* is stored, on its way, or held by a recovery pass stands for a step     *)
(* that a runtime really ran for that task (WorkInv), and what was run     *)
(* stays run.  An execution that reached the end of the graph ran the      *)
(* steps after the checkpoint it was seeded with itself, and the           *)
(* checkpoint is a whole prefix.                                           *)
(***************************************************************************)
EXTENDS CoordinatorProofs

\* The entries are of steps that attempts at the task executed.
Performed(t, entries) == \A e \in entries : att[e.by].task = t /\ e.step \in Executed(e.by)

RowsPerformed == \A t \in Tasks : \A row \in walRows[t] : Performed(t, row.entries)

AttemptsPerformed ==
    \A a \in Attempts :
        /\ att[a].cp # Nil => att[a].origin = "recover" /\ Performed(att[a].task, att[a].cp.entries)
        /\ att[a].exec = "completed" => att[a].pos = NumSteps

CallbacksPerformed ==
    \A h \in Handlers :
        /\ cb[h].pc = "checkpoint" => Performed(att[cb[h].att].task, cb[h].cp.entries)
        /\ cb[h].pc = "complete" => att[cb[h].att].pos = NumSteps

RecoveryPerformed ==
    \A w \in Workers :
        rec[w].cp \in Checkpoints => rec[w].task \in Tasks /\ Performed(rec[w].task, rec[w].cp.entries)

WorkInv ==
    RowsPerformed /\ AttemptsPerformed /\ CallbacksPerformed /\ RecoveryPerformed /\ CompletedMeansExecuted

\* What a step does to an attempt that was launched before.
AdvancesTo(a, v) ==
    /\ v.task = att[a].task /\ v.cp = att[a].cp /\ v.origin = att[a].origin
    /\ v.pos >= att[a].pos
    /\ v.exec = "completed" => (att[a].exec = "completed" /\ v.pos = att[a].pos) \/ v.pos = NumSteps

Advances(a) == AdvancesTo(a, att'[a])

\* A step that launches the attempt: with no checkpoint, or with that of a recovery.
Launches(a) ==
    /\ att[a].pc = "none" /\ att'[a].exec = "none"
    /\ \/ att'[a].cp = Nil
       \/ /\ att'[a].origin = "recover"
          /\ \E w \in Workers : rec[w].pc = "resume" /\ att'[a].task = rec[w].task /\ att'[a].cp = rec[w].cp

AttemptsAdvance == \A a \in Attempts : Advances(a) \/ Launches(a)

\* An attempt that was not launched has nothing; one that has a task was launched.
LEMMA UnusedFacts ==
  ASSUME ControlInv, NEW a \in Attempts
  PROVE  /\ att[a].pc = "none" => att[a].cp = Nil /\ att[a].exec = "none"
         /\ att[a].task \in Tasks => att[a].pc # "none"
<1>1. att[a].pc = "none" => att[a] = UnusedAttempt
  BY DEF ControlInv, ProcessOK, AttemptOK
<1>2. UnusedAttempt.cp = Nil /\ UnusedAttempt.exec = "none" /\ UnusedAttempt.task = Nil
  BY DEF UnusedAttempt
<1>3. Nil \notin Tasks
  BY StoreConstants
<1> QED BY <1>1, <1>2, <1>3

\* A callback in flight is of an attempt that was launched.
LEMMA CallbackFacts ==
  ASSUME ControlInv, NEW h \in Handlers, cb[h].pc # "idle"
  PROVE  /\ cb[h].att \in Attempts
         /\ att[cb[h].att].task \in Tasks /\ att[cb[h].att].pc # "none"
         /\ cb[h].pc = "checkpoint" => cb[h].cp \in Checkpoints
<1>1. /\ cb[h].att \in Attempts /\ att[cb[h].att].task \in Tasks
      /\ cb[h].pc = "checkpoint" => cb[h].cp \in Checkpoints
  BY DEF ControlInv, ProcessOK, CallbackOK
<1> QED BY <1>1, UnusedFacts

\* An attempt that stays as it is advances.
LEMMA SameAttempt ==
  ASSUME ControlInv, NEW a \in Attempts, att'[a] = att[a] PROVE Advances(a)
<1>1. att[a].pos \in Int
  BY StoreConstants DEF ControlInv, TypeOK, ProcessTypeOK, AttemptRecords
<1> QED BY <1>1 DEF Advances, AdvancesTo

\* A dispatch launches one attempt.
LEMMA DispatchAdvances ==
  ASSUME ControlInv, NEW t, NEW r, NEW rid, NEW cp, NEW origin, DispatchAsync(t, r, rid, cp, origin),
         cp = Nil \/ (origin = "recover" /\ \E w \in Workers : rec[w].pc = "resume" /\ t = rec[w].task /\ cp = rec[w].cp)
  PROVE  AttemptsAdvance
<1>1. PICK b \in Attempts :
        /\ att[b].pc = "none"
        /\ att' = [att EXCEPT ![b] =
                     [pc |-> "start", exec |-> "none", task |-> t, rt |-> r, rid |-> rid,
                      cp |-> cp, origin |-> origin, pos |-> ResumeStep(cp), sent |-> ResumeStep(cp) - 1]]
  BY DEF DispatchAsync, NextAttempt
<1>2. DOMAIN att = Attempts
  BY DEF ControlInv, TypeOK, ProcessTypeOK
<1>3. att'[b].exec = "none" /\ att'[b].task = t /\ att'[b].cp = cp /\ att'[b].origin = origin
  BY <1>1, <1>2
<1>4. Launches(b)
  BY <1>1, <1>3 DEF Launches
<1>5. \A a \in Attempts \ {b} : att'[a] = att[a]
  BY <1>1, <1>2
<1> QED BY <1>4, <1>5, SameAttempt DEF AttemptsAdvance

\* One attempt moves on and the others stay.
LEMMA OneAdvances ==
  ASSUME ControlInv, NEW a \in Attempts, NEW v, att' = [att EXCEPT ![a] = v], AdvancesTo(a, v)
  PROVE  AttemptsAdvance
<1>1. DOMAIN att = Attempts
  BY DEF ControlInv, TypeOK, ProcessTypeOK
<1>2. att'[a] = v /\ \A b \in Attempts \ {a} : att'[b] = att[b]
  BY <1>1
<1>3. Advances(a)
  BY <1>2 DEF Advances
<1> QED BY <1>2, <1>3, SameAttempt DEF AttemptsAdvance

\* The goroutine that talks to the runtime, and the runtime's own steps.
LEMMA DispatchingAdvances ==
  ASSUME ControlInv, NEW a \in Attempts,
         \/ DispatchPrepare(a) \/ DispatchPost(a) \/ DispatchNoReply(a)
         \/ DispatchReply(a) \/ DispatchArtifacts(a) \/ DispatchFinish(a)
         \/ RuntimeStep(a) \/ RuntimeEnd(a) \/ CheckpointLost(a)
  PROVE  AttemptsAdvance
<1>0. att[a] \in AttemptRecords /\ att[a].pos \in Int
  BY StoreConstants DEF ControlInv, TypeOK, ProcessTypeOK, AttemptRecords
<1>1. ASSUME NEW pc, att' = [att EXCEPT ![a].pc = pc] PROVE AttemptsAdvance
  <2>1. PICK v : v = [att[a] EXCEPT !.pc = pc]
    OBVIOUS
  <2>2. att' = [att EXCEPT ![a] = v]
    BY <1>1, <2>1
  <2>3. v.task = att[a].task /\ v.cp = att[a].cp /\ v.origin = att[a].origin /\ v.pos = att[a].pos
        /\ v.exec = att[a].exec
    BY <1>0, <2>1 DEF AttemptRecords
  <2>4. AdvancesTo(a, v)
    BY <1>0, <2>3 DEF AdvancesTo
  <2> QED BY <2>2, <2>4, OneAdvances
<1>2. ASSUME NEW end, end = "completed" => att[a].pos = NumSteps, att' = [att EXCEPT ![a].exec = end]
      PROVE  AttemptsAdvance
  <2>1. PICK v : v = [att[a] EXCEPT !.exec = end]
    OBVIOUS
  <2>2. att' = [att EXCEPT ![a] = v]
    BY <1>2, <2>1
  <2>3. v.task = att[a].task /\ v.cp = att[a].cp /\ v.origin = att[a].origin /\ v.pos = att[a].pos
        /\ v.exec = end
    BY <1>0, <2>1 DEF AttemptRecords
  <2>4. AdvancesTo(a, v)
    BY <1>0, <1>2, <2>3 DEF AdvancesTo
  <2> QED BY <2>2, <2>4, OneAdvances
<1>3. CASE att' = [att EXCEPT ![a].pc = "sent", ![a].exec = "running"]
  <2>1. PICK v : v = [att[a] EXCEPT !.pc = "sent", !.exec = "running"]
    OBVIOUS
  <2>2. att' = [att EXCEPT ![a] = v]
    BY <1>3, <2>1 DEF ControlInv, TypeOK, ProcessTypeOK
  <2>3. v.task = att[a].task /\ v.cp = att[a].cp /\ v.origin = att[a].origin /\ v.pos = att[a].pos
        /\ v.exec = "running"
    BY <1>0, <2>1 DEF AttemptRecords
  <2>4. AdvancesTo(a, v)
    BY <1>0, <2>3 DEF AdvancesTo
  <2> QED BY <2>2, <2>4, OneAdvances
<1>4. CASE RuntimeStep(a)
  <2>1. PICK v : v = [att[a] EXCEPT !.pos = att[a].pos + 1]
    OBVIOUS
  <2>2. att' = [att EXCEPT ![a] = v]
    BY <1>4, <2>1 DEF RuntimeStep
  <2>3. v.task = att[a].task /\ v.cp = att[a].cp /\ v.origin = att[a].origin /\ v.pos = att[a].pos + 1
        /\ v.exec = "running"
    BY <1>0, <1>4, <2>1 DEF AttemptRecords, RuntimeStep
  <2>4. AdvancesTo(a, v)
    BY <1>0, <2>3 DEF AdvancesTo
  <2> QED BY <2>2, <2>4, OneAdvances
<1>5. CASE CheckpointLost(a)
  <2>1. PICK v : v = [att[a] EXCEPT !.sent = att[a].pos - 1]
    OBVIOUS
  <2>2. att' = [att EXCEPT ![a] = v]
    BY <1>5, <2>1 DEF CheckpointLost
  <2>3. v.task = att[a].task /\ v.cp = att[a].cp /\ v.origin = att[a].origin /\ v.pos = att[a].pos
        /\ v.exec = "running"
    BY <1>0, <1>5, <2>1 DEF AttemptRecords, CheckpointLost
  <2>4. AdvancesTo(a, v)
    BY <1>0, <2>3 DEF AdvancesTo
  <2> QED BY <2>2, <2>4, OneAdvances
<1>6. CASE RuntimeEnd(a)
  BY <1>2, <1>6 DEF RuntimeEnd
<1>7. CASE \/ DispatchPrepare(a) \/ DispatchPost(a) \/ DispatchNoReply(a)
           \/ DispatchReply(a) \/ DispatchArtifacts(a) \/ DispatchFinish(a)
  <2>1. \/ \E pc \in {"post", "unreachable", "result", "finish", "done"} : att' = [att EXCEPT ![a].pc = pc]
        \/ att' = [att EXCEPT ![a].pc = "sent", ![a].exec = "running"]
    BY <1>7 DEF DispatchPrepare, DispatchPost, DispatchNoReply, DispatchReply, DispatchArtifacts, DispatchFinish
  <2> QED BY <1>1, <1>3, <2>1
<1> QED BY <1>4, <1>5, <1>6, <1>7

\* Requests, callbacks, recovery passes and restarts.
LEMMA OthersAdvance ==
  ASSUME ControlInv, Client \/ Requests \/ Crash \/ (\E w \in Workers : Recovery(w))
                     \/ (\E h \in Handlers, a \in Attempts : CallbackRead(h, a)) \/ (\E r \in Runtimes : Heartbeat(r))
  PROVE  AttemptsAdvance
<1>0. \A a \in Attempts : att[a] \in AttemptRecords /\ att[a].pos \in Int
  BY StoreConstants DEF ControlInv, TypeOK, ProcessTypeOK, AttemptRecords
<1>1. CASE UNCHANGED att
  BY <1>1, SameAttempt DEF AttemptsAdvance
<1>2. ASSUME NEW s \in Submitters, SubmitDispatch(s) PROVE AttemptsAdvance
  BY <1>1, <1>2, DispatchAdvances DEF SubmitDispatch
<1>3. ASSUME NEW p \in Approvers, ApproveDispatch(p) PROVE AttemptsAdvance
  BY <1>1, <1>3, DispatchAdvances DEF ApproveDispatch
<1>4. ASSUME NEW w \in Workers, RecoverResume(w) PROVE AttemptsAdvance
  BY <1>1, <1>4, DispatchAdvances DEF RecoverResume
<1>5. ASSUME NEW a \in Attempts, att'[a] = [att[a] EXCEPT !.exec = "stopped"] PROVE Advances(a)
  <2>1. PICK v : v = [att[a] EXCEPT !.exec = "stopped"]
    OBVIOUS
  <2>2. v.task = att[a].task /\ v.cp = att[a].cp /\ v.origin = att[a].origin /\ v.pos = att[a].pos
        /\ v.exec = "stopped"
    BY <1>0, <2>1 DEF AttemptRecords
  <2> QED BY <1>0, <1>5, <2>1, <2>2 DEF Advances, AdvancesTo
<1>6. ASSUME NEW a \in Attempts, NEW pc, att'[a] = [att[a] EXCEPT !.pc = pc] PROVE Advances(a)
  <2>1. PICK v : v = [att[a] EXCEPT !.pc = pc]
    OBVIOUS
  <2>2. v.task = att[a].task /\ v.cp = att[a].cp /\ v.origin = att[a].origin /\ v.pos = att[a].pos
        /\ v.exec = att[a].exec
    BY <1>0, <2>1 DEF AttemptRecords
  <2> QED BY <1>0, <1>6, <2>1, <2>2 DEF Advances, AdvancesTo
<1>7. ASSUME NEW t \in Tasks, CancelApply(t) PROVE AttemptsAdvance
  <2>1. UNCHANGED att \/ \A a \in Attempts : att'[a] = att[a] \/ att'[a] = [att[a] EXCEPT !.exec = "stopped"]
    BY <1>7 DEF CancelApply
  <2> QED BY <1>1, <1>5, <2>1, SameAttempt DEF AttemptsAdvance
<1>8. CASE Crash
  <2>1. \A a \in Attempts : att'[a] = att[a] \/ att'[a] = [att[a] EXCEPT !.pc = "done"]
    BY <1>8 DEF Crash
  <2> QED BY <1>6, <2>1, SameAttempt DEF AttemptsAdvance
<1>9. ASSUME NEW w \in Workers, RecoverStart(w) PROVE AttemptsAdvance
  <2>1. UNCHANGED att \/ \E a \in Attempts : att' = [att EXCEPT ![a].pc = "done"]
    BY <1>9 DEF RecoverStart
  <2>2. DOMAIN att = Attempts
    BY DEF ControlInv, TypeOK, ProcessTypeOK
  <2>3. UNCHANGED att \/ \A a \in Attempts : att'[a] = att[a] \/ att'[a] = [att[a] EXCEPT !.pc = "done"]
    BY <2>1, <2>2
  <2> QED BY <1>1, <1>6, <2>3, SameAttempt DEF AttemptsAdvance
<1>10. ASSUME NEW h \in Handlers, NEW a \in Attempts, CallbackRead(h, a) PROVE AttemptsAdvance
  <2>1. PICK v : v = [att[a] EXCEPT !.sent = att[a].pos - 1]
    OBVIOUS
  <2>2. v.task = att[a].task /\ v.cp = att[a].cp /\ v.origin = att[a].origin /\ v.pos = att[a].pos
        /\ v.exec = att[a].exec
    BY <1>0, <2>1 DEF AttemptRecords
  <2>3. UNCHANGED att \/ att' = [att EXCEPT ![a] = v]
    BY <1>10, <2>1 DEF CallbackRead
  <2>4. AdvancesTo(a, v)
    BY <1>0, <2>2 DEF AdvancesTo
  <2> QED BY <1>1, <2>3, <2>4, OneAdvances
<1>11. ASSUME NEW w \in Workers,
              \/ RecoverMark(w) \/ RecoverLoad(w) \/ RecoverCheck(w) \/ RecoverCount(w)
              \/ RecoverDLQ(w) \/ RecoverJournal(w) \/ RecoverSelect(w) \/ RecoverFail(w) \/ RecoverClaim(w)
       PROVE  UNCHANGED att
  BY <1>11 DEF RecoverMark, RecoverLoad, RecoverCheck, RecoverCount, RecoverDLQ, RecoverJournal, RecoverSelect,
               RecoverFail, RecoverClaim
<1>12. CASE Client \/ Requests
  <2>1. ASSUME NEW s \in Submitters, (\E t \in Tasks : SubmitCreate(s, t)) \/ SubmitSelect(s) \/ SubmitDemo(s) \/ SubmitClaim(s)
        PROVE  UNCHANGED att
    BY <2>1 DEF SubmitCreate, SubmitSelect, SubmitDemo, SubmitClaim
  <2>2. ASSUME NEW p \in Approvers, (\E t \in Tasks : ApproveSelect(p, t)) \/ ApproveClaim(p) PROVE UNCHANGED att
    BY <2>2 DEF ApproveSelect, ApproveClaim
  <2>3. ASSUME NEW t \in Tasks, RejectTask(t) \/ CancelRead(t) PROVE UNCHANGED att
    BY <2>3 DEF RejectTask, CancelRead
  <2>4. ASSUME NEW h \in Handlers, CallbackApply(h) PROVE UNCHANGED att
    BY <2>4 DEF CallbackApply
  <2> QED BY <1>1, <1>2, <1>3, <1>7, <1>12, <2>1, <2>2, <2>3, <2>4 DEF Client, Requests
<1>13. ASSUME NEW r \in Runtimes, Heartbeat(r) PROVE UNCHANGED att
  BY <1>13 DEF Heartbeat
<1> QED BY <1>1, <1>4, <1>8, <1>9, <1>10, <1>11, <1>12, <1>13 DEF Recovery, RecoveryStep

\* Every step.
LEMMA NextAdvances == ControlInv /\ [Next]_vars => AttemptsAdvance
<1> SUFFICES ASSUME ControlInv, [Next]_vars PROVE AttemptsAdvance
  OBVIOUS
<1>1. CASE UNCHANGED vars
  BY <1>1, SameAttempt DEF vars, AttemptsAdvance
<1> QED BY <1>1, OthersAdvance, DispatchingAdvances DEF Next, Dispatching, RuntimeSide

\* What was executed stays executed.
LEMMA PerformedStays ==
  ASSUME ControlInv, ControlInv', AttemptsAdvance, NEW t \in Tasks, NEW entries \in SUBSET WalEntries, Performed(t, entries)
  PROVE  Performed(t, entries)'
<1> SUFFICES ASSUME NEW e \in entries PROVE att'[e.by].task = t /\ e.step \in Executed(e.by)'
  BY DEF Performed
<1>1. PICK b \in Attempts : b = e.by
  BY DEF WalEntries
<1>2. att[b].task = t /\ e.step \in Executed(b)
  BY <1>1 DEF Performed
<1>3. att[b].pc # "none"
  BY <1>2, StoreConstants DEF ControlInv, ProcessOK, AttemptOK, UnusedAttempt
<1>4. AdvancesTo(b, att'[b])
  BY <1>3 DEF AttemptsAdvance, Advances, Launches
<1>5. att[b].pos \in Int /\ att[b].cp \in Checkpoints \cup {Nil}
  BY StoreConstants DEF ControlInv, TypeOK, ProcessTypeOK, AttemptRecords
<1>6. e.step \in Steps /\ ResumeStep(att[b].cp) <= e.step /\ e.step < att[b].pos
  BY <1>2 DEF Executed
<1>7. att'[b].task = t /\ att'[b].cp = att[b].cp /\ att'[b].pos >= att[b].pos
  BY <1>2, <1>4 DEF AdvancesTo
<1>8. e.step < att'[b].pos
  <2>1. att'[b].pos \in Int
    BY StoreConstants DEF ControlInv, TypeOK, ProcessTypeOK, AttemptRecords
  <2> QED BY <1>5, <1>6, <1>7, <2>1, StoreConstants DEF Steps
<1>9. e.step \in Executed(b)'
  BY <1>6, <1>7, <1>8 DEF Executed, ResumeStep
<1> QED BY <1>1, <1>7, <1>9

\* The runtime's WAL holds what it was seeded with and what it executed.
LEMMA WalPerformed ==
  ASSUME ControlInv, AttemptsPerformed, NEW a \in Attempts, att[a].pc # "none"
  PROVE  /\ WalOf(a) \in SUBSET WalEntries
         /\ Performed(att[a].task, WalOf(a))
<1>1. att[a].cp \in Checkpoints \cup {Nil} /\ att[a].pos \in 0 .. NumSteps
  BY DEF ControlInv, TypeOK, ProcessTypeOK, AttemptRecords
<1>2. ResumeStep(att[a].cp) \in 0 .. NumSteps
  BY <1>1, ResumeStepType
<1>3. ASSUME NEW e \in WalOf(a)
      PROVE  e \in WalEntries /\ att[e.by].task = att[a].task /\ e.step \in Executed(e.by)
  <2>1. CASE att[a].cp # Nil /\ e \in att[a].cp.entries
    <3>1. Performed(att[a].task, att[a].cp.entries)
      BY <2>1 DEF AttemptsPerformed
    <3>2. e \in WalEntries
      BY <1>1, <2>1 DEF Checkpoints
    <3> QED BY <2>1, <3>1, <3>2 DEF Performed
  <2>2. ASSUME NEW s \in ResumeStep(att[a].cp) .. att[a].pos - 1, e = [step |-> s, by |-> a]
        PROVE  e \in WalEntries /\ att[e.by].task = att[a].task /\ e.step \in Executed(e.by)
    <3>1. s \in Steps /\ ResumeStep(att[a].cp) <= s /\ s < att[a].pos
      BY <1>1, <1>2, StoreConstants DEF Steps
    <3>2. s \in Executed(a)
      BY <3>1 DEF Executed
    <3> QED BY <2>2, <3>1, <3>2 DEF WalEntries
  <2> QED BY <1>3, <2>1, <2>2 DEF WalOf
<1> QED BY <1>3 DEF Performed

\* What it pushes is a part of it.
LEMMA PushedPerformed ==
  ASSUME ControlInv, AttemptsPerformed, NEW a \in Attempts, att[a].pc # "none", NEW cp \in CheckpointsOf(a)
  PROVE  cp \in Checkpoints /\ Performed(att[a].task, cp.entries)
<1>1. cp \in Checkpoints
  BY PushedCheckpointType DEF ControlInv, TypeOK
<1>2. cp.entries \subseteq WalOf(a)
  BY DEF CheckpointsOf
<1> QED BY <1>1, <1>2, WalPerformed DEF Performed

\* A cumulative checkpoint has no entry that is not in one of the rows.
LEMMA BuiltEntries ==
  ASSUME NEW rows \in SUBSET Checkpoints, NEW top \in rows, \A other \in rows : other.last <= top.last,
         BuildCumulativeRecoveryCheckpoint(rows) \in Checkpoints
  PROVE  BuildCumulativeRecoveryCheckpoint(rows).entries \subseteq UNION {cp.entries : cp \in rows}
<1> DEFINE latest == CHOOSE cp \in rows : \A other \in rows : other.last <= cp.last
           merged == UNION {cp.entries : cp \in rows}
           built == [latest EXCEPT !.entries = {e \in merged : e.step <= latest.last}]
<1>1. latest \in rows
  OBVIOUS
<1>2. latest \in Checkpoints
  BY <1>1
<1> HIDE DEF latest, merged
<1>3. built.entries = {e \in merged : e.step <= latest.last}
  BY <1>2 DEF Checkpoints
<1> USE DEF latest, merged
<1>4. BuildCumulativeRecoveryCheckpoint(rows) \in {Nil, Invalid, built}
  BY DEF BuildCumulativeRecoveryCheckpoint
<1>5. BuildCumulativeRecoveryCheckpoint(rows) = built
  BY <1>4, StoreConstants, PolicyConstants
<1> HIDE DEF latest, merged, built
<1>6. built.entries \subseteq merged
  BY <1>3
<1> QED BY <1>5, <1>6 DEF merged

\* An execution that reached the end of the graph, with what it was seeded with,
\* covers every step.
LEMMA WholeGraphExecuted ==
  ASSUME ControlInv, AttemptsPerformed, NEW a \in Attempts, att[a].pc # "none", att[a].pos = NumSteps
  PROVE  \A s \in Steps : \E b \in Attempts : att[b].task = att[a].task /\ s \in Executed(b)
<1> SUFFICES ASSUME NEW s \in Steps PROVE \E b \in Attempts : att[b].task = att[a].task /\ s \in Executed(b)
  OBVIOUS
<1>1. att[a].cp \in Checkpoints \cup {Nil} /\ s \in 0 .. NumSteps - 1
  BY DEF ControlInv, TypeOK, ProcessTypeOK, AttemptRecords, Steps
<1>2. ResumeStep(att[a].cp) \in 0 .. NumSteps
  BY <1>1, ResumeStepType
<1>3. CASE ResumeStep(att[a].cp) <= s
  <2>1. s \in Executed(a)
    BY <1>1, <1>3, StoreConstants DEF Executed
  <2> QED BY <2>1
<1>4. CASE ~ (ResumeStep(att[a].cp) <= s)
  <2>1. att[a].cp # Nil
    BY <1>1, <1>4 DEF ResumeStep
  <2>2. /\ WholePrefix(att[a].cp)
        /\ Performed(att[a].task, att[a].cp.entries)
    BY <2>1 DEF AttemptsPerformed, ControlInv, ProcessOK, AttemptOK
  <2>3. att[a].cp \in Checkpoints /\ att[a].cp.last \in Int
    BY <1>1, <2>1, StoreConstants DEF Checkpoints, Steps
  <2>4. s \in 0 .. att[a].cp.last
    BY <1>1, <1>4, <2>1, <2>3 DEF ResumeStep
  <2>5. PICK e \in att[a].cp.entries : e.step = s
    BY <2>2, <2>4 DEF WholePrefix
  <2>6. e.by \in Attempts
    BY <2>3, <2>5 DEF Checkpoints, WalEntries
  <2> QED BY <2>2, <2>5, <2>6 DEF Performed
<1> QED BY <1>3, <1>4

-----------------------------------------------------------------------------
(* What a step adds                                                        *)

\* The row of a task that an execution has finished.
Finished(t) == \E a \in Attempts : att[a].task = t /\ att[a].pc # "none" /\ att[a].pos = NumSteps

RowsGain ==
    \A t \in Tasks :
        /\ \A row \in walRows'[t] : row \in walRows[t] \/ (row \in Checkpoints /\ Performed(t, row.entries))
        /\ status'[t] = "completed" => status[t] = "completed" \/ Finished(t)

CallbackGain ==
    \A h \in Handlers :
        \/ cb'[h] = cb[h]
        \/ cb'[h].pc \notin {"checkpoint", "complete"}
        \/ /\ cb'[h].att \in Attempts /\ att[cb'[h].att].pc # "none"
           /\ cb'[h].pc = "checkpoint" => cb'[h].cp \in Checkpoints /\ Performed(att[cb'[h].att].task, cb'[h].cp.entries)
           /\ cb'[h].pc = "complete" => att[cb'[h].att].pos = NumSteps

RecoveryGain ==
    \A w \in Workers :
        \/ rec'[w].cp = rec[w].cp /\ rec'[w].task = rec[w].task
        \/ rec'[w].cp \notin Checkpoints
        \/ rec'[w].task \in Tasks /\ Performed(rec'[w].task, rec'[w].cp.entries)

\* The operations that neither save a checkpoint nor complete a task add nothing.
PlainRows ==
    /\ UNCHANGED walRows
    /\ \A t \in Tasks : status'[t] = "completed" => status[t] = "completed"

\* They are all but two of the operations of the store.
LEMMA PlainCalls ==
  ASSUME StoreTypeOK, NEW t \in Tasks
  PROVE  /\ UNCHANGED storeVars => PlainRows
         /\ MarkFailedOrRejected(t) => PlainRows
         /\ CreateTask(t) \/ MarkApprovalRequired(t) \/ MarkApprovalRejected(t) \/ MarkCanceled(t) => PlainRows
         /\ CountRecoveryAttempt(t) \/ EnqueueDLQ(t) => PlainRows
         /\ WriteEffectJournalPending(t) \/ MarkEffectJournalCommitted(t) => PlainRows
         /\ \A r : MarkDispatched(t, r) \/ MarkApprovedDispatched(t, r) \/ MarkRecovering(r) => PlainRows
<1> USE DEF StoreTypeOK, PlainRows
<1>1. UNCHANGED storeVars => PlainRows
  BY DEF storeVars
<1>2. MarkFailedOrRejected(t) => PlainRows
  BY DEF MarkFailedOrRejected, MarkFailed, storeVars
<1>3. CreateTask(t) \/ MarkApprovalRequired(t) \/ MarkApprovalRejected(t) \/ MarkCanceled(t) => PlainRows
  BY DEF CreateTask, MarkApprovalRequired, MarkApprovalRejected, MarkCanceled
<1>4. CountRecoveryAttempt(t) \/ EnqueueDLQ(t) => PlainRows
  BY DEF CountRecoveryAttempt, EnqueueDLQ, rowVars
<1>5. WriteEffectJournalPending(t) \/ MarkEffectJournalCommitted(t) => PlainRows
  BY DEF WriteEffectJournalPending, MarkEffectJournalCommitted, rowVars
<1>6. ASSUME NEW r PROVE MarkDispatched(t, r) \/ MarkApprovedDispatched(t, r) \/ MarkRecovering(r) => PlainRows
  BY DEF MarkDispatched, MarkApprovedDispatched, MarkRecovering
<1> QED BY <1>1, <1>2, <1>3, <1>4, <1>5, <1>6

\* A checkpoint of steps that were performed, or the end of the whole graph.
LEMMA WorkCalls ==
  ASSUME StoreTypeOK, NEW t \in Tasks
  PROVE  /\ PlainRows => RowsGain
         /\ \A cp \in Checkpoints : Performed(t, cp.entries) /\ SaveCheckpointOrRejected(t, cp) => RowsGain
         /\ Finished(t) /\ MarkCompletedOrRejected(t) => RowsGain
<1>1. PlainRows => RowsGain
  BY DEF PlainRows, RowsGain
<1>2. UNCHANGED storeVars => RowsGain
  BY <1>1, PlainCalls
<1>3. ASSUME NEW cp \in Checkpoints, Performed(t, cp.entries), SaveCheckpointOrRejected(t, cp) PROVE RowsGain
  <2>1. CASE SaveCheckpoint(t, cp)
    <3>1. \A u \in Tasks : walRows'[u] = IF u = t THEN walRows[t] \cup {cp} ELSE walRows[u]
      BY <2>1 DEF SaveCheckpoint, StoreTypeOK
    <3>2. \A u \in Tasks : status'[u] = IF u = t THEN "checkpointed" ELSE status[u]
      BY <2>1 DEF SaveCheckpoint, StoreTypeOK
    <3> QED BY <1>3, <3>1, <3>2 DEF RowsGain
  <2> QED BY <1>2, <1>3, <2>1 DEF SaveCheckpointOrRejected
<1>4. ASSUME Finished(t), MarkCompletedOrRejected(t) PROVE RowsGain
  <2>1. CASE MarkCompleted(t)
    <3>1. UNCHANGED walRows /\ \A u \in Tasks : status'[u] = IF u = t THEN "completed" ELSE status[u]
      BY <2>1 DEF MarkCompleted, StoreTypeOK
    <3> QED BY <1>4, <3>1 DEF RowsGain
  <2> QED BY <1>2, <1>4, <2>1 DEF MarkCompletedOrRejected
<1> QED BY <1>1, <1>3, <1>4

\* Callbacks and replies bring rows of executed steps, all others bring none.
LEMMA RowsStep ==
  ASSUME ControlInv, WorkInv, [Next]_vars PROVE RowsGain
<1>0. StoreTypeOK /\ ProcessOK /\ AttemptsPerformed
  BY DEF ControlInv, TypeOK, WorkInv
<1>1. PlainRows => RowsGain
  BY DEF PlainRows, RowsGain
<1>2. ASSUME NEW s \in Submitters, NEW t \in Tasks, SubmitCreate(s, t) PROVE PlainRows
  BY <1>0, <1>2, PlainCalls DEF SubmitCreate
<1>3. ASSUME NEW s \in Submitters, SubmitSelect(s) \/ SubmitDemo(s) \/ SubmitClaim(s) \/ SubmitDispatch(s)
      PROVE  PlainRows
  <2>1. sub[s].task \in Tasks
    BY <1>0, <1>3 DEF ProcessOK, SubmitOK, SubmitSelect, SubmitDemo, SubmitClaim, SubmitDispatch
  <2>2. CASE SubmitSelect(s) \/ SubmitDemo(s) \/ SubmitDispatch(s)
    BY <1>0, <2>1, <2>2, PlainCalls DEF SubmitSelect, SubmitDemo, SubmitDispatch
  <2>3. CASE SubmitClaim(s)
    BY <1>0, <2>1, <2>3, PlainCalls DEF SubmitClaim
  <2> QED BY <1>3, <2>2, <2>3
<1>4. ASSUME NEW p \in Approvers, (\E t \in Tasks : ApproveSelect(p, t)) \/ ApproveClaim(p) \/ ApproveDispatch(p)
      PROVE  PlainRows
  <2>1. CASE \E t \in Tasks : ApproveSelect(p, t)
    BY <1>0, <2>1, PlainCalls DEF ApproveSelect
  <2>2. CASE ApproveClaim(p)
    <3>1. apr[p].task \in Tasks
      BY <1>0, <2>2 DEF ProcessOK, ApproveOK, ApproveClaim
    <3> QED BY <1>0, <2>2, <3>1, PlainCalls DEF ApproveClaim
  <2>3. CASE ApproveDispatch(p)
    <3>1. apr[p].task \in Tasks
      BY <1>0, <2>3 DEF ProcessOK, ApproveOK, ApproveDispatch
    <3> QED BY <1>0, <2>3, <3>1, PlainCalls DEF ApproveDispatch
  <2> QED BY <1>4, <2>1, <2>2, <2>3
<1>5. ASSUME NEW t \in Tasks, RejectTask(t) \/ CancelRead(t) \/ CancelApply(t) PROVE PlainRows
  BY <1>0, <1>5, PlainCalls DEF RejectTask, CancelRead, CancelApply
<1>6. ASSUME NEW h \in Handlers, CallbackApply(h) PROVE RowsGain
  <2>1. PICK a \in Attempts : a = cb[h].att
    BY <1>0, <1>6 DEF ProcessOK, CallbackOK, CallbackApply
  <2>2. att[a].task \in Tasks /\ att[a].pc # "none"
    <3>1. cb[h].pc # "idle"
      BY <1>6 DEF CallbackApply
    <3> QED BY <2>1, <3>1, CallbackFacts
  <2>3. CASE cb[h].pc = "checkpoint" /\ SaveCheckpointOrRejected(att[a].task, cb[h].cp)
    <3>1. cb[h].cp \in Checkpoints /\ Performed(att[a].task, cb[h].cp.entries)
      BY <1>0, <2>1, <2>3 DEF ProcessOK, CallbackOK, WorkInv, CallbacksPerformed
    <3> QED BY <1>0, <2>2, <2>3, <3>1, WorkCalls
  <2>4. CASE cb[h].pc = "complete" /\ MarkCompletedOrRejected(att[a].task)
    <3>1. Finished(att[a].task)
      BY <2>1, <2>2, <2>4 DEF WorkInv, CallbacksPerformed, Finished
    <3> QED BY <1>0, <2>2, <2>4, <3>1, WorkCalls
  <2>5. CASE MarkFailedOrRejected(att[a].task)
    BY <1>0, <1>1, <2>2, <2>5, PlainCalls
  <2> QED BY <1>6, <2>1, <2>3, <2>4, <2>5 DEF CallbackApply
<1>7. ASSUME NEW a \in Attempts, DispatchReply(a) PROVE RowsGain
  <2>1. att[a].task \in Tasks /\ att[a].pc # "none"
    BY <1>0, <1>7 DEF ProcessOK, AttemptOK, DispatchReply
  <2>2. ASSUME NEW cp \in CheckpointsOf(a), SaveCheckpointOrRejected(att[a].task, cp) PROVE RowsGain
    BY <1>0, <2>1, <2>2, PushedPerformed, WorkCalls
  <2>3. CASE UNCHANGED storeVars
    BY <1>0, <1>1, <2>1, <2>3, PlainCalls
  <2> QED BY <1>7, <2>2, <2>3 DEF DispatchReply
<1>8. ASSUME NEW a \in Attempts, DispatchFinish(a) PROVE RowsGain
  <2>1. att[a].task \in Tasks /\ att[a].pc # "none"
    BY <1>0, <1>8 DEF ProcessOK, AttemptOK, DispatchFinish
  <2>2. CASE att[a].exec = "completed" /\ MarkCompletedOrRejected(att[a].task)
    <3>1. Finished(att[a].task)
      BY <1>0, <2>1, <2>2 DEF AttemptsPerformed, Finished
    <3> QED BY <1>0, <2>1, <2>2, <3>1, WorkCalls
  <2>3. CASE MarkFailedOrRejected(att[a].task)
    BY <1>0, <1>1, <2>1, <2>3, PlainCalls
  <2> QED BY <1>8, <2>2, <2>3 DEF DispatchFinish
<1>9. ASSUME NEW a \in Attempts, DispatchPrepare(a) \/ DispatchPost(a) \/ DispatchNoReply(a) \/ DispatchArtifacts(a)
      PROVE  PlainRows
  <2>1. att[a].task \in Tasks
    BY <1>0, <1>9 DEF ProcessOK, AttemptOK, DispatchPrepare, DispatchPost, DispatchNoReply, DispatchArtifacts
  <2>2. CASE DispatchPrepare(a)
    BY <1>0, <2>1, <2>2, PlainCalls DEF DispatchPrepare
  <2>3. CASE DispatchPost(a) \/ DispatchNoReply(a)
    BY <1>0, <2>1, <2>3, PlainCalls DEF DispatchPost, DispatchNoReply
  <2>4. CASE DispatchArtifacts(a)
    BY <1>0, <2>1, <2>4, PlainCalls DEF DispatchArtifacts
  <2> QED BY <1>9, <2>2, <2>3, <2>4
<1>10. ASSUME NEW w \in Workers, Recovery(w) PROVE PlainRows
  <2>1. CASE RecoverStart(w) \/ RecoverLoad(w) \/ RecoverCheck(w) \/ RecoverJournal(w) \/ RecoverSelect(w)
    <3>1. UNCHANGED storeVars
      BY <2>1 DEF RecoverStart, RecoverLoad, RecoverCheck, RecoverJournal, RecoverSelect
    <3> QED BY <3>1 DEF storeVars, PlainRows
  <2>2. CASE RecoverMark(w)
    BY <1>0, <2>2 DEF RecoverMark, MarkRecovering, storeVars, PlainRows, StoreTypeOK
  <2>3. CASE RecoverCount(w) \/ RecoverDLQ(w) \/ RecoverFail(w) \/ RecoverClaim(w) \/ RecoverResume(w)
    <3>1. rec[w].task \in Tasks
      BY <1>0, <2>3 DEF ProcessOK, RecoveryOK, RecoverCount, RecoverDLQ, RecoverFail, RecoverClaim, RecoverResume
    <3>2. CASE RecoverCount(w) \/ RecoverDLQ(w)
      BY <1>0, <3>1, <3>2, PlainCalls DEF RecoverCount, RecoverDLQ
    <3>3. CASE RecoverFail(w) \/ RecoverClaim(w)
      BY <1>0, <3>1, <3>3, PlainCalls DEF RecoverFail, RecoverClaim
    <3>4. CASE RecoverResume(w)
      BY <1>0, <3>1, <3>4, PlainCalls DEF RecoverResume
    <3> QED BY <2>3, <3>2, <3>3, <3>4
  <2> QED BY <1>10, <2>1, <2>2, <2>3 DEF Recovery, RecoveryStep
<1>11. CASE RuntimeSide \/ Crash \/ UNCHANGED vars
  <2>1. UNCHANGED storeVars
    BY <1>11 DEF RuntimeSide, RuntimeStep, RuntimeEnd, CheckpointLost, CallbackRead, Heartbeat, Crash, vars
  <2> QED BY <1>1, <2>1 DEF storeVars, PlainRows
<1> QED BY <1>1, <1>2, <1>3, <1>4, <1>5, <1>6, <1>7, <1>8, <1>9, <1>10, <1>11
        DEF Next, Client, Requests, Dispatching

\* A callback in flight carries what the runtime had when it was sent.
LEMMA CallbackStep ==
  ASSUME ControlInv, WorkInv, [Next]_vars PROVE CallbackGain
<1>0. AttemptsPerformed /\ ProcessOK /\ DOMAIN cb = Handlers
  BY DEF ControlInv, TypeOK, ProcessTypeOK, WorkInv
<1>1. CASE UNCHANGED cb
  BY <1>1 DEF CallbackGain
<1>2. IdleCallback.pc = "idle"
  BY DEF IdleCallback
<1>3. CASE Crash
  BY <1>2, <1>3 DEF Crash, CallbackGain
<1>4. ASSUME NEW h \in Handlers, CallbackApply(h) PROVE CallbackGain
  <2>1. cb' = [cb EXCEPT ![h] = IdleCallback]
    BY <1>4 DEF CallbackApply
  <2>2. \A g \in Handlers : cb'[g] = cb[g] \/ cb'[g] = IdleCallback
    BY <1>0, <2>1
  <2> QED BY <1>2, <2>2 DEF CallbackGain
<1>5. ASSUME NEW h \in Handlers, NEW a \in Attempts, CallbackRead(h, a) PROVE CallbackGain
  <2>1. att[a].pc # "none"
    BY <1>0, <1>5, RunningIsLaunched DEF ProcessOK, CallbackRead
  <2>2. PICK c : /\ cb' = [cb EXCEPT ![h] = c]
                 /\ c.att = a
                 /\ c.pc = "checkpoint" => c.cp \in CheckpointsOf(a)
                 /\ c.pc = "complete" => att[a].exec = "completed"
    <3>1. ASSUME NEW cp \in CheckpointsOf(a), cb' = [cb EXCEPT ![h] = [pc |-> "checkpoint", att |-> a, cp |-> cp]]
          PROVE  \E c : /\ cb' = [cb EXCEPT ![h] = c]
                        /\ c.att = a
                        /\ c.pc = "checkpoint" => c.cp \in CheckpointsOf(a)
                        /\ c.pc = "complete" => att[a].exec = "completed"
      <4> WITNESS [pc |-> "checkpoint", att |-> a, cp |-> cp]
      <4> QED BY <3>1
    <3>2. ASSUME NEW pc \in {"complete", "failed"}, pc = "complete" => att[a].exec = "completed",
                 cb' = [cb EXCEPT ![h] = [pc |-> pc, att |-> a, cp |-> Nil]]
          PROVE  \E c : /\ cb' = [cb EXCEPT ![h] = c]
                        /\ c.att = a
                        /\ c.pc = "checkpoint" => c.cp \in CheckpointsOf(a)
                        /\ c.pc = "complete" => att[a].exec = "completed"
      <4> WITNESS [pc |-> pc, att |-> a, cp |-> Nil]
      <4> QED BY <3>2
    <3> QED BY <1>5, <3>1, <3>2 DEF CallbackRead
  <2>3. cb'[h] = c /\ \A g \in Handlers \ {h} : cb'[g] = cb[g]
    BY <1>0, <2>2
  <2>4. c.pc = "checkpoint" => c.cp \in Checkpoints /\ Performed(att[a].task, c.cp.entries)
    BY <1>0, <2>1, <2>2, PushedPerformed
  <2>5. c.pc = "complete" => att[a].pos = NumSteps
    BY <1>0, <2>2 DEF AttemptsPerformed
  <2> QED BY <2>1, <2>2, <2>3, <2>4, <2>5 DEF CallbackGain
<1>6. CASE Client \/ Dispatching \/ UNCHANGED vars
  <2>1. UNCHANGED cb
    BY <1>6 DEF Client, SubmitCreate, ApproveSelect, RejectTask, CancelRead, Dispatching, DispatchPrepare, DispatchPost,
                DispatchNoReply, DispatchReply, DispatchArtifacts, DispatchFinish, vars
  <2> QED BY <1>1, <2>1
<1>7. CASE Requests
  <2>1. ASSUME NEW s \in Submitters, SubmitSelect(s) \/ SubmitDemo(s) \/ SubmitClaim(s) \/ SubmitDispatch(s)
        PROVE  UNCHANGED cb
    BY <2>1 DEF SubmitSelect, SubmitDemo, SubmitClaim, SubmitDispatch
  <2>2. ASSUME NEW p \in Approvers, ApproveClaim(p) \/ ApproveDispatch(p) PROVE UNCHANGED cb
    BY <2>2 DEF ApproveClaim, ApproveDispatch
  <2>3. ASSUME NEW t \in Tasks, CancelApply(t) PROVE UNCHANGED cb
    BY <2>3 DEF CancelApply
  <2> QED BY <1>1, <1>4, <1>7, <2>1, <2>2, <2>3 DEF Requests
<1>8. CASE RuntimeSide
  <2>1. ASSUME NEW a \in Attempts, RuntimeStep(a) \/ RuntimeEnd(a) \/ CheckpointLost(a) PROVE UNCHANGED cb
    BY <2>1 DEF RuntimeStep, RuntimeEnd, CheckpointLost
  <2>2. ASSUME NEW r \in Runtimes, Heartbeat(r) PROVE UNCHANGED cb
    BY <2>2 DEF Heartbeat
  <2> QED BY <1>1, <1>5, <1>8, <2>1, <2>2 DEF RuntimeSide
<1>9. ASSUME NEW w \in Workers, Recovery(w) PROVE UNCHANGED cb
  BY <1>9 DEF Recovery, RecoveryStep, RecoverStart, RecoverMark, RecoverLoad, RecoverCheck, RecoverCount,
              RecoverDLQ, RecoverJournal, RecoverSelect, RecoverFail, RecoverClaim, RecoverResume
<1> QED BY <1>1, <1>3, <1>6, <1>7, <1>8, <1>9 DEF Next

\* A recovery pass that moves to v.
LEMMA PassGain ==
  ASSUME ControlInv, NEW w \in Workers, NEW v, rec' = [rec EXCEPT ![w] = v],
         \/ v.cp = rec[w].cp /\ v.task = rec[w].task
         \/ v.cp \notin Checkpoints
         \/ v.task \in Tasks /\ Performed(v.task, v.cp.entries)
  PROVE  RecoveryGain
<1>1. rec'[w] = v /\ \A u \in Workers \ {w} : rec'[u] = rec[u]
  BY DEF ControlInv, TypeOK, ProcessTypeOK
<1> QED BY <1>1 DEF RecoveryGain

\* A pass holds a checkpoint built from the rows of its task, or none.
LEMMA RecoveryHoldsPerformed ==
  ASSUME ControlInv, WorkInv, [Next]_vars PROVE RecoveryGain
<1>0. StoreTypeOK /\ ProcessTypeOK /\ ProcessOK /\ NewestRowIsWatermark /\ RowsPerformed /\ RecoveryPerformed
  BY DEF ControlInv, TypeOK, WorkInv
<1>1. CASE UNCHANGED rec
  BY <1>1 DEF RecoveryGain
<1>2. IdleRecovery.cp \notin Checkpoints
  BY StoreConstants DEF IdleRecovery
<1>3. CASE Crash
  BY <1>2, <1>3 DEF Crash, RecoveryGain
<1>4. ASSUME NEW w \in Workers, Recovery(w) PROVE RecoveryGain
  <2>0. rec[w] \in RecoveryRecords
    BY <1>0 DEF ProcessTypeOK
  <2>1. CASE rec' = [rec EXCEPT ![w] = IdleRecovery]
    BY <1>2, <2>1, PassGain
  <2>2. CASE Proceed(w)
    <3>1. PICK v : v = [rec[w] EXCEPT !.pc = "next", !.task = Nil, !.cp = Nil, !.target = Nil]
      OBVIOUS
    <3>2. rec' = [rec EXCEPT ![w] = v]
      BY <1>0, <2>2, <3>1 DEF Proceed, ProcessTypeOK
    <3>3. v.cp \notin Checkpoints
      BY <2>0, <3>1, StoreConstants DEF RecoveryRecords
    <3> QED BY <3>2, <3>3, PassGain
  <2>3. ASSUME NEW pc, rec' = [rec EXCEPT ![w].pc = pc] PROVE RecoveryGain
    <3>1. PICK v : v = [rec[w] EXCEPT !.pc = pc]
      OBVIOUS
    <3>2. rec' = [rec EXCEPT ![w] = v]
      BY <2>3, <3>1
    <3>3. v.cp = rec[w].cp /\ v.task = rec[w].task
      BY <2>0, <3>1 DEF RecoveryRecords
    <3> QED BY <3>2, <3>3, PassGain
  <2>4. CASE RecoverStart(w)
    <3>1. PICK r \in Runtimes : rec' = [rec EXCEPT ![w].pc = "mark", ![w].rt = r]
      BY <2>4 DEF RecoverStart
    <3>2. PICK v : v = [rec[w] EXCEPT !.pc = "mark", !.rt = r]
      OBVIOUS
    <3>3. rec' = [rec EXCEPT ![w] = v]
      BY <1>0, <3>1, <3>2 DEF ProcessTypeOK
    <3>4. v.cp = rec[w].cp /\ v.task = rec[w].task
      BY <2>0, <3>2 DEF RecoveryRecords
    <3> QED BY <3>3, <3>4, PassGain
  <2>5. CASE RecoverMark(w)
    <3> DEFINE found == {t \in Tasks : runtimeID[t] = rec[w].rt /\ status[t] \in {"dispatched", "checkpointed"}}
    <3>1. CASE rec' = [rec EXCEPT ![w].pc = "next", ![w].rt = Nil, ![w].todo = found]
      <4> HIDE DEF found
      <4>1. PICK v : v = [rec[w] EXCEPT !.pc = "next", !.rt = Nil, !.todo = found]
        OBVIOUS
      <4>2. rec' = [rec EXCEPT ![w] = v]
        BY <1>0, <3>1, <4>1 DEF ProcessTypeOK
      <4>3. v.cp = rec[w].cp /\ v.task = rec[w].task
        BY <2>0, <4>1 DEF RecoveryRecords
      <4> QED BY <4>2, <4>3, PassGain
    <3> QED BY <2>1, <2>5, <3>1 DEF RecoverMark
  <2>6. CASE RecoverLoad(w)
    <3>1. ASSUME NEW t \in rec[w].todo,
                 rec' = [rec EXCEPT ![w].pc = "loaded", ![w].todo = @ \ {t}, ![w].task = t,
                                    ![w].cp = BuildCumulativeRecoveryCheckpoint(walRows[t])]
          PROVE  RecoveryGain
      <4>1. t \in Tasks
        BY <2>0 DEF RecoveryRecords
      <4>2. PICK built : built = BuildCumulativeRecoveryCheckpoint(walRows[t])
        OBVIOUS
      <4>3. built \in Checkpoints => Performed(t, built.entries)
        <5> SUFFICES ASSUME built \in Checkpoints PROVE Performed(t, built.entries)
          OBVIOUS
        <5>1. walRows[t] # {}
          BY <4>2, StoreConstants DEF BuildCumulativeRecoveryCheckpoint
        <5>2. lastCheckpoint[t] \in walRows[t] /\ \A row \in walRows[t] \ {lastCheckpoint[t]} : row.last < lastCheckpoint[t].last
          BY <1>0, <4>1, <5>1 DEF NewestRowIsWatermark
        <5>3. walRows[t] \in SUBSET Checkpoints
          BY <1>0, <4>1 DEF StoreTypeOK
        <5>4. \A row \in walRows[t] : row.last \in Int
          BY <5>3, StoreConstants DEF Checkpoints, Steps
        <5>5. \A row \in walRows[t] : row.last <= lastCheckpoint[t].last
          BY <5>2, <5>4
        <5>6. built.entries \subseteq UNION {cp.entries : cp \in walRows[t]}
          BY <4>2, <5>2, <5>3, <5>5, BuiltEntries
        <5> QED BY <1>0, <4>1, <5>6 DEF RowsPerformed, Performed
      <4>4. PICK v : v = [rec[w] EXCEPT !.pc = "loaded", !.todo = rec[w].todo \ {t}, !.task = t, !.cp = built]
        OBVIOUS
      <4>5. rec' = [rec EXCEPT ![w] = v]
        BY <1>0, <3>1, <4>2, <4>4 DEF ProcessTypeOK
      <4>6. v.cp = built /\ v.task = t
        BY <2>0, <4>4 DEF RecoveryRecords
      <4> QED BY <4>1, <4>3, <4>5, <4>6, PassGain
    <3> QED BY <2>1, <2>6, <3>1 DEF RecoverLoad
  <2>7. CASE RecoverCheck(w)
    <3>1. ASSUME NEW pc, rec[w].pc = "loaded",
                 rec' = [rec EXCEPT ![w].pc = pc, ![w].cp = MergeTaskCheckpoint(@, lastCheckpoint[rec[w].task])]
          PROVE  RecoveryGain
      <4>1. PICK t \in Tasks : t = rec[w].task
        BY <1>0, <3>1 DEF ProcessOK, RecoveryOK
      <4>2. PICK cp \in Checkpoints \cup {Nil, Invalid} : cp = rec[w].cp
        BY <2>0 DEF RecoveryRecords
      <4>3. PICK onRow \in Checkpoints \cup {Nil} : onRow = lastCheckpoint[t]
        BY <1>0, <4>1 DEF StoreTypeOK
      <4>4. PICK merged : merged = MergeTaskCheckpoint(cp, onRow)
        OBVIOUS
      <4>5. cp \in Checkpoints => Performed(t, cp.entries)
        BY <1>0, <4>1, <4>2 DEF RecoveryPerformed
      <4>6. onRow # Nil => Performed(t, onRow.entries)
        <5>1. onRow # Nil => onRow \in walRows[t]
          BY <1>0, <4>1, <4>3 DEF NewestRowIsWatermark
        <5> QED BY <1>0, <5>1 DEF RowsPerformed
      <4>7. merged \in Checkpoints => Performed(t, merged.entries)
        <5>1. CASE cp # Invalid /\ onRow # Nil /\ TaskCheckpointAdvances(cp, onRow)
          <6>1. {cp, onRow} \ {Nil} \in SUBSET Checkpoints /\ onRow \in {cp, onRow} \ {Nil}
            BY <5>1
          <6>2. \A row \in {cp, onRow} \ {Nil} : row.last \in Int
            BY <6>1, StoreConstants DEF Checkpoints, Steps
          <6>3. \A row \in {cp, onRow} \ {Nil} : row.last <= onRow.last
            BY <5>1, <6>1, <6>2 DEF TaskCheckpointAdvances
          <6>4. merged = BuildCumulativeRecoveryCheckpoint({cp, onRow} \ {Nil})
            BY <4>4, <5>1 DEF MergeTaskCheckpoint
          <6>5. merged \in Checkpoints => merged.entries \subseteq UNION {row.entries : row \in {cp, onRow} \ {Nil}}
            BY <6>1, <6>3, <6>4, BuiltEntries
          <6>6. \A row \in {cp, onRow} \ {Nil} : Performed(t, row.entries)
            BY <4>5, <4>6, <6>1
          <6> QED BY <6>5, <6>6 DEF Performed
        <5>2. CASE ~ (cp # Invalid /\ onRow # Nil /\ TaskCheckpointAdvances(cp, onRow))
          BY <4>4, <4>5, <5>2 DEF MergeTaskCheckpoint
        <5> QED BY <5>1, <5>2
      <4>8. PICK v : v = [rec[w] EXCEPT !.pc = pc, !.cp = merged]
        OBVIOUS
      <4>9. rec' = [rec EXCEPT ![w] = v]
        BY <1>0, <3>1, <4>1, <4>2, <4>3, <4>4, <4>8 DEF ProcessTypeOK
      <4>10. v.cp = merged /\ v.task = t
        BY <2>0, <4>1, <4>8 DEF RecoveryRecords
      <4> QED BY <4>7, <4>9, <4>10, PassGain
    <3> QED BY <2>2, <2>7, <3>1 DEF RecoverCheck
  <2>8. CASE RecoverSelect(w)
    <3>1. ASSUME NEW r, rec' = [rec EXCEPT ![w].pc = "claim", ![w].target = r] PROVE RecoveryGain
      <4>1. PICK v : v = [rec[w] EXCEPT !.pc = "claim", !.target = r]
        OBVIOUS
      <4>2. rec' = [rec EXCEPT ![w] = v]
        BY <1>0, <3>1, <4>1 DEF ProcessTypeOK
      <4>3. v.cp = rec[w].cp /\ v.task = rec[w].task
        BY <2>0, <4>1 DEF RecoveryRecords
      <4> QED BY <4>2, <4>3, PassGain
    <3> QED BY <2>3, <2>8, <3>1 DEF RecoverSelect
  <2>9. CASE RecoverCount(w) \/ RecoverDLQ(w) \/ RecoverJournal(w) \/ RecoverClaim(w) \/ RecoverFail(w) \/ RecoverResume(w)
    <3>1. Proceed(w) \/ \E pc : rec' = [rec EXCEPT ![w].pc = pc]
      BY <2>9 DEF RecoverCount, RecoverDLQ, RecoverJournal, RecoverClaim, RecoverFail, RecoverResume
    <3> QED BY <2>2, <2>3, <3>1
  <2> QED BY <1>4, <2>4, <2>5, <2>6, <2>7, <2>8, <2>9 DEF Recovery, RecoveryStep
<1>5. CASE Client \/ Dispatching \/ RuntimeSide \/ UNCHANGED vars
  <2>1. UNCHANGED rec
    BY <1>5 DEF Client, SubmitCreate, ApproveSelect, RejectTask, CancelRead, Dispatching, DispatchPrepare, DispatchPost,
                DispatchNoReply, DispatchReply, DispatchArtifacts, DispatchFinish, RuntimeSide, RuntimeStep, RuntimeEnd,
                CheckpointLost, CallbackRead, Heartbeat, vars
  <2> QED BY <1>1, <2>1
<1>6. CASE Requests
  <2>1. ASSUME NEW s \in Submitters, SubmitSelect(s) \/ SubmitDemo(s) \/ SubmitClaim(s) \/ SubmitDispatch(s)
        PROVE  UNCHANGED rec
    BY <2>1 DEF SubmitSelect, SubmitDemo, SubmitClaim, SubmitDispatch
  <2>2. ASSUME NEW p \in Approvers, ApproveClaim(p) \/ ApproveDispatch(p) PROVE UNCHANGED rec
    BY <2>2 DEF ApproveClaim, ApproveDispatch
  <2>3. ASSUME NEW t \in Tasks, CancelApply(t) PROVE UNCHANGED rec
    BY <2>3 DEF CancelApply
  <2>4. ASSUME NEW h \in Handlers, CallbackApply(h) PROVE UNCHANGED rec
    BY <2>4 DEF CallbackApply
  <2> QED BY <1>1, <1>6, <2>1, <2>2, <2>3, <2>4 DEF Requests
<1> QED BY <1>3, <1>4, <1>5, <1>6 DEF Next

-----------------------------------------------------------------------------
(* The work invariant                                                      *)

\* Nothing is executed at first.
LEMMA WorkInit == Init => WorkInv
<1> SUFFICES ASSUME Init PROVE WorkInv
  OBVIOUS
<1>1. RowsPerformed /\ CompletedMeansExecuted
  BY DEF Init, StoreInit, RowsPerformed, CompletedMeansExecuted
<1>2. AttemptsPerformed
  BY DEF Init, AttemptsPerformed, UnusedAttempt
<1>3. CallbacksPerformed
  BY DEF Init, CallbacksPerformed, IdleCallback
<1>4. RecoveryPerformed
  BY StoreConstants DEF Init, RecoveryPerformed, IdleRecovery
<1> QED BY <1>1, <1>2, <1>3, <1>4 DEF WorkInv

\* Every step preserves it.
LEMMA WorkStep == ControlInv /\ WorkInv /\ [Next]_vars => WorkInv'
<1> SUFFICES ASSUME ControlInv, WorkInv, [Next]_vars PROVE WorkInv'
  OBVIOUS
<1>1. ControlInv'
  BY ControlStep
<1>2. AttemptsAdvance
  BY NextAdvances
<1>3. RowsGain /\ CallbackGain /\ RecoveryGain
  BY RowsStep, CallbackStep, RecoveryHoldsPerformed
<1>4. \A t \in Tasks, entries \in SUBSET WalEntries : Performed(t, entries) => Performed(t, entries)'
  BY <1>1, <1>2, PerformedStays
<1>5. \A a \in Attempts : att[a].pc # "none" => att[a].task \in Tasks /\ AdvancesTo(a, att'[a])
  BY <1>2 DEF AttemptsAdvance, Advances, Launches, ControlInv, ProcessOK, AttemptOK
<1>6. \A a \in Attempts : att[a].pos \in 0 .. NumSteps /\ att'[a].pos \in 0 .. NumSteps
  BY <1>1 DEF ControlInv, TypeOK, ProcessTypeOK, AttemptRecords
<1>7. \A cp \in Checkpoints : cp.entries \in SUBSET WalEntries
  BY DEF Checkpoints
<1>8. RowsPerformed'
  <2> SUFFICES ASSUME NEW t \in Tasks, NEW row \in walRows'[t] PROVE Performed(t, row.entries)'
    BY DEF RowsPerformed
  <2>1. row \in Checkpoints /\ Performed(t, row.entries)
    <3>1. \A r \in walRows[t] : r \in Checkpoints /\ Performed(t, r.entries)
      BY DEF WorkInv, RowsPerformed, ControlInv, TypeOK, StoreTypeOK
    <3> QED BY <1>3, <3>1 DEF RowsGain
  <2> QED BY <1>4, <1>7, <2>1
<1>9. AttemptsPerformed'
  <2> SUFFICES ASSUME NEW a \in Attempts
               PROVE  /\ att'[a].cp # Nil => att'[a].origin = "recover" /\ Performed(att[a].task, att[a].cp.entries)'
                      /\ att'[a].exec = "completed" => att'[a].pos = NumSteps
    BY DEF AttemptsPerformed
  <2>1. CASE Advances(a)
    <3>1. CASE att[a].pc = "none"
      <4>1. att'[a].cp = Nil /\ (att'[a].exec = "completed" => att'[a].pos = NumSteps)
        <5>1. att[a].cp = Nil /\ att[a].exec = "none"
          BY <3>1, UnusedFacts
        <5> QED BY <2>1, <5>1 DEF Advances, AdvancesTo
      <4> QED BY <4>1
    <3>2. CASE att[a].pc # "none"
      <4>1. /\ att'[a].cp = att[a].cp /\ att'[a].task = att[a].task /\ att'[a].origin = att[a].origin
            /\ att'[a].exec = "completed" => att'[a].pos = NumSteps
        BY <2>1 DEF Advances, AdvancesTo, WorkInv, AttemptsPerformed
      <4>2. ASSUME att[a].cp # Nil PROVE att[a].origin = "recover" /\ Performed(att[a].task, att[a].cp.entries)'
        <5>1. att[a].cp \in Checkpoints
          BY <4>2 DEF ControlInv, TypeOK, ProcessTypeOK, AttemptRecords
        <5>2. att[a].origin = "recover" /\ Performed(att[a].task, att[a].cp.entries)
          BY <4>2 DEF WorkInv, AttemptsPerformed
        <5>3. att[a].task \in Tasks
          BY <1>5, <3>2
        <5>4. PICK t \in Tasks, E \in SUBSET WalEntries : t = att[a].task /\ E = att[a].cp.entries
          BY <1>7, <5>1, <5>3
        <5>5. Performed(t, E)'
          BY <1>4, <5>2, <5>4
        <5> QED BY <4>1, <5>2, <5>4, <5>5 DEF Performed
      <4> QED BY <4>1, <4>2 DEF Performed
    <3> QED BY <3>1, <3>2
  <2>2. CASE Launches(a)
    <3>1. CASE att'[a].cp = Nil
      BY <2>2, <3>1 DEF Launches
    <3>2. ASSUME NEW w \in Workers, rec[w].pc = "resume", att'[a].task = rec[w].task, att'[a].cp = rec[w].cp,
                 att'[a].origin = "recover", att'[a].exec = "none"
          PROVE  /\ att'[a].cp # Nil => att'[a].origin = "recover" /\ Performed(att[a].task, att[a].cp.entries)'
                 /\ att'[a].exec = "completed" => att'[a].pos = NumSteps
      <4>1. rec[w].cp \in Checkpoints \cup {Nil}
        BY <3>2 DEF ControlInv, TypeOK, ProcessTypeOK, ProcessOK, RecoveryOK, RecoveryRecords
      <4>2. CASE rec[w].cp = Nil
        BY <3>2, <4>2
      <4>3. CASE rec[w].cp \in Checkpoints
        <5>1. rec[w].task \in Tasks /\ Performed(rec[w].task, rec[w].cp.entries)
          BY <4>3 DEF WorkInv, RecoveryPerformed
        <5>2. PICK t \in Tasks, E \in SUBSET WalEntries : t = rec[w].task /\ E = rec[w].cp.entries
          BY <1>7, <4>3, <5>1
        <5>3. Performed(t, E)'
          BY <1>4, <5>1, <5>2
        <5> QED BY <3>2, <5>2, <5>3 DEF Performed
      <4> QED BY <4>1, <4>2, <4>3
    <3> QED BY <2>2, <3>1, <3>2 DEF Launches
  <2> QED BY <1>2, <2>1, <2>2 DEF AttemptsAdvance
<1>10. CallbacksPerformed'
  <2> SUFFICES ASSUME NEW h \in Handlers
               PROVE  /\ cb'[h].pc = "checkpoint" => Performed(att[cb[h].att].task, cb[h].cp.entries)'
                      /\ cb'[h].pc = "complete" => att'[cb'[h].att].pos = NumSteps
    BY DEF CallbacksPerformed
  <2>1. ASSUME cb'[h].pc \in {"checkpoint", "complete"}
        PROVE  /\ cb'[h].att \in Attempts /\ att[cb'[h].att].pc # "none"
               /\ cb'[h].pc = "checkpoint" => cb'[h].cp \in Checkpoints /\ Performed(att[cb'[h].att].task, cb'[h].cp.entries)
               /\ cb'[h].pc = "complete" => att[cb'[h].att].pos = NumSteps
    <3>1. CASE cb'[h] = cb[h]
      <4>1. cb[h].att \in Attempts /\ att[cb[h].att].task \in Tasks /\ (cb[h].pc = "checkpoint" => cb[h].cp \in Checkpoints)
        BY <2>1, <3>1, CallbackFacts
      <4>2. att[cb[h].att].pc # "none"
        BY <2>1, <3>1, CallbackFacts
      <4> QED BY <3>1, <4>1, <4>2 DEF WorkInv, CallbacksPerformed
    <3> QED BY <1>3, <2>1, <3>1 DEF CallbackGain
  <2>2. ASSUME cb'[h].pc = "checkpoint" PROVE Performed(att[cb[h].att].task, cb[h].cp.entries)'
    <3>1. PICK a \in Attempts : a = cb'[h].att
      BY <2>1, <2>2
    <3>2. att[a].task \in Tasks /\ att'[a].task = att[a].task
      BY <1>5, <2>1, <2>2, <3>1 DEF AdvancesTo
    <3>3. PICK t \in Tasks, E \in SUBSET WalEntries : t = att[a].task /\ E = cb'[h].cp.entries
      BY <1>7, <2>1, <2>2, <3>2
    <3>4. Performed(t, E)'
      BY <1>4, <2>1, <2>2, <3>1, <3>3
    <3> QED BY <3>1, <3>2, <3>3, <3>4 DEF Performed
  <2>3. ASSUME cb'[h].pc = "complete" PROVE att'[cb'[h].att].pos = NumSteps
    <3>1. PICK a \in Attempts : a = cb'[h].att
      BY <2>1, <2>3
    <3>2. att[a].pos = NumSteps /\ att'[a].pos >= att[a].pos
      BY <1>5, <2>1, <2>3, <3>1 DEF AdvancesTo
    <3>3. att[a].pos \in Int /\ att'[a].pos \in 0 .. NumSteps /\ NumSteps \in Int
      BY <1>6, StoreConstants
    <3>4. att'[a].pos = NumSteps
      BY <3>2, <3>3
    <3> QED BY <3>1, <3>4
  <2> QED BY <2>2, <2>3
<1>11. RecoveryPerformed'
  <2> SUFFICES ASSUME NEW w \in Workers, rec'[w].cp \in Checkpoints
               PROVE  rec'[w].task \in Tasks /\ Performed(rec[w].task, rec[w].cp.entries)'
    BY DEF RecoveryPerformed
  <2>1. rec'[w].task \in Tasks /\ Performed(rec'[w].task, rec'[w].cp.entries)
    BY <1>3 DEF RecoveryGain, WorkInv, RecoveryPerformed
  <2>2. PICK t \in Tasks, E \in SUBSET WalEntries : t = rec'[w].task /\ E = rec'[w].cp.entries
    BY <1>7, <2>1
  <2>3. Performed(t, E)'
    BY <1>4, <2>1, <2>2
  <2> QED BY <2>2, <2>3 DEF Performed
<1>12. CompletedMeansExecuted'
  <2> SUFFICES ASSUME NEW t \in Tasks, status'[t] = "completed", NEW s \in Steps
               PROVE  \E a \in Attempts : att'[a].task = t /\ s \in Executed(a)'
    BY DEF CompletedMeansExecuted
  <2>1. \E a \in Attempts : att[a].task = t /\ s \in Executed(a)
    <3>1. CASE status[t] = "completed"
      BY <3>1 DEF WorkInv, CompletedMeansExecuted
    <3>2. CASE Finished(t)
      BY <3>2, WholeGraphExecuted DEF Finished, WorkInv
    <3> QED BY <1>3, <3>1, <3>2 DEF RowsGain
  <2>2. PICK a \in Attempts : att[a].task = t /\ s \in Executed(a)
    BY <2>1
  <2>3. PICK e \in WalEntries : e.step = s /\ e.by = a
    <3>1. [step |-> s, by |-> a] \in WalEntries
      BY DEF WalEntries
    <3> QED BY <3>1
  <2>4. Performed(t, {e})
    BY <2>2, <2>3 DEF Performed
  <2>5. Performed(t, {e})'
    BY <1>4, <2>4
  <2> QED BY <2>3, <2>5 DEF Performed
<1> QED BY <1>8, <1>9, <1>10, <1>11, <1>12 DEF WorkInv

\* A run is completed only when every step of its graph was executed by some
\* runtime, however often it was handed over, and whatever was lost in between.
THEOREM CompletionIsEarned == Spec => []CompletedMeansExecuted
<1>1. WorkInv => CompletedMeansExecuted
  BY DEF WorkInv
<1> QED BY <1>1, ControlInit, ControlStep, WorkInit, WorkStep, PTL DEF Spec
=============================================================================
