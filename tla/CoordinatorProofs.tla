-------------------------- MODULE CoordinatorProofs --------------------------
(***************************************************************************)
(* What the store guarantees for every number of tasks, runtimes, steps    *)
(* and dispatches, whatever its callers do; and what the coordinator, one  *)
(* of its callers, guarantees for every number of requests, recovery       *)
(* passes and crashes.                                                     *)
(***************************************************************************)
EXTENDS Coordinator, TLAPS

-----------------------------------------------------------------------------
(* The store                                                               *)

\* A database without tasks has rows of the declared types.
LEMMA StoreTypeInit == StoreInit => StoreTypeOK
  BY StoreConstants DEF StoreInit, StoreTypeOK, Statuses, FailureReasons

\* Each operation preserves the types of the rows.
LEMMA StoreTypeStep == StoreTypeOK /\ [StoreNext]_storeVars => StoreTypeOK'
<1> SUFFICES ASSUME StoreTypeOK, [StoreNext]_storeVars PROVE StoreTypeOK'
  OBVIOUS
<1> USE DEF StoreTypeOK, Statuses, FailureReasons, rowVars, storeVars
<1>1. ASSUME NEW t \in Tasks, CreateTask(t) PROVE StoreTypeOK'
  BY <1>1 DEF CreateTask
<1>2. ASSUME NEW t \in Tasks, NEW r \in Runtimes, MarkDispatched(t, r) PROVE StoreTypeOK'
  BY <1>2 DEF MarkDispatched
<1>3. ASSUME NEW t \in Tasks, NEW r \in Runtimes, MarkApprovedDispatched(t, r) PROVE StoreTypeOK'
  BY <1>3 DEF MarkApprovedDispatched
<1>4. ASSUME NEW t \in Tasks, NEW cp \in Checkpoints, SaveCheckpoint(t, cp) PROVE StoreTypeOK'
  BY <1>4 DEF SaveCheckpoint
<1>5. ASSUME NEW t \in Tasks, MarkCompleted(t) PROVE StoreTypeOK'
  BY <1>5 DEF MarkCompleted
<1>6. ASSUME NEW t \in Tasks, MarkFailed(t) PROVE StoreTypeOK'
  BY <1>6 DEF MarkFailed
<1>7. ASSUME NEW t \in Tasks, MarkCanceled(t) PROVE StoreTypeOK'
  BY <1>7 DEF MarkCanceled
<1>8. ASSUME NEW t \in Tasks, MarkApprovalRequired(t) PROVE StoreTypeOK'
  BY <1>8 DEF MarkApprovalRequired
<1>9. ASSUME NEW t \in Tasks, MarkApprovalRejected(t) PROVE StoreTypeOK'
  BY <1>9 DEF MarkApprovalRejected
<1>10. ASSUME NEW t \in Tasks, CountRecoveryAttempt(t) PROVE StoreTypeOK'
  BY <1>10 DEF CountRecoveryAttempt
<1>11. ASSUME NEW t \in Tasks, EnqueueDLQ(t) PROVE StoreTypeOK'
  BY <1>11 DEF EnqueueDLQ
<1>12. ASSUME NEW t \in Tasks, WriteEffectJournalPending(t) PROVE StoreTypeOK'
  BY <1>12 DEF WriteEffectJournalPending
<1>13. ASSUME NEW t \in Tasks, MarkEffectJournalCommitted(t) PROVE StoreTypeOK'
  BY <1>13 DEF MarkEffectJournalCommitted
<1>14. ASSUME NEW r \in Runtimes, MarkRecovering(r) PROVE StoreTypeOK'
  BY <1>14 DEF MarkRecovering
<1>15. CASE UNCHANGED storeVars
  BY <1>15
<1> QED
  BY <1>1, <1>2, <1>3, <1>4, <1>5, <1>6, <1>7, <1>8, <1>9, <1>10, <1>11, <1>12, <1>13,
     <1>14, <1>15 DEF StoreNext, TaskOperation

\* The rows always have their types.
THEOREM StoreTypeCorrect == StoreSpec => []StoreTypeOK
  BY StoreTypeInit, StoreTypeStep, PTL DEF StoreSpec

-----------------------------------------------------------------------------
(* The checkpoint on the task row is the newest row of wal_checkpoints     *)

\* SaveCheckpoint compares the new watermark with the one on the row, under the
\* row's lock: with the row the newest before, the new one is the newest after.
LEMMA SaveCheckpointKeepsNewest ==
  ASSUME StoreTypeOK, NewestRowIsWatermark, NEW t \in Tasks, NEW cp \in Checkpoints,
         SaveCheckpoint(t, cp)
  PROVE  NewestRowIsWatermark'
<1> SUFFICES ASSUME NEW u \in Tasks
             PROVE  /\ lastCheckpoint'[u] = Nil => walRows'[u] = {}
                    /\ lastCheckpoint'[u] # Nil =>
                         /\ lastCheckpoint'[u] \in walRows'[u]
                         /\ \A row \in walRows'[u] \ {lastCheckpoint'[u]} :
                               row.last < lastCheckpoint'[u].last
  BY DEF NewestRowIsWatermark
<1>1. CASE u # t
  BY <1>1 DEF SaveCheckpoint, StoreTypeOK, NewestRowIsWatermark
<1>2. CASE u = t
  <2>1. /\ lastCheckpoint'[t] = cp
        /\ walRows'[t] = walRows[t] \cup {cp}
    BY DEF SaveCheckpoint, StoreTypeOK
  <2>2. cp # Nil
    BY StoreConstants
  <2>3. ASSUME NEW row \in walRows[t], row # cp
        PROVE  row.last < cp.last
    <3>1. lastCheckpoint[t] # Nil /\ cp.last > lastCheckpoint[t].last
      BY <2>3 DEF SaveCheckpoint, CheckpointAccepted, TaskCheckpointAdvances, NewestRowIsWatermark
    <3>2. row = lastCheckpoint[t] \/ row.last < lastCheckpoint[t].last
      BY <2>3, <3>1 DEF NewestRowIsWatermark
    <3>3. row \in Checkpoints /\ lastCheckpoint[t] \in Checkpoints
      BY <2>3, <3>1 DEF StoreTypeOK
    <3>4. row.last \in Int /\ lastCheckpoint[t].last \in Int /\ cp.last \in Int
      BY <3>3, StoreConstants DEF Checkpoints, Steps
    <3> QED BY <3>1, <3>2, <3>4
  <2> QED BY <1>2, <2>1, <2>2, <2>3
<1> QED BY <1>1, <1>2

\* Every other operation leaves both places alone.
LEMMA NewestStep ==
  StoreTypeOK /\ NewestRowIsWatermark /\ [StoreNext]_storeVars => NewestRowIsWatermark'
<1> SUFFICES ASSUME StoreTypeOK, NewestRowIsWatermark, [StoreNext]_storeVars
             PROVE  NewestRowIsWatermark'
  OBVIOUS
<1>1. ASSUME NEW t \in Tasks, NEW cp \in Checkpoints, SaveCheckpoint(t, cp)
      PROVE  NewestRowIsWatermark'
  BY <1>1, SaveCheckpointKeepsNewest
<1>2. CASE UNCHANGED <<lastCheckpoint, walRows>>
  BY <1>2 DEF NewestRowIsWatermark
<1>3. (\E t \in Tasks, cp \in Checkpoints : SaveCheckpoint(t, cp)) \/ UNCHANGED <<lastCheckpoint, walRows>>
  BY DEF StoreNext, TaskOperation, CreateTask, MarkDispatched, MarkApprovedDispatched, MarkCompleted,
         MarkFailed, MarkCanceled, MarkApprovalRequired, MarkApprovalRejected, CountRecoveryAttempt,
         EnqueueDLQ, WriteEffectJournalPending, MarkEffectJournalCommitted, MarkRecovering, storeVars
<1> QED BY <1>1, <1>2, <1>3

\* The checkpoint on the task row is always the newest of the task's rows in
\* wal_checkpoints, which SaveCheckpoint writes in the same transaction.
THEOREM StoreNewestRow == StoreSpec => []NewestRowIsWatermark
<1>1. StoreInit => NewestRowIsWatermark
  BY DEF StoreInit, NewestRowIsWatermark
<1> QED
  BY <1>1, StoreTypeInit, StoreTypeStep, NewestStep, PTL DEF StoreSpec

-----------------------------------------------------------------------------
(* What no operation may do                                                *)

\* Every statement that sets the status names the statuses it applies to, and no
\* statement names a terminal one.
LEMMA TerminalStep ==
  ASSUME StoreTypeOK, [StoreNext]_storeVars, NEW t \in Tasks, status[t] \in Terminal
  PROVE  status'[t] = status[t]
<1> USE DEF StoreTypeOK, Terminal, TaskAllowsDispatch, TaskAllowsRuntimeMutation, TaskAllowsCancellation
<1>1. ASSUME NEW u \in Tasks, TaskOperation(u) PROVE status'[t] = status[t]
  BY <1>1 DEF TaskOperation, CreateTask, MarkDispatched, MarkApprovedDispatched, SaveCheckpoint,
              CheckpointAccepted, MarkCompleted, MarkFailed, MarkCanceled, MarkApprovalRequired,
              MarkApprovalRejected, CountRecoveryAttempt, EnqueueDLQ, WriteEffectJournalPending,
              MarkEffectJournalCommitted, rowVars
<1>2. ASSUME NEW r \in Runtimes, MarkRecovering(r) PROVE status'[t] = status[t]
  BY <1>2 DEF MarkRecovering
<1>3. CASE UNCHANGED storeVars
  BY <1>3 DEF storeVars
<1> QED BY <1>1, <1>2, <1>3 DEF StoreNext

\* A completed, failed or canceled run keeps its status, whoever calls the store.
THEOREM StoreTerminalIsFinal == StoreSpec => TerminalIsFinal
<1>1. StoreTypeOK /\ [StoreNext]_storeVars =>
        [\A t \in Tasks : status[t] \in Terminal => status'[t] = status[t]]_storeVars
  BY TerminalStep
<1> QED
  BY <1>1, StoreTypeInit, StoreTypeStep, PTL DEF StoreSpec, TerminalIsFinal

\* Only SaveCheckpoint writes last_checkpoint, and only over a smaller watermark.
LEMMA WatermarkStep ==
  ASSUME StoreTypeOK, [StoreNext]_storeVars, NEW t \in Tasks, lastCheckpoint'[t] # lastCheckpoint[t]
  PROVE  /\ lastCheckpoint'[t] # Nil
         /\ lastCheckpoint[t] # Nil => lastCheckpoint'[t].last > lastCheckpoint[t].last
<1>1. PICK u \in Tasks, cp \in Checkpoints : SaveCheckpoint(u, cp)
  BY DEF StoreNext, TaskOperation, CreateTask, MarkDispatched, MarkApprovedDispatched, MarkCompleted,
         MarkFailed, MarkCanceled, MarkApprovalRequired, MarkApprovalRejected, CountRecoveryAttempt,
         EnqueueDLQ, WriteEffectJournalPending, MarkEffectJournalCommitted, MarkRecovering, storeVars
<1>2. u = t /\ lastCheckpoint'[t] = cp
  BY <1>1 DEF SaveCheckpoint, StoreTypeOK
<1> QED
  BY <1>1, <1>2, StoreConstants DEF SaveCheckpoint, CheckpointAccepted, TaskCheckpointAdvances

\* A recorded watermark is only ever replaced by a larger one, in whatever order
\* checkpoints reach SaveCheckpoint.
THEOREM StoreWatermarkNeverRegresses == StoreSpec => WatermarkNeverRegresses
<1>1. StoreTypeOK /\ [StoreNext]_storeVars =>
        [\A t \in Tasks : lastCheckpoint'[t] # lastCheckpoint[t] =>
            /\ lastCheckpoint'[t] # Nil
            /\ lastCheckpoint[t] # Nil => lastCheckpoint'[t].last > lastCheckpoint[t].last]_storeVars
  BY WatermarkStep
<1> QED
  BY <1>1, StoreTypeInit, StoreTypeStep, PTL DEF StoreSpec, WatermarkNeverRegresses

-----------------------------------------------------------------------------
(* What a process of the coordinator holds at each of its steps            *)

SubmitOK ==
    \A s \in Submitters :
        /\ sub[s].pc \in {"created", "chosen", "claimed"} => sub[s].task \in Tasks
        /\ sub[s].pc \in {"chosen", "claimed"} => sub[s].rt \in Runtimes

ApproveOK ==
    \A p \in Approvers : apr[p].pc # "idle" => apr[p].task \in Tasks /\ apr[p].rt \in Runtimes

CallbackOK ==
    \A h \in Handlers :
        /\ cb[h].pc # "idle" => cb[h].att \in Attempts /\ att[cb[h].att].task \in Tasks
        /\ cb[h].pc = "checkpoint" => cb[h].cp \in Checkpoints

AttemptOK ==
    \A a \in Attempts :
        /\ att[a].pc # "none" => att[a].task \in Tasks /\ att[a].rt \in Runtimes
        /\ att[a].pc = "none" => att[a] = UnusedAttempt
        /\ att[a].origin = "recover" =>
              /\ att[a].cp # Nil
              /\ WholePrefix(att[a].cp)
              /\ RecoveryHandoffAllowed(att[a].task, att[a].cp)

RecoveryOK ==
    \A w \in Workers :
        /\ rec[w].pc = "mark" => rec[w].rt \in Runtimes
        /\ rec[w].pc \notin {"idle", "mark", "next"} => rec[w].task \in Tasks
        /\ rec[w].cp \in Checkpoints => WholePrefix(rec[w].cp)
        /\ rec[w].pc \in {"select", "claim", "resume"} => rec[w].cp # Invalid
        /\ rec[w].pc \in {"claim", "resume"} =>
              rec[w].target \in Runtimes /\ RecoveryHandoffAllowed(rec[w].task, rec[w].cp)

ProcessOK == SubmitOK /\ ApproveOK /\ CallbackOK /\ AttemptOK /\ RecoveryOK

ControlInv == TypeOK /\ ProcessOK /\ NewestRowIsWatermark

-----------------------------------------------------------------------------
(* What the operators compute                                              *)

\* BuildCumulativeRecoveryCheckpoint refuses the rows or returns a checkpoint with
\* exactly one entry for each step up to the largest watermark.
LEMMA CumulativeCheckpoint ==
  ASSUME NEW rows \in SUBSET Checkpoints, NEW top \in rows,
         \A other \in rows : other.last <= top.last
  PROVE  LET built == BuildCumulativeRecoveryCheckpoint(rows)
         IN  built = Invalid \/ (built \in Checkpoints /\ WholePrefix(built))
<1> DEFINE latest == CHOOSE cp \in rows : \A other \in rows : other.last <= cp.last
           merged == UNION {cp.entries : cp \in rows}
           built == [latest EXCEPT !.entries = {e \in merged : e.step <= latest.last}]
<1>1. latest \in rows
  OBVIOUS
<1>2. latest \in Checkpoints
  BY <1>1
<1>3. merged \subseteq WalEntries
  BY DEF Checkpoints
<1>4. latest.last \in Steps
  BY <1>2 DEF Checkpoints
<1> HIDE DEF latest, merged
<1>5. built \in Checkpoints /\ built.last = latest.last /\ built.entries = {e \in merged : e.step <= latest.last}
  BY <1>2, <1>3 DEF Checkpoints
<1>6. ASSUME \A e, f \in merged : e.step = f.step => e = f,
             \A s \in 0 .. latest.last : \E e \in merged : e.step = s
      PROVE  WholePrefix(built)
  <2> SUFFICES ASSUME NEW s \in 0 .. latest.last
               PROVE  \E e \in built.entries : e.step = s /\ \A f \in built.entries : f.step = s => f = e
    BY <1>5 DEF WholePrefix
  <2>1. PICK e \in merged : e.step = s
    BY <1>6
  <2>2. s <= latest.last
    OBVIOUS
  <2> HIDE DEF built
  <2> QED BY <1>5, <1>6, <2>1, <2>2
<1> USE DEF latest, merged
<1> QED
  BY <1>5, <1>6 DEF BuildCumulativeRecoveryCheckpoint

\* The rows of a task give Nil, Invalid or a whole prefix.
LEMMA RowsCheckpoint ==
  ASSUME StoreTypeOK, NewestRowIsWatermark, NEW t \in Tasks
  PROVE  LET built == BuildCumulativeRecoveryCheckpoint(walRows[t])
         IN  built \in {Nil, Invalid} \/ (built \in Checkpoints /\ WholePrefix(built))
<1>1. CASE lastCheckpoint[t] = Nil
  BY <1>1 DEF NewestRowIsWatermark, BuildCumulativeRecoveryCheckpoint
<1>2. CASE lastCheckpoint[t] # Nil
  <2>1. walRows[t] \in SUBSET Checkpoints /\ lastCheckpoint[t] \in walRows[t]
    BY <1>2 DEF StoreTypeOK, NewestRowIsWatermark
  <2>2. \A row \in walRows[t] : row.last \in Int
    BY <2>1, StoreConstants DEF Checkpoints, Steps
  <2>3. \A row \in walRows[t] : row.last <= lastCheckpoint[t].last
    BY <1>2, <2>1, <2>2 DEF NewestRowIsWatermark
  <2> QED BY <2>1, <2>3, CumulativeCheckpoint
<1> QED BY <1>1, <1>2

\* Merging in the checkpoint of the task row keeps it so.
LEMMA MergedCheckpoint ==
  ASSUME NEW cp \in Checkpoints \cup {Nil, Invalid}, cp \in Checkpoints => WholePrefix(cp),
         NEW onRow \in Checkpoints \cup {Nil}
  PROVE  LET merged == MergeTaskCheckpoint(cp, onRow)
         IN  merged \in {Nil, Invalid} \/ (merged \in Checkpoints /\ WholePrefix(merged))
<1>1. CASE cp # Invalid /\ onRow # Nil /\ TaskCheckpointAdvances(cp, onRow)
  <2>1. {cp, onRow} \ {Nil} \in SUBSET Checkpoints /\ onRow \in {cp, onRow} \ {Nil}
    BY <1>1
  <2>2. \A row \in {cp, onRow} \ {Nil} : row.last \in Int
    BY <2>1, StoreConstants DEF Checkpoints, Steps
  <2>3. \A row \in {cp, onRow} \ {Nil} : row.last <= onRow.last
    BY <1>1, <2>1, <2>2 DEF TaskCheckpointAdvances
  <2> QED BY <1>1, <2>1, <2>3, CumulativeCheckpoint DEF MergeTaskCheckpoint
<1>2. CASE ~ (cp # Invalid /\ onRow # Nil /\ TaskCheckpointAdvances(cp, onRow))
  BY <1>2 DEF MergeTaskCheckpoint
<1> QED BY <1>1, <1>2

\* The step an execution resumes at is one of the graph, or its end.
LEMMA ResumeStepType ==
  ASSUME NEW cp \in Checkpoints \cup {Nil} PROVE ResumeStep(cp) \in 0 .. NumSteps
  BY StoreConstants DEF ResumeStep, Checkpoints, Steps

\* A runtime pushes well-formed checkpoints.
LEMMA PushedCheckpointType ==
  ASSUME ProcessTypeOK, NEW a \in Attempts PROVE CheckpointsOf(a) \subseteq Checkpoints
<1>1. /\ att[a].cp \in Checkpoints \cup {Nil}
      /\ att[a].pos \in 0 .. NumSteps
      /\ att[a].sent \in -1 .. NumSteps - 1
  BY DEF ProcessTypeOK, AttemptRecords
<1>2. ResumeStep(att[a].cp) \in 0 .. NumSteps
  BY <1>1, ResumeStepType
<1>3. WalOf(a) \subseteq WalEntries
  <2>1. \A s \in ResumeStep(att[a].cp) .. att[a].pos - 1 : [step |-> s, by |-> a] \in WalEntries
    BY <1>1, <1>2, StoreConstants DEF WalEntries, Steps
  <2>2. att[a].cp # Nil => att[a].cp.entries \subseteq WalEntries
    BY <1>1 DEF Checkpoints
  <2> QED BY <2>1, <2>2 DEF WalOf
<1>4. /\ att[a].pos - 1 > att[a].sent => att[a].pos - 1 \in Steps
      /\ 0 \in Steps
  BY <1>1, StoreConstants DEF Steps
<1>5. ASSUME NEW last \in Steps
      PROVE  [last |-> last, entries |-> {e \in WalOf(a) : e.step > att[a].sent}, digest |-> WalOf(a)]
                \in Checkpoints
  BY <1>3 DEF Checkpoints
<1> QED BY <1>4, <1>5 DEF CheckpointsOf

-----------------------------------------------------------------------------
(* The coordinator uses the store only through its operations              *)

\* One task's rows are the object of one operation, or nothing happens to them.
StoreCall == (\E t \in Tasks : TaskOperation(t)) \/ UNCHANGED storeVars

\* What the calls that drop an error do to the rows.
LEMMA RejectedCalls ==
  ASSUME NEW t \in Tasks
  PROVE  /\ UNCHANGED storeVars => StoreCall
         /\ MarkFailedOrRejected(t) => StoreCall
         /\ MarkCompletedOrRejected(t) => StoreCall
         /\ \A cp \in Checkpoints : SaveCheckpointOrRejected(t, cp) => StoreCall
  BY DEF MarkFailedOrRejected, MarkCompletedOrRejected, SaveCheckpointOrRejected, StoreCall, TaskOperation

\* Requests: submission, approval, cancellation and callbacks.
LEMMA RequestsUseStore == ControlInv /\ (Client \/ Requests) => StoreCall
<1> SUFFICES ASSUME ControlInv, Client \/ Requests PROVE StoreCall
  OBVIOUS
<1> USE DEF ControlInv, ProcessOK
<1>1. ASSUME NEW s \in Submitters, NEW t \in Tasks, SubmitCreate(s, t) PROVE StoreCall
  BY <1>1 DEF SubmitCreate, StoreCall, TaskOperation
<1>2. ASSUME NEW s \in Submitters, SubmitSelect(s) \/ SubmitDemo(s) PROVE StoreCall
  BY <1>2, RejectedCalls DEF SubmitSelect, SubmitDemo, SubmitOK
<1>3. ASSUME NEW s \in Submitters, SubmitClaim(s) PROVE StoreCall
  BY <1>3 DEF SubmitClaim, SubmitOK, StoreCall, TaskOperation
<1>4. ASSUME NEW s \in Submitters, SubmitDispatch(s) PROVE StoreCall
  BY <1>4, RejectedCalls DEF SubmitDispatch, SubmitOK
<1>5. ASSUME NEW p \in Approvers, ApproveClaim(p) PROVE StoreCall
  BY <1>5 DEF ApproveClaim, ApproveOK, StoreCall, TaskOperation
<1>6. ASSUME NEW p \in Approvers, ApproveDispatch(p) PROVE StoreCall
  BY <1>6, RejectedCalls DEF ApproveDispatch, ApproveOK
<1>7. ASSUME NEW t \in Tasks, RejectTask(t) \/ CancelApply(t) PROVE StoreCall
  BY <1>7 DEF RejectTask, CancelApply, StoreCall, TaskOperation
<1>8. ASSUME NEW h \in Handlers, CallbackApply(h) PROVE StoreCall
  BY <1>8, RejectedCalls DEF CallbackApply, CallbackOK
<1>9. ASSUME NEW p \in Approvers, NEW t \in Tasks, ApproveSelect(p, t) PROVE StoreCall
  BY <1>9, RejectedCalls DEF ApproveSelect
<1>10. ASSUME NEW t \in Tasks, CancelRead(t) PROVE StoreCall
  BY <1>10, RejectedCalls DEF CancelRead
<1> QED
  BY <1>1, <1>2, <1>3, <1>4, <1>5, <1>6, <1>7, <1>8, <1>9, <1>10 DEF Client, Requests

\* The goroutine that talks to the runtime, and the runtime.
LEMMA DispatchUsesStore == ControlInv /\ (Dispatching \/ RuntimeSide \/ Crash) => StoreCall
<1> SUFFICES ASSUME ControlInv, Dispatching \/ RuntimeSide \/ Crash PROVE StoreCall
  OBVIOUS
<1> USE DEF ControlInv, ProcessOK, AttemptOK
<1>1. ASSUME NEW a \in Attempts, DispatchPrepare(a) PROVE StoreCall
  BY <1>1, RejectedCalls DEF DispatchPrepare, StoreCall, TaskOperation
<1>2. ASSUME NEW a \in Attempts, DispatchPost(a) \/ DispatchNoReply(a) PROVE StoreCall
  BY <1>2, RejectedCalls DEF DispatchPost, DispatchNoReply
<1>3. ASSUME NEW a \in Attempts, DispatchReply(a) PROVE StoreCall
  BY <1>3, RejectedCalls, PushedCheckpointType DEF DispatchReply, TypeOK
<1>4. ASSUME NEW a \in Attempts, DispatchArtifacts(a) PROVE StoreCall
  BY <1>4, RejectedCalls DEF DispatchArtifacts, StoreCall, TaskOperation
<1>5. ASSUME NEW a \in Attempts, DispatchFinish(a) PROVE StoreCall
  BY <1>5, RejectedCalls DEF DispatchFinish
<1>6. CASE RuntimeSide \/ Crash
  BY <1>6 DEF StoreCall, RuntimeSide, RuntimeStep, RuntimeEnd, CheckpointLost, CallbackRead, Heartbeat, Crash
<1> QED
  BY <1>1, <1>2, <1>3, <1>4, <1>5, <1>6 DEF Dispatching

\* A recovery pass, which also takes the tasks of a runtime in one statement.
LEMMA RecoveryUsesStore ==
  ASSUME ControlInv, NEW w \in Workers, Recovery(w)
  PROVE  StoreCall \/ (RecoverMark(w) /\ MarkRecovering(rec[w].rt))
<1> USE DEF ControlInv, ProcessOK, RecoveryOK
<1>1. CASE RecoverStart(w) \/ RecoverLoad(w) \/ RecoverCheck(w) \/ RecoverJournal(w) \/ RecoverSelect(w)
  BY <1>1 DEF StoreCall, RecoverStart, RecoverLoad, RecoverCheck, RecoverJournal, RecoverSelect
<1>2. CASE RecoverMark(w)
  BY <1>2 DEF RecoverMark, StoreCall
<1>3. CASE RecoverCount(w) \/ RecoverDLQ(w)
  BY <1>3 DEF RecoverCount, RecoverDLQ, StoreCall, TaskOperation
<1>4. CASE RecoverFail(w)
  BY <1>4, RejectedCalls DEF RecoverFail
<1>5. CASE RecoverClaim(w)
  BY <1>5 DEF RecoverClaim, StoreCall, TaskOperation
<1>6. CASE RecoverResume(w)
  BY <1>6, RejectedCalls DEF RecoverResume
<1> QED BY <1>1, <1>2, <1>3, <1>4, <1>5, <1>6 DEF Recovery, RecoveryStep

\* Every step is one operation of the store or leaves the rows alone.
LEMMA CoordinatorUsesStore == ControlInv /\ [Next]_vars => [StoreNext]_storeVars
<1> SUFFICES ASSUME ControlInv, [Next]_vars PROVE [StoreNext]_storeVars
  OBVIOUS
<1>1. StoreCall => [StoreNext]_storeVars
  BY DEF StoreCall, StoreNext
<1>2. ASSUME NEW w \in Workers, RecoverMark(w), MarkRecovering(rec[w].rt) PROVE [StoreNext]_storeVars
  BY <1>2 DEF ControlInv, ProcessOK, RecoveryOK, RecoverMark, StoreNext
<1> QED BY <1>1, <1>2, RequestsUseStore, DispatchUsesStore, RecoveryUsesStore DEF Next, vars

-----------------------------------------------------------------------------
(* Each step leaves every process with what its next step needs            *)

\* A new attempt is well formed when what it was built from is.
LEMMA NewAttempt ==
  ASSUME ProcessTypeOK, AttemptOK, CallbackOK, NEW t \in Tasks, NEW r \in Runtimes,
         NEW rid \in Runtimes \cup {Nil}, NEW cp \in Checkpoints \cup {Nil},
         NEW origin \in {"submit", "approve", "recover"},
         origin = "recover" => cp # Nil /\ WholePrefix(cp) /\ RecoveryHandoffAllowed(t, cp),
         DispatchAsync(t, r, rid, cp, origin), UNCHANGED cb
  PROVE  /\ att' \in [Attempts -> AttemptRecords]
         /\ AttemptOK' /\ CallbackOK'
<1>1. PICK a \in Attempts :
        att' = [att EXCEPT ![a] =
                  [pc |-> "start", exec |-> "none", task |-> t, rt |-> r, rid |-> rid,
                   cp |-> cp, origin |-> origin, pos |-> ResumeStep(cp), sent |-> ResumeStep(cp) - 1]]
  BY DEF DispatchAsync
<1>2. ResumeStep(cp) \in 0 .. NumSteps /\ ResumeStep(cp) - 1 \in -1 .. NumSteps - 1
  BY ResumeStepType, StoreConstants
<1>3. att \in [Attempts -> AttemptRecords]
  BY DEF ProcessTypeOK
<1>4. AttemptOK'
  BY <1>1, <1>3 DEF AttemptOK
<1>5. CallbackOK'
  BY <1>1, <1>3 DEF CallbackOK
<1> QED BY <1>1, <1>2, <1>3, <1>4, <1>5 DEF AttemptRecords

\* Submission.
LEMMA SubmitKeepsProcesses ==
  ASSUME ControlInv, NEW s \in Submitters,
         \/ \E t \in Tasks : SubmitCreate(s, t)
         \/ SubmitSelect(s) \/ SubmitDemo(s) \/ SubmitClaim(s) \/ SubmitDispatch(s)
  PROVE  ProcessTypeOK' /\ ProcessOK'
<1>0. sub \in [Submitters -> SubmitRecords] /\ SubmitOK
  BY DEF ControlInv, TypeOK, ProcessTypeOK, ProcessOK
<1>1. sub' \in [Submitters -> SubmitRecords] /\ SubmitOK'
  <2> USE <1>0 DEF SubmitOK, SubmitRecords, OverSubmit
  <2>1. ASSUME NEW t \in Tasks, SubmitCreate(s, t) PROVE sub' \in [Submitters -> SubmitRecords] /\ SubmitOK'
    BY <2>1 DEF SubmitCreate
  <2>2. CASE SubmitSelect(s)
    BY <2>2 DEF SubmitSelect
  <2>3. CASE SubmitClaim(s)
    <3>1. /\ sub[s].pc = "chosen"
          /\ \/ sub' = [sub EXCEPT ![s] = OverSubmit]
             \/ sub' = [sub EXCEPT ![s].pc = "claimed"]
      BY <2>3 DEF SubmitClaim
    <3> QED BY <3>1
  <2>4. CASE SubmitDispatch(s) \/ SubmitDemo(s)
    BY <2>4 DEF SubmitDispatch, SubmitDemo
  <2> QED BY <2>1, <2>2, <2>3, <2>4
<1> USE DEF ControlInv, TypeOK, ProcessOK, ProcessTypeOK
<1>2. UNCHANGED <<health, apr, can, cb, rec, crashes>>
  BY DEF SubmitCreate, SubmitSelect, SubmitDemo, SubmitClaim, SubmitDispatch
<1>3. CASE UNCHANGED att
  BY <1>1, <1>2, <1>3 DEF ApproveOK, CallbackOK, AttemptOK, RecoveryOK
<1>4. CASE DispatchAsync(sub[s].task, sub[s].rt, sub[s].rt, Nil, "submit") /\ sub[s].pc = "claimed"
  BY <1>1, <1>2, <1>4, NewAttempt DEF SubmitOK, ApproveOK, RecoveryOK
<1> QED
  BY <1>3, <1>4 DEF SubmitCreate, SubmitSelect, SubmitDemo, SubmitClaim, SubmitDispatch

\* Approval and cancellation.
LEMMA ApproveKeepsProcesses ==
  ASSUME ControlInv, NEW p \in Approvers,
         (\E t \in Tasks : ApproveSelect(p, t)) \/ ApproveClaim(p) \/ ApproveDispatch(p)
  PROVE  ProcessTypeOK' /\ ProcessOK'
<1>0. apr \in [Approvers -> ApproveRecords] /\ ApproveOK
  BY DEF ControlInv, TypeOK, ProcessTypeOK, ProcessOK
<1>1. apr' \in [Approvers -> ApproveRecords] /\ ApproveOK'
  <2> USE <1>0 DEF ApproveOK, ApproveRecords, IdleApprove
  <2>1. ASSUME NEW t \in Tasks, ApproveSelect(p, t) PROVE apr' \in [Approvers -> ApproveRecords] /\ ApproveOK'
    <3>1. PICK r \in Runtimes : apr' = [apr EXCEPT ![p] = [pc |-> "chosen", task |-> t, rt |-> r]]
      BY <2>1 DEF ApproveSelect, SelectRuntime, MayBeFresh
    <3> QED BY <3>1
  <2>2. CASE ApproveClaim(p)
    <3>1. /\ apr[p].pc = "chosen"
          /\ \/ apr' = [apr EXCEPT ![p] = IdleApprove]
             \/ apr' = [apr EXCEPT ![p].pc = "claimed"]
      BY <2>2 DEF ApproveClaim
    <3> QED BY <3>1
  <2>3. CASE ApproveDispatch(p)
    BY <2>3 DEF ApproveDispatch
  <2> QED BY <2>1, <2>2, <2>3
<1> USE DEF ControlInv, TypeOK, ProcessOK, ProcessTypeOK
<1>2. UNCHANGED <<health, sub, can, cb, rec, crashes>>
  BY DEF ApproveSelect, ApproveClaim, ApproveDispatch
<1>3. CASE UNCHANGED att
  BY <1>1, <1>2, <1>3 DEF SubmitOK, CallbackOK, AttemptOK, RecoveryOK
<1>4. CASE DispatchAsync(apr[p].task, apr[p].rt, apr[p].rt, Nil, "approve") /\ apr[p].pc = "claimed"
  BY <1>1, <1>2, <1>4, NewAttempt DEF SubmitOK, ApproveOK, RecoveryOK
<1> QED
  BY <1>3, <1>4 DEF ApproveSelect, ApproveClaim, ApproveDispatch

\* An attempt that moves on keeps what it was built from.
AttemptKeeps(a, v) ==
    /\ v \in AttemptRecords
    /\ v.pc # "none"
    /\ v.task = att[a].task /\ v.rt = att[a].rt /\ v.cp = att[a].cp /\ v.origin = att[a].origin

\* Such a move preserves what is known of all attempts and callbacks.
LEMMA AttemptMoves ==
  ASSUME ProcessTypeOK, AttemptOK, CallbackOK,
         att' \in [Attempts -> AttemptRecords],
         \A a \in Attempts : att'[a] = att[a] \/ (att[a].pc # "none" /\ AttemptKeeps(a, att'[a]))
  PROVE  AttemptOK' /\ (UNCHANGED cb => CallbackOK')
<1>1. AttemptOK'
  BY DEF AttemptOK, AttemptKeeps
<1>2. ASSUME UNCHANGED cb PROVE CallbackOK'
  BY <1>2 DEF CallbackOK, AttemptKeeps
<1> QED BY <1>1, <1>2

\* The same for one attempt.
LEMMA OneAttemptMoves ==
  ASSUME ProcessTypeOK, AttemptOK, CallbackOK, NEW a \in Attempts, att[a].pc # "none",
         NEW v, AttemptKeeps(a, v), att' = [att EXCEPT ![a] = v]
  PROVE  /\ att' \in [Attempts -> AttemptRecords]
         /\ AttemptOK' /\ (UNCHANGED cb => CallbackOK')
<1>1. att' \in [Attempts -> AttemptRecords]
  BY DEF ProcessTypeOK, AttemptKeeps
<1>2. \A b \in Attempts : att'[b] = att[b] \/ (att[b].pc # "none" /\ AttemptKeeps(b, att'[b]))
  BY DEF ProcessTypeOK
<1> QED BY <1>1, <1>2, AttemptMoves

\* An execution is one of a launched attempt.
LEMMA RunningIsLaunched ==
  ASSUME AttemptOK, NEW a \in Attempts, att[a].exec # "none" PROVE att[a].pc # "none"
<1>1. att[a].pc = "none" => att[a] = UnusedAttempt
  BY DEF AttemptOK
<1>2. UnusedAttempt.exec = "none"
  BY DEF UnusedAttempt
<1> QED BY <1>1, <1>2

\* Rejection and cancellation.
LEMMA CancelKeepsProcesses ==
  ASSUME ControlInv, NEW t \in Tasks, RejectTask(t) \/ CancelRead(t) \/ CancelApply(t)
  PROVE  ProcessTypeOK' /\ ProcessOK'
<1>0. ProcessTypeOK /\ ProcessOK /\ StoreTypeOK
  BY DEF ControlInv, TypeOK
<1>1. can' \in [Tasks -> CancelRecords]
  BY <1>0 DEF RejectTask, CancelRead, CancelApply, IdleCancel, CancelRecords, ProcessTypeOK, StoreTypeOK
<1>2. UNCHANGED <<health, sub, apr, cb, rec, crashes>>
  BY DEF RejectTask, CancelRead, CancelApply
<1>3. CASE UNCHANGED att
  BY <1>0, <1>1, <1>2, <1>3
     DEF ProcessTypeOK, ProcessOK, SubmitOK, ApproveOK, CallbackOK, AttemptOK, RecoveryOK
<1>4. ASSUME NEW signaled \in BOOLEAN,
             att' = [a \in Attempts |->
                       IF signaled /\ att[a].task = t /\ att[a].rt = can[t].rt /\ att[a].exec = "running"
                       THEN [att[a] EXCEPT !.exec = "stopped"] ELSE att[a]]
      PROVE  ProcessTypeOK' /\ ProcessOK'
  <2>1. \A a \in Attempts : att[a] \in AttemptRecords
    BY <1>0 DEF ProcessTypeOK
  <2>2. ASSUME NEW a \in Attempts
        PROVE  /\ att'[a] \in AttemptRecords
               /\ att'[a] = att[a] \/ (att[a].pc # "none" /\ AttemptKeeps(a, att'[a]))
    <3>1. att'[a] = att[a] \/ (att'[a] = [att[a] EXCEPT !.exec = "stopped"] /\ att[a].exec = "running")
      BY <1>4
    <3>2. att[a].exec = "running" => att[a].pc # "none"
      BY <1>0, RunningIsLaunched DEF ProcessOK
    <3> QED BY <2>1, <3>1, <3>2 DEF AttemptKeeps, AttemptRecords
  <2>3. att' \in [Attempts -> AttemptRecords]
    BY <1>4, <2>2
  <2>4. AttemptOK' /\ CallbackOK'
    BY <1>0, <1>2, <2>2, <2>3, AttemptMoves DEF ProcessOK
  <2> QED
    BY <1>0, <1>1, <1>2, <2>3, <2>4 DEF ProcessTypeOK, ProcessOK, SubmitOK, ApproveOK, RecoveryOK
<1> QED BY <1>3, <1>4 DEF RejectTask, CancelRead, CancelApply

\* The goroutine that talks to the runtime, and the runtime's own steps.
LEMMA AttemptKeepsProcesses ==
  ASSUME ControlInv, NEW a \in Attempts,
         \/ DispatchPrepare(a) \/ DispatchPost(a) \/ DispatchNoReply(a)
         \/ DispatchReply(a) \/ DispatchArtifacts(a) \/ DispatchFinish(a)
         \/ RuntimeStep(a) \/ RuntimeEnd(a) \/ CheckpointLost(a)
  PROVE  ProcessTypeOK' /\ ProcessOK'
<1>0. ProcessTypeOK /\ ProcessOK
  BY DEF ControlInv, TypeOK
<1>1. att[a] \in AttemptRecords /\ att[a].pos \in Int /\ att[a].sent \in Int
  BY <1>0, StoreConstants DEF ProcessTypeOK, AttemptRecords
<1>2. UNCHANGED <<health, sub, apr, can, cb, rec, crashes>>
  BY DEF DispatchPrepare, DispatchPost, DispatchNoReply, DispatchReply, DispatchArtifacts, DispatchFinish,
         RuntimeStep, RuntimeEnd, CheckpointLost
<1>3. ASSUME NEW v, AttemptKeeps(a, v), att' = [att EXCEPT ![a] = v], att[a].pc # "none"
      PROVE  ProcessTypeOK' /\ ProcessOK'
  <2>1. att' \in [Attempts -> AttemptRecords] /\ AttemptOK' /\ CallbackOK'
    BY <1>0, <1>2, <1>3, OneAttemptMoves DEF ProcessOK
  <2> QED BY <1>0, <1>2, <2>1 DEF ProcessTypeOK, ProcessOK, SubmitOK, ApproveOK, RecoveryOK
<1>4. ASSUME NEW pc \in {"post", "unreachable", "result", "finish", "done"},
             att' = [att EXCEPT ![a].pc = pc], att[a].pc # "none"
      PROVE  ProcessTypeOK' /\ ProcessOK'
  <2>1. AttemptKeeps(a, [att[a] EXCEPT !.pc = pc])
    BY <1>1 DEF AttemptKeeps, AttemptRecords
  <2>2. att' = [att EXCEPT ![a] = [att[a] EXCEPT !.pc = pc]]
    BY <1>4
  <2> QED BY <1>3, <1>4, <2>1, <2>2
<1>5. ASSUME att' = [att EXCEPT ![a].pc = "sent", ![a].exec = "running"], att[a].pc # "none"
      PROVE  ProcessTypeOK' /\ ProcessOK'
  <2>1. AttemptKeeps(a, [att[a] EXCEPT !.pc = "sent", !.exec = "running"])
    <3>1. [att[a] EXCEPT !.pc = "sent", !.exec = "running"] \in AttemptRecords
      BY <1>1 DEF AttemptRecords
    <3> QED BY <1>1, <3>1 DEF AttemptKeeps, AttemptRecords
  <2>2. att' = [att EXCEPT ![a] = [att[a] EXCEPT !.pc = "sent", !.exec = "running"]]
    BY <1>0, <1>5 DEF ProcessTypeOK
  <2> QED BY <1>3, <1>5, <2>1, <2>2
<1>6. att[a].exec = "running" => att[a].pc # "none"
  BY <1>0, RunningIsLaunched DEF ProcessOK
<1>7. CASE RuntimeStep(a)
  <2>1. AttemptKeeps(a, [att[a] EXCEPT !.pos = @ + 1])
    BY <1>1, <1>6, <1>7, StoreConstants DEF RuntimeStep, AttemptKeeps, AttemptRecords
  <2>2. att' = [att EXCEPT ![a] = [att[a] EXCEPT !.pos = @ + 1]]
    BY <1>7 DEF RuntimeStep
  <2> QED BY <1>3, <1>6, <1>7, <2>1, <2>2 DEF RuntimeStep
<1>8. CASE RuntimeEnd(a)
  <2>1. PICK end \in RuntimeEnds : att' = [att EXCEPT ![a].exec = end]
    BY <1>8 DEF RuntimeEnd
  <2>2. AttemptKeeps(a, [att[a] EXCEPT !.exec = end])
    BY <1>1, <1>6, <1>8, CoordinatorConstants DEF RuntimeEnd, AttemptKeeps, AttemptRecords
  <2>3. att' = [att EXCEPT ![a] = [att[a] EXCEPT !.exec = end]]
    BY <2>1
  <2> QED BY <1>3, <1>6, <1>8, <2>2, <2>3 DEF RuntimeEnd
<1>9. CASE CheckpointLost(a)
  <2>1. AttemptKeeps(a, [att[a] EXCEPT !.sent = att[a].pos - 1])
    BY <1>1, <1>6, <1>9, StoreConstants DEF CheckpointLost, AttemptKeeps, AttemptRecords
  <2>2. att' = [att EXCEPT ![a] = [att[a] EXCEPT !.sent = att[a].pos - 1]]
    BY <1>9 DEF CheckpointLost
  <2> QED BY <1>3, <1>6, <1>9, <2>1, <2>2 DEF CheckpointLost
<1>10. CASE \/ DispatchPrepare(a) \/ DispatchPost(a) \/ DispatchNoReply(a)
            \/ DispatchReply(a) \/ DispatchArtifacts(a) \/ DispatchFinish(a)
  <2>1. /\ att[a].pc # "none"
        /\ \/ \E pc \in {"post", "unreachable", "result", "finish", "done"} : att' = [att EXCEPT ![a].pc = pc]
           \/ att' = [att EXCEPT ![a].pc = "sent", ![a].exec = "running"]
    BY <1>10 DEF DispatchPrepare, DispatchPost, DispatchNoReply, DispatchReply, DispatchArtifacts, DispatchFinish
  <2> QED BY <1>4, <1>5, <2>1
<1> QED BY <1>7, <1>8, <1>9, <1>10

\* Callbacks.
LEMMA CallbackKeepsProcesses ==
  ASSUME ControlInv, NEW h \in Handlers, (\E a \in Attempts : CallbackRead(h, a)) \/ CallbackApply(h)
  PROVE  ProcessTypeOK' /\ ProcessOK'
<1>0. ProcessTypeOK /\ ProcessOK
  BY DEF ControlInv, TypeOK
<1>1. UNCHANGED <<health, sub, apr, can, rec, crashes>>
  BY DEF CallbackRead, CallbackApply
<1>2. CASE CallbackApply(h)
  <2>1. UNCHANGED att /\ cb' = [cb EXCEPT ![h] = IdleCallback]
    BY <1>2 DEF CallbackApply
  <2>2. cb' \in [Handlers -> CallbackRecords] /\ CallbackOK'
    BY <1>0, <2>1 DEF ProcessTypeOK, ProcessOK, CallbackOK, CallbackRecords, IdleCallback
  <2> QED BY <1>0, <1>1, <2>1, <2>2 DEF ProcessTypeOK, ProcessOK, SubmitOK, ApproveOK, AttemptOK, RecoveryOK
<1>3. ASSUME NEW a \in Attempts, CallbackRead(h, a) PROVE ProcessTypeOK' /\ ProcessOK'
  <2>1. att[a] \in AttemptRecords /\ att[a].pc # "none" /\ att[a].task \in Tasks
    BY <1>0, <1>3, RunningIsLaunched DEF ProcessTypeOK, ProcessOK, AttemptOK, CallbackRead
  <2>2. PICK pc \in {"checkpoint", "complete", "failed"}, cp \in Checkpoints \cup {Nil} :
          /\ cb' = [cb EXCEPT ![h] = [pc |-> pc, att |-> a, cp |-> cp]]
          /\ pc = "checkpoint" => cp \in Checkpoints
    BY <1>0, <1>3, PushedCheckpointType DEF CallbackRead
  <2>3. AttemptKeeps(a, att[a]) /\ AttemptKeeps(a, [att[a] EXCEPT !.sent = att[a].pos - 1])
    BY <2>1, StoreConstants DEF AttemptKeeps, AttemptRecords
  <2>4. att' = [att EXCEPT ![a] = att[a]] \/ att' = [att EXCEPT ![a] = [att[a] EXCEPT !.sent = att[a].pos - 1]]
    BY <1>0, <1>3 DEF CallbackRead, ProcessTypeOK
  <2>5. att' \in [Attempts -> AttemptRecords] /\ AttemptOK'
    BY <1>0, <2>1, <2>3, <2>4, OneAttemptMoves DEF ProcessOK
  <2>6. \A b \in Attempts : att'[b].task = att[b].task
    BY <1>0, <2>1, <2>3, <2>4 DEF ProcessTypeOK, AttemptKeeps
  <2>7. cb' \in [Handlers -> CallbackRecords]
    BY <1>0, <2>2 DEF ProcessTypeOK, CallbackRecords
  <2>8. CallbackOK'
    BY <1>0, <2>1, <2>2, <2>6 DEF ProcessTypeOK, ProcessOK, CallbackOK
  <2> QED BY <1>0, <1>1, <2>5, <2>7, <2>8 DEF ProcessTypeOK, ProcessOK, SubmitOK, ApproveOK, RecoveryOK
<1> QED BY <1>2, <1>3

\* A heartbeat, and a restart of the coordinator.
LEMMA RestartKeepsProcesses ==
  ASSUME ControlInv, (\E r \in Runtimes : Heartbeat(r)) \/ Crash
  PROVE  ProcessTypeOK' /\ ProcessOK'
<1>0. ProcessTypeOK /\ ProcessOK
  BY DEF ControlInv, TypeOK
<1>1. ASSUME NEW r \in Runtimes, Heartbeat(r) PROVE ProcessTypeOK' /\ ProcessOK'
  BY <1>0, <1>1 DEF Heartbeat, ProcessTypeOK, ProcessOK, SubmitOK, ApproveOK, CallbackOK, AttemptOK, RecoveryOK
<1>2. CASE Crash
  <2>1. /\ sub' \in [Submitters -> SubmitRecords] /\ SubmitOK'
        /\ apr' \in [Approvers -> ApproveRecords] /\ ApproveOK'
        /\ can' \in [Tasks -> CancelRecords]
    BY <1>0, <1>2 DEF Crash, ProcessTypeOK, ProcessOK, SubmitOK, ApproveOK, SubmitRecords, ApproveRecords,
                      CancelRecords, OverSubmit, IdleApprove, IdleCancel
  <2>2. cb' \in [Handlers -> CallbackRecords] /\ CallbackOK'
    BY <1>2 DEF Crash, CallbackOK, CallbackRecords, IdleCallback
  <2>3. rec' \in [Workers -> RecoveryRecords] /\ RecoveryOK'
    BY <1>2, StoreConstants DEF Crash, RecoveryOK, RecoveryRecords, IdleRecovery
  <2>4. ASSUME NEW a \in Attempts
        PROVE  /\ att'[a] \in AttemptRecords
               /\ att'[a] = att[a] \/ (att[a].pc # "none" /\ AttemptKeeps(a, att'[a]))
    <3>1. att'[a] = att[a] \/ (att'[a] = [att[a] EXCEPT !.pc = "done"] /\ att[a].pc # "none")
      BY <1>2 DEF Crash
    <3>2. att[a] \in AttemptRecords
      BY <1>0 DEF ProcessTypeOK
    <3> QED BY <3>1, <3>2 DEF AttemptKeeps, AttemptRecords
  <2>5. att' \in [Attempts -> AttemptRecords]
    BY <1>2, <2>4 DEF Crash
  <2>6. AttemptOK'
    BY <1>0, <2>4, <2>5, AttemptMoves DEF ProcessOK
  <2>7. crashes' \in 0 .. MaxCrashes /\ UNCHANGED health
    BY <1>0, <1>2, CoordinatorConstants DEF Crash, ProcessTypeOK
  <2> QED BY <1>0, <2>1, <2>2, <2>3, <2>5, <2>6, <2>7 DEF ProcessTypeOK, ProcessOK
<1> QED BY <1>1, <1>2

\* What a recovery pass holds after a step that changes it to v.
RecoveryHolds(v) ==
    /\ v \in RecoveryRecords
    /\ v.pc = "mark" => v.rt \in Runtimes
    /\ v.pc \notin {"idle", "mark", "next"} => v.task \in Tasks
    /\ v.cp \in Checkpoints => WholePrefix(v.cp)
    /\ v.pc \in {"select", "claim", "resume"} => v.cp # Invalid
    /\ v.pc \in {"claim", "resume"} => v.target \in Runtimes /\ RecoveryHandoffAllowed(v.task, v.cp)

\* One pass moves and the others stay.
LEMMA OneRecoveryMoves ==
  ASSUME ProcessTypeOK, RecoveryOK, NEW w \in Workers, NEW v, RecoveryHolds(v), rec' = [rec EXCEPT ![w] = v]
  PROVE  rec' \in [Workers -> RecoveryRecords] /\ RecoveryOK'
<1>1. rec' \in [Workers -> RecoveryRecords]
  BY DEF ProcessTypeOK, RecoveryHolds
<1>2. \A u \in Workers : rec'[u] = rec[u] \/ (rec'[u] = v)
  BY DEF ProcessTypeOK
<1> QED BY <1>1, <1>2 DEF RecoveryOK, RecoveryHolds

\* A pass that is done with a task holds nothing of it.
LEMMA ProceedKeepsRecovery ==
  ASSUME ProcessTypeOK, RecoveryOK, NEW w \in Workers, Proceed(w)
  PROVE  rec' \in [Workers -> RecoveryRecords] /\ RecoveryOK'
<1>1. rec' = [rec EXCEPT ![w] = [rec[w] EXCEPT !.pc = "next", !.task = Nil, !.cp = Nil, !.target = Nil]]
  BY DEF Proceed, ProcessTypeOK
<1>2. rec[w] \in RecoveryRecords
  BY DEF ProcessTypeOK
<1>3. RecoveryHolds([rec[w] EXCEPT !.pc = "next", !.task = Nil, !.cp = Nil, !.target = Nil])
  BY <1>2, StoreConstants DEF RecoveryHolds, RecoveryRecords
<1> QED BY <1>1, <1>3, OneRecoveryMoves

\* The steps that read and decide.
LEMMA RecoveryReadsKeepRecovery ==
  ASSUME ControlInv, NEW w \in Workers,
         RecoverLoad(w) \/ RecoverCheck(w) \/ RecoverJournal(w) \/ RecoverSelect(w)
  PROVE  rec' \in [Workers -> RecoveryRecords] /\ RecoveryOK'
<1>0. ProcessTypeOK /\ RecoveryOK /\ StoreTypeOK /\ NewestRowIsWatermark
  BY DEF ControlInv, TypeOK, ProcessOK
<1>1. rec[w] \in RecoveryRecords /\ RecoveryHolds(rec[w])
  BY <1>0 DEF ProcessTypeOK, RecoveryOK, RecoveryHolds
<1>2. RecoveryHolds(IdleRecovery)
  BY StoreConstants DEF RecoveryHolds, RecoveryRecords, IdleRecovery
<1>3. Proceed(w) => rec' \in [Workers -> RecoveryRecords] /\ RecoveryOK'
  BY <1>0, ProceedKeepsRecovery
<1>4. CASE RecoverLoad(w)
  <2>1. CASE rec' = [rec EXCEPT ![w] = IdleRecovery]
    BY <1>0, <1>2, <2>1, OneRecoveryMoves
  <2>2. ASSUME NEW t \in rec[w].todo,
               rec' = [rec EXCEPT ![w].pc = "loaded", ![w].todo = @ \ {t}, ![w].task = t,
                                  ![w].cp = BuildCumulativeRecoveryCheckpoint(walRows[t])]
        PROVE  rec' \in [Workers -> RecoveryRecords] /\ RecoveryOK'
    <3> DEFINE built == BuildCumulativeRecoveryCheckpoint(walRows[t])
               v == [rec[w] EXCEPT !.pc = "loaded", !.todo = rec[w].todo \ {t}, !.task = t, !.cp = built]
    <3>1. t \in Tasks
      BY <1>1 DEF RecoveryRecords
    <3>2. built \in {Nil, Invalid} \/ (built \in Checkpoints /\ WholePrefix(built))
      BY <1>0, <3>1, RowsCheckpoint
    <3> HIDE DEF built
    <3>3. RecoveryHolds(v)
      <4>1. v \in RecoveryRecords
        BY <1>1, <3>1, <3>2 DEF RecoveryRecords
      <4>2. v.pc = "loaded" /\ v.task = t /\ v.cp = built
        BY <1>1 DEF RecoveryRecords
      <4> HIDE DEF v
      <4> QED BY <3>1, <3>2, <4>1, <4>2, StoreConstants, PolicyConstants DEF RecoveryHolds
    <3>4. rec' = [rec EXCEPT ![w] = v]
      BY <1>0, <2>2 DEF ProcessTypeOK, built
    <3> QED BY <1>0, <3>3, <3>4, OneRecoveryMoves
  <2> QED BY <1>4, <2>1, <2>2 DEF RecoverLoad
<1>5. CASE RecoverCheck(w)
  <2> DEFINE merged == MergeTaskCheckpoint(rec[w].cp, lastCheckpoint[rec[w].task])
  <2>1. ASSUME NEW pc \in {"fail", "count"}, rec[w].pc = "loaded",
               rec' = [rec EXCEPT ![w].pc = pc, ![w].cp = MergeTaskCheckpoint(@, lastCheckpoint[rec[w].task])]
        PROVE  rec' \in [Workers -> RecoveryRecords] /\ RecoveryOK'
    <3>1. rec[w].task \in Tasks
      BY <1>1, <2>1 DEF RecoveryHolds
    <3>2. merged \in {Nil, Invalid} \/ (merged \in Checkpoints /\ WholePrefix(merged))
      BY <1>0, <1>1, <3>1, MergedCheckpoint DEF RecoveryHolds, RecoveryRecords, StoreTypeOK
    <3>3. rec' = [rec EXCEPT ![w] = [rec[w] EXCEPT !.pc = pc, !.cp = merged]]
      BY <1>0, <2>1 DEF ProcessTypeOK
    <3> HIDE DEF merged
    <3>4. RecoveryHolds([rec[w] EXCEPT !.pc = pc, !.cp = merged])
      BY <1>1, <2>1, <3>1, <3>2, StoreConstants, PolicyConstants DEF RecoveryHolds, RecoveryRecords
    <3> QED BY <1>0, <3>3, <3>4, OneRecoveryMoves
  <2> QED BY <1>3, <1>5, <2>1 DEF RecoverCheck
<1>6. CASE RecoverJournal(w)
  <2>1. ASSUME NEW pc \in {"fail", "select"}, rec[w].pc = "journal", pc = "select" => rec[w].cp # Invalid,
               rec' = [rec EXCEPT ![w].pc = pc]
        PROVE  rec' \in [Workers -> RecoveryRecords] /\ RecoveryOK'
    <3>1. RecoveryHolds([rec[w] EXCEPT !.pc = pc])
      BY <1>1, <2>1 DEF RecoveryHolds, RecoveryRecords
    <3>2. rec' = [rec EXCEPT ![w] = [rec[w] EXCEPT !.pc = pc]]
      BY <2>1
    <3> QED BY <1>0, <3>1, <3>2, OneRecoveryMoves
  <2> QED BY <1>3, <1>6, <2>1 DEF RecoverJournal
<1>7. CASE RecoverSelect(w)
  <2>1. CASE rec' = [rec EXCEPT ![w].pc = "fail"]
    <3>1. RecoveryHolds([rec[w] EXCEPT !.pc = "fail"])
      BY <1>1, <1>7 DEF RecoverSelect, RecoveryHolds, RecoveryRecords
    <3>2. rec' = [rec EXCEPT ![w] = [rec[w] EXCEPT !.pc = "fail"]]
      BY <2>1
    <3> QED BY <1>0, <3>1, <3>2, OneRecoveryMoves
  <2>2. ASSUME NEW r \in Runtimes, RecoveryHandoffAllowed(rec[w].task, rec[w].cp),
               rec' = [rec EXCEPT ![w].pc = "claim", ![w].target = r]
        PROVE  rec' \in [Workers -> RecoveryRecords] /\ RecoveryOK'
    <3>1. RecoveryHolds([rec[w] EXCEPT !.pc = "claim", !.target = r])
      BY <1>1, <1>7, <2>2 DEF RecoverSelect, RecoveryHolds, RecoveryRecords
    <3>2. rec' = [rec EXCEPT ![w] = [rec[w] EXCEPT !.pc = "claim", !.target = r]]
      BY <1>0, <2>2 DEF ProcessTypeOK
    <3> QED BY <1>0, <3>1, <3>2, OneRecoveryMoves
  <2> QED BY <1>7, <2>1, <2>2 DEF RecoverSelect, SelectRuntime, MayBeFresh
<1> QED BY <1>4, <1>5, <1>6, <1>7

\* The steps that start a pass or write to the store.
LEMMA RecoveryWritesKeepRecovery ==
  ASSUME ControlInv, NEW w \in Workers,
         \/ RecoverStart(w) \/ RecoverMark(w) \/ RecoverCount(w) \/ RecoverDLQ(w)
         \/ RecoverFail(w) \/ RecoverClaim(w) \/ RecoverResume(w)
  PROVE  rec' \in [Workers -> RecoveryRecords] /\ RecoveryOK'
<1>0. ProcessTypeOK /\ RecoveryOK
  BY DEF ControlInv, TypeOK, ProcessOK
<1>1. rec[w] \in RecoveryRecords /\ RecoveryHolds(rec[w])
  BY <1>0 DEF ProcessTypeOK, RecoveryOK, RecoveryHolds
<1>2. Proceed(w) => rec' \in [Workers -> RecoveryRecords] /\ RecoveryOK'
  BY <1>0, ProceedKeepsRecovery
<1>3. ASSUME NEW pc \in {"dlq", "journal", "fail"}, rec[w].pc \in {"count", "dlq"}, rec' = [rec EXCEPT ![w].pc = pc]
      PROVE  rec' \in [Workers -> RecoveryRecords] /\ RecoveryOK'
  <2>1. RecoveryHolds([rec[w] EXCEPT !.pc = pc])
    BY <1>1, <1>3 DEF RecoveryHolds, RecoveryRecords
  <2>2. rec' = [rec EXCEPT ![w] = [rec[w] EXCEPT !.pc = pc]]
    BY <1>3
  <2> QED BY <1>0, <2>1, <2>2, OneRecoveryMoves
<1>4. CASE RecoverStart(w)
  <2>1. PICK r \in Runtimes : rec' = [rec EXCEPT ![w].pc = "mark", ![w].rt = r]
    BY <1>4 DEF RecoverStart
  <2>2. RecoveryHolds([rec[w] EXCEPT !.pc = "mark", !.rt = r])
    BY <1>1 DEF RecoveryHolds, RecoveryRecords
  <2>3. rec' = [rec EXCEPT ![w] = [rec[w] EXCEPT !.pc = "mark", !.rt = r]]
    BY <1>0, <2>1 DEF ProcessTypeOK
  <2> QED BY <1>0, <2>2, <2>3, OneRecoveryMoves
<1>5. CASE RecoverMark(w)
  <2> DEFINE found == {t \in Tasks : runtimeID[t] = rec[w].rt /\ status[t] \in {"dispatched", "checkpointed"}}
  <2>1. CASE rec' = [rec EXCEPT ![w] = IdleRecovery]
    <3>1. RecoveryHolds(IdleRecovery)
      BY StoreConstants DEF RecoveryHolds, RecoveryRecords, IdleRecovery
    <3> QED BY <1>0, <2>1, <3>1, OneRecoveryMoves
  <2>2. CASE rec' = [rec EXCEPT ![w].pc = "next", ![w].rt = Nil, ![w].todo = found]
    <3>1. found \in SUBSET Tasks
      OBVIOUS
    <3>2. rec' = [rec EXCEPT ![w] = [rec[w] EXCEPT !.pc = "next", !.rt = Nil, !.todo = found]]
      BY <1>0, <2>2 DEF ProcessTypeOK
    <3> HIDE DEF found
    <3>3. RecoveryHolds([rec[w] EXCEPT !.pc = "next", !.rt = Nil, !.todo = found])
      BY <1>1, <3>1 DEF RecoveryHolds, RecoveryRecords
    <3> QED BY <1>0, <3>2, <3>3, OneRecoveryMoves
  <2> QED BY <1>5, <2>1, <2>2 DEF RecoverMark
<1>6. CASE RecoverCount(w) \/ RecoverDLQ(w)
  BY <1>3, <1>6 DEF RecoverCount, RecoverDLQ
<1>7. CASE RecoverFail(w) \/ RecoverResume(w)
  BY <1>2, <1>7 DEF RecoverFail, RecoverResume
<1>8. CASE RecoverClaim(w)
  <2>1. CASE rec' = [rec EXCEPT ![w].pc = "resume"]
    <3>1. RecoveryHolds([rec[w] EXCEPT !.pc = "resume"])
      BY <1>1, <1>8 DEF RecoverClaim, RecoveryHolds, RecoveryRecords
    <3>2. rec' = [rec EXCEPT ![w] = [rec[w] EXCEPT !.pc = "resume"]]
      BY <2>1
    <3> QED BY <1>0, <3>1, <3>2, OneRecoveryMoves
  <2> QED BY <1>2, <1>8, <2>1 DEF RecoverClaim
<1> QED BY <1>4, <1>5, <1>6, <1>7, <1>8

\* A handoff the policy allows comes with a checkpoint, and the task is not gated.
LEMMA HandoffFacts ==
  ASSUME NEW t \in Tasks, NEW cp, RecoveryHandoffAllowed(t, cp)
  PROVE  cp # Nil /\ t \notin HumanGated /\ \A s \in Irreversible[t] : s > cp.last
  BY DEF RecoveryHandoffAllowed, EvaluateActionPolicy, RecoveryForwardResumeSafe, TaskHasIrreversibleAction

\* A recovery pass.
LEMMA RecoveryKeepsProcesses ==
  ASSUME ControlInv, NEW w \in Workers, Recovery(w) PROVE ProcessTypeOK' /\ ProcessOK'
<1>0. ProcessTypeOK /\ ProcessOK /\ StoreTypeOK
  BY DEF ControlInv, TypeOK
<1>1. rec' \in [Workers -> RecoveryRecords] /\ RecoveryOK'
  BY RecoveryReadsKeepRecovery, RecoveryWritesKeepRecovery DEF Recovery, RecoveryStep
<1>2. UNCHANGED <<sub, apr, can, cb, crashes>>
  BY DEF Recovery, RecoveryStep, RecoverStart, RecoverMark, RecoverLoad, RecoverCheck, RecoverCount,
         RecoverDLQ, RecoverJournal, RecoverSelect, RecoverFail, RecoverClaim, RecoverResume
<1>3. health' \in [Runtimes -> {"active", "failed"}]
  BY <1>0 DEF ProcessTypeOK, Recovery, RecoveryStep, RecoverStart, RecoverMark, RecoverLoad, RecoverCheck,
         RecoverCount, RecoverDLQ, RecoverJournal, RecoverSelect, RecoverFail, RecoverClaim, RecoverResume
<1>4. ASSUME att' \in [Attempts -> AttemptRecords], AttemptOK', CallbackOK' PROVE ProcessTypeOK' /\ ProcessOK'
  BY <1>0, <1>1, <1>2, <1>3, <1>4 DEF ProcessTypeOK, ProcessOK, SubmitOK, ApproveOK
<1>5. CASE UNCHANGED att
  BY <1>0, <1>2, <1>4, <1>5 DEF ProcessTypeOK, ProcessOK, AttemptOK, CallbackOK
<1>6. ASSUME NEW a \in Attempts, att[a].pc = "unreachable", att' = [att EXCEPT ![a].pc = "done"]
      PROVE  ProcessTypeOK' /\ ProcessOK'
  <2>1. AttemptKeeps(a, [att[a] EXCEPT !.pc = "done"])
    BY <1>0 DEF ProcessTypeOK, AttemptKeeps, AttemptRecords
  <2>2. att' = [att EXCEPT ![a] = [att[a] EXCEPT !.pc = "done"]]
    BY <1>6
  <2> QED BY <1>0, <1>2, <1>4, <1>6, <2>1, <2>2, OneAttemptMoves DEF ProcessOK
<1>7. ASSUME DispatchAsync(rec[w].task, rec[w].target, runtimeID[rec[w].task], rec[w].cp, "recover"),
             rec[w].pc = "resume"
      PROVE  ProcessTypeOK' /\ ProcessOK'
  <2>1. /\ rec[w].task \in Tasks /\ rec[w].target \in Runtimes
        /\ rec[w].cp \in Checkpoints \cup {Nil, Invalid} /\ rec[w].cp # Invalid
        /\ rec[w].cp \in Checkpoints => WholePrefix(rec[w].cp)
        /\ RecoveryHandoffAllowed(rec[w].task, rec[w].cp)
    BY <1>0, <1>7 DEF ProcessTypeOK, ProcessOK, RecoveryOK, RecoveryRecords
  <2>2. rec[w].cp \in Checkpoints /\ rec[w].cp # Nil
    BY <2>1, HandoffFacts
  <2>3. runtimeID[rec[w].task] \in Runtimes \cup {Nil}
    BY <1>0, <2>1 DEF StoreTypeOK
  <2> QED BY <1>0, <1>2, <1>4, <1>7, <2>1, <2>2, <2>3, NewAttempt DEF ProcessOK
<1> QED
  BY <1>5, <1>6, <1>7 DEF Recovery, RecoveryStep, RecoverStart, RecoverMark, RecoverLoad, RecoverCheck,
     RecoverCount, RecoverDLQ, RecoverJournal, RecoverSelect, RecoverFail, RecoverClaim, RecoverResume

-----------------------------------------------------------------------------
(* The control invariant, and what follows from it                         *)

\* The processes start idle.
LEMMA ControlInit == Init => ControlInv
<1> SUFFICES ASSUME Init PROVE ControlInv
  OBVIOUS
<1>1. StoreTypeOK /\ NewestRowIsWatermark
  BY StoreTypeInit DEF Init, StoreInit, NewestRowIsWatermark
<1>2. ProcessTypeOK
  <2>1. /\ IdleSubmit \in SubmitRecords /\ IdleApprove \in ApproveRecords /\ IdleCancel \in CancelRecords
        /\ IdleCallback \in CallbackRecords /\ IdleRecovery \in RecoveryRecords
    BY DEF SubmitRecords, ApproveRecords, CancelRecords, CallbackRecords, RecoveryRecords,
           IdleSubmit, IdleApprove, IdleCancel, IdleCallback, IdleRecovery
  <2>2. UnusedAttempt \in AttemptRecords
    <3>1. 0 \in 0 .. NumSteps /\ -1 \in -1 .. NumSteps - 1
      BY StoreConstants
    <3> QED BY <3>1 DEF AttemptRecords, UnusedAttempt
  <2>3. crashes \in 0 .. MaxCrashes
    BY CoordinatorConstants DEF Init
  <2> QED BY <2>1, <2>2, <2>3 DEF Init, ProcessTypeOK
<1>3. ProcessOK
  BY StoreConstants
     DEF Init, ProcessOK, SubmitOK, ApproveOK, CallbackOK, AttemptOK, RecoveryOK,
         IdleSubmit, IdleApprove, IdleCallback, IdleRecovery, UnusedAttempt
<1> QED BY <1>1, <1>2, <1>3 DEF ControlInv, TypeOK

\* Every step preserves it.
LEMMA ControlStep == ControlInv /\ [Next]_vars => ControlInv'
<1> SUFFICES ASSUME ControlInv, [Next]_vars PROVE ControlInv'
  OBVIOUS
<1>1. StoreTypeOK' /\ NewestRowIsWatermark'
  BY CoordinatorUsesStore, StoreTypeStep, NewestStep DEF ControlInv, TypeOK
<1>2. ProcessTypeOK' /\ ProcessOK'
  <2>1. CASE Next
    BY <2>1, SubmitKeepsProcesses, ApproveKeepsProcesses, CancelKeepsProcesses, AttemptKeepsProcesses,
       CallbackKeepsProcesses, RestartKeepsProcesses, RecoveryKeepsProcesses
       DEF Next, Client, Requests, Dispatching, RuntimeSide
  <2>2. CASE UNCHANGED vars
    BY <2>2 DEF vars, ControlInv, TypeOK, ProcessTypeOK, ProcessOK, SubmitOK, ApproveOK, CallbackOK,
                AttemptOK, RecoveryOK
  <2> QED BY <2>1, <2>2
<1> QED BY <1>1, <1>2 DEF ControlInv, TypeOK

\* The coordinator's variables always have their types.
THEOREM TypeCorrect == Spec => []TypeOK
<1>1. ControlInv => TypeOK
  BY DEF ControlInv
<1> QED BY <1>1, ControlInit, ControlStep, PTL DEF Spec

\* The checkpoint a recovery sends seeds an empty runtime with exactly one entry for
\* each step up to its watermark, whatever was lost, late or refused before.
THEOREM RecoverySeedsWholePrefix == Spec => []ResumeSeedsWholePrefix
<1>1. ControlInv => ResumeSeedsWholePrefix
  BY DEF ControlInv, ProcessOK, AttemptOK, ResumeSeedsWholePrefix
<1> QED BY <1>1, ControlInit, ControlStep, PTL DEF Spec

\* A recovery hands a task over only from a checkpoint before all of its
\* irreversible steps.
THEOREM RecoveryStaysAhead == Spec => []RecoveryAheadOfIrreversible
<1>1. ControlInv => RecoveryAheadOfIrreversible
  <2> SUFFICES ASSUME ControlInv, NEW a \in Attempts, att[a].origin = "recover"
               PROVE  \A s \in Irreversible[att[a].task] : s > att[a].cp.last
    BY DEF RecoveryAheadOfIrreversible
  <2>1. /\ RecoveryHandoffAllowed(att[a].task, att[a].cp)
        /\ att[a].pc = "none" => att[a] = UnusedAttempt
        /\ att[a].pc # "none" => att[a].task \in Tasks
    BY DEF ControlInv, ProcessOK, AttemptOK
  <2>2. UnusedAttempt.origin = "none"
    BY DEF UnusedAttempt
  <2>3. att[a].task \in Tasks
    BY <2>1, <2>2
  <2> QED BY <2>1, <2>3, HandoffFacts
<1> QED BY <1>1, ControlInit, ControlStep, PTL DEF Spec

\* The coordinator is one of the callers of the store, so what the store promises
\* holds of its rows: a terminal status is final, a watermark never regresses, and
\* the row holds the newest checkpoint.
THEOREM CoordinatorImplementsStore == Spec => StoreSpec
<1>1. Init => StoreInit
  BY DEF Init
<1> QED BY <1>1, ControlInit, ControlStep, CoordinatorUsesStore, PTL DEF Spec, StoreSpec
=============================================================================
