------------------------------ MODULE TaskStore ------------------------------
(***************************************************************************)
(* The durable rows of a run, and the operations of CheckpointStore that   *)
(* change them (coordinator/checkpoint_store.go, and the approval          *)
(* transitions of coordinator/execution_governance.go).                    *)
(*                                                                         *)
(* Every operation is one SQL statement, or one transaction, that is       *)
(* conditional on the status the row has when the statement runs.  An      *)
(* action below is the case in which the statement matches the row; when   *)
(* it matches no row the code returns ErrTaskTransitionRejected and the    *)
(* rows stay as they are.                                                  *)
(*                                                                         *)
(* StoreSpec lets any caller issue any operation at any time: what it      *)
(* guarantees, it guarantees whatever the callers do.                      *)
(***************************************************************************)
EXTENDS Integers, FiniteSets

CONSTANTS
    Tasks,        \* the (tenant_id, idempotency_key) pairs of task_records
    Runtimes,     \* the runtime_ids of the tenant
    MaxAttempts,  \* bound: how many dispatches to a runtime there are in all
    NumSteps,     \* nodes of an execution graph, the steps 0 .. NumSteps - 1
    Nil           \* an SQL NULL, and Go's nil

Attempts == 1 .. MaxAttempts
Steps == 0 .. NumSteps - 1

\* WalEntry.  Its identity and contents are fixed by the execution that wrote it:
\* two executions of one step write entries with different EntryIDs.
WalEntries == [step : Steps, by : Attempts]

\* CheckpointPayload.  last is ResumeToken.LastCommittedStep; digest stands for
\* ResumeToken.CheckpointDigest, which covers every entry of the sender's WAL.
Checkpoints == [last : Steps, entries : SUBSET WalEntries, digest : SUBSET WalEntries]

ASSUME StoreConstants ==
    /\ MaxAttempts \in Nat
    /\ NumSteps \in Nat \ {0}
    /\ Nil \notin Tasks \cup Runtimes
    /\ Nil \notin Checkpoints

Statuses == {"absent", "pending", "dispatched", "checkpointed", "completed",
             "failed", "recovering", "canceled", "approval_required"}
Terminal == {"completed", "failed", "canceled"}
FailureReasons == {"none", "policy", "rejected", "failed"}

VARIABLES
    status,          \* task_records.status, "absent" before the row exists
    runtimeID,       \* task_records.runtime_id
    failureReason,   \* task_records.failure_reason, up to its origin
    lastCheckpoint,  \* task_records.last_checkpoint
    walRows,         \* the task's rows of wal_checkpoints
    attemptCount,    \* task_records.attempt_count
    dlq,             \* the tasks with a row of execution_dlq
    journal          \* the task's irreversible rows of effect_journal

rowVars == <<status, runtimeID, failureReason>>
storeVars == <<status, runtimeID, failureReason, lastCheckpoint, walRows,
               attemptCount, dlq, journal>>

StoreTypeOK ==
    /\ status \in [Tasks -> Statuses]
    /\ runtimeID \in [Tasks -> Runtimes \cup {Nil}]
    /\ failureReason \in [Tasks -> FailureReasons]
    /\ lastCheckpoint \in [Tasks -> Checkpoints \cup {Nil}]
    /\ walRows \in [Tasks -> SUBSET Checkpoints]
    /\ attemptCount \in [Tasks -> Nat]
    /\ dlq \subseteq Tasks
    /\ journal \in [Tasks -> {"none", "pending", "committed"}]

-----------------------------------------------------------------------------
(* What a status allows, and when a checkpoint is well formed              *)

TaskAllowsRuntimeMutation(s) == s \in {"dispatched", "checkpointed", "recovering"}

\* Mistake: a recovering task can no longer be claimed.
TaskAllowsDispatchOnce(s) == s = "pending"

\* Mistake: a task that is back on its runtime can be claimed for another.
TaskAllowsDispatchAnyActive(s) == s \in {"pending", "checkpointed", "recovering"}

TaskAllowsDispatch(s) == s \in {"pending", "recovering"}
TaskAllowsCancellation(s) == s \in {"pending", "dispatched", "checkpointed", "recovering"}

\* Mistake: a checkpoint that repeats the watermark passes.
TaskCheckpointAdvancesOrRepeats(current, next) ==
    current # Nil => next.last >= current.last

\* A strictly larger watermark; any checkpoint advances on none.
TaskCheckpointAdvances(current, next) ==
    current # Nil => next.last > current.last

\* The watermark is the largest step among the entries.  An empty checkpoint
\* carries the watermark 0, the smallest an unsigned step index can say.
TaskCheckpointWatermarkConsistent(cp) ==
    /\ cp.entries = {} => cp.last = 0
    /\ \A e \in cp.entries : e.step <= cp.last
    /\ cp.entries # {} => \E e \in cp.entries : e.step = cp.last

-----------------------------------------------------------------------------
(* Operations                                                              *)

StoreInit ==
    /\ status = [t \in Tasks |-> "absent"]
    /\ runtimeID = [t \in Tasks |-> Nil]
    /\ failureReason = [t \in Tasks |-> "none"]
    /\ lastCheckpoint = [t \in Tasks |-> Nil]
    /\ walRows = [t \in Tasks |-> {}]
    /\ attemptCount = [t \in Tasks |-> 0]
    /\ dlq = {}
    /\ journal = [t \in Tasks |-> "none"]

\* Mistake: ON CONFLICT DO UPDATE.
CreateTaskUpsert(t) ==
    /\ status' = [status EXCEPT ![t] = "pending"]
    /\ UNCHANGED <<runtimeID, failureReason, lastCheckpoint, walRows, attemptCount, dlq, journal>>

\* INSERT ... ON CONFLICT (tenant_id, idempotency_key) DO NOTHING
CreateTask(t) ==
    /\ status[t] = "absent"
    /\ status' = [status EXCEPT ![t] = "pending"]
    /\ UNCHANGED <<runtimeID, failureReason, lastCheckpoint, walRows, attemptCount, dlq, journal>>

MarkDispatched(t, r) ==
    /\ TaskAllowsDispatch(status[t])
    /\ status' = [status EXCEPT ![t] = "dispatched"]
    /\ runtimeID' = [runtimeID EXCEPT ![t] = r]
    /\ UNCHANGED <<failureReason, lastCheckpoint, walRows, attemptCount, dlq, journal>>

\* Mistake: the watermark under the lock is not compared.
CheckpointAcceptedInAnyOrder(t, cp) ==
    /\ TaskCheckpointWatermarkConsistent(cp)
    /\ TaskAllowsRuntimeMutation(status[t])

CheckpointAccepted(t, cp) ==
    /\ TaskCheckpointWatermarkConsistent(cp)
    /\ TaskCheckpointAdvances(lastCheckpoint[t], cp)
    /\ TaskAllowsRuntimeMutation(status[t])

\* One transaction: lock the row, compare watermarks, move the row, add the delta.
SaveCheckpoint(t, cp) ==
    /\ CheckpointAccepted(t, cp)
    /\ status' = [status EXCEPT ![t] = "checkpointed"]
    /\ lastCheckpoint' = [lastCheckpoint EXCEPT ![t] = cp]
    /\ walRows' = [walRows EXCEPT ![t] = @ \cup {cp}]
    /\ UNCHANGED <<runtimeID, failureReason, attemptCount, dlq, journal>>

\* Mistake: the update is conditional on the task id alone.
MarkCompletedWhatever(t) ==
    /\ status' = [status EXCEPT ![t] = "completed"]
    /\ UNCHANGED <<runtimeID, failureReason, lastCheckpoint, walRows, attemptCount, dlq, journal>>

MarkCompleted(t) ==
    /\ TaskAllowsRuntimeMutation(status[t])
    /\ status' = [status EXCEPT ![t] = "completed"]
    /\ UNCHANGED <<runtimeID, failureReason, lastCheckpoint, walRows, attemptCount, dlq, journal>>

\* MarkFailedWithDetails, through either of its two paths.
MarkFailed(t) ==
    /\ TaskAllowsRuntimeMutation(status[t])
    /\ status' = [status EXCEPT ![t] = "failed"]
    /\ failureReason' = [failureReason EXCEPT ![t] = "failed"]
    /\ UNCHANGED <<runtimeID, lastCheckpoint, walRows, attemptCount, dlq, journal>>

MarkCanceled(t) ==
    /\ TaskAllowsCancellation(status[t])
    /\ status' = [status EXCEPT ![t] = "canceled"]
    /\ UNCHANGED <<runtimeID, failureReason, lastCheckpoint, walRows, attemptCount, dlq, journal>>

\* Every in-flight task of the runtime, in one statement.
MarkRecovering(r) ==
    /\ status' = [t \in Tasks |->
                    IF runtimeID[t] = r /\ status[t] \in {"dispatched", "checkpointed"}
                    THEN "recovering" ELSE status[t]]
    /\ UNCHANGED <<runtimeID, failureReason, lastCheckpoint, walRows, attemptCount, dlq, journal>>

MarkApprovalRequired(t) ==
    /\ TaskAllowsDispatch(status[t])
    /\ status' = [status EXCEPT ![t] = "approval_required"]
    /\ failureReason' = [failureReason EXCEPT ![t] = "policy"]
    /\ UNCHANGED <<runtimeID, lastCheckpoint, walRows, attemptCount, dlq, journal>>

\* Mistake: the approved task is updated without looking at its status again.
MarkApprovedDispatchedUnclaimed(t, r) ==
    /\ status' = [status EXCEPT ![t] = "dispatched"]
    /\ runtimeID' = [runtimeID EXCEPT ![t] = r]
    /\ failureReason' = [failureReason EXCEPT ![t] = "none"]
    /\ UNCHANGED <<lastCheckpoint, walRows, attemptCount, dlq, journal>>

MarkApprovedDispatched(t, r) ==
    /\ status[t] = "approval_required"
    /\ status' = [status EXCEPT ![t] = "dispatched"]
    /\ runtimeID' = [runtimeID EXCEPT ![t] = r]
    /\ failureReason' = [failureReason EXCEPT ![t] = "none"]
    /\ UNCHANGED <<lastCheckpoint, walRows, attemptCount, dlq, journal>>

\* Mistake: a rejection applies to any task that has not ended.
MarkApprovalRejectedLate(t) ==
    /\ status[t] \notin Terminal
    /\ status' = [status EXCEPT ![t] = "failed"]
    /\ failureReason' = [failureReason EXCEPT ![t] = "rejected"]
    /\ UNCHANGED <<runtimeID, lastCheckpoint, walRows, attemptCount, dlq, journal>>

MarkApprovalRejected(t) ==
    /\ status[t] = "approval_required"
    /\ status' = [status EXCEPT ![t] = "failed"]
    /\ failureReason' = [failureReason EXCEPT ![t] = "rejected"]
    /\ UNCHANGED <<runtimeID, lastCheckpoint, walRows, attemptCount, dlq, journal>>

\* Mistake: the count is read and not written back.
CountRecoveryAttemptInMemory(t) == UNCHANGED storeVars

\* UPDATE ... SET attempt_count = COALESCE(attempt_count,0)+1 ... RETURNING
CountRecoveryAttempt(t) ==
    /\ attemptCount' = [attemptCount EXCEPT ![t] = @ + 1]
    /\ UNCHANGED <<rowVars, lastCheckpoint, walRows, dlq, journal>>

EnqueueDLQ(t) ==
    /\ dlq' = dlq \cup {t}
    /\ UNCHANGED <<rowVars, lastCheckpoint, walRows, attemptCount, journal>>

\* INSERT ... ON CONFLICT (tenant_id, task_id, node_id) DO NOTHING
WriteEffectJournalPending(t) ==
    /\ journal' = [journal EXCEPT ![t] = IF @ = "none" THEN "pending" ELSE @]
    /\ UNCHANGED <<rowVars, lastCheckpoint, walRows, attemptCount, dlq>>

\* UPDATE ... WHERE status = 'pending'
MarkEffectJournalCommitted(t) ==
    /\ journal' = [journal EXCEPT ![t] = IF @ = "pending" THEN "committed" ELSE @]
    /\ UNCHANGED <<rowVars, lastCheckpoint, walRows, attemptCount, dlq>>

TaskOperation(t) ==
    \/ CreateTask(t)
    \/ \E r \in Runtimes : MarkDispatched(t, r) \/ MarkApprovedDispatched(t, r)
    \/ \E cp \in Checkpoints : SaveCheckpoint(t, cp)
    \/ MarkCompleted(t)
    \/ MarkFailed(t)
    \/ MarkCanceled(t)
    \/ MarkApprovalRequired(t)
    \/ MarkApprovalRejected(t)
    \/ CountRecoveryAttempt(t)
    \/ EnqueueDLQ(t)
    \/ WriteEffectJournalPending(t)
    \/ MarkEffectJournalCommitted(t)

StoreNext ==
    \/ \E t \in Tasks : TaskOperation(t)
    \/ \E r \in Runtimes : MarkRecovering(r)

StoreSpec == StoreInit /\ [][StoreNext]_storeVars

-----------------------------------------------------------------------------
(* What the store promises, whoever calls it                               *)

\* The checkpoint on the task row and the rows of wal_checkpoints are written by
\* one transaction of SaveCheckpoint: the row holds the newest of them, so no
\* reader of either can see a later watermark than a reader of the other.
NewestRowIsWatermark ==
    \A t \in Tasks :
        IF lastCheckpoint[t] = Nil
        THEN walRows[t] = {}
        ELSE /\ lastCheckpoint[t] \in walRows[t]
             /\ \A row \in walRows[t] \ {lastCheckpoint[t]} : row.last < lastCheckpoint[t].last

\* A completed, failed or canceled run keeps that status whatever arrives later:
\* late callbacks, late dispatch replies, recovery passes, approvals, cancels.
TerminalIsFinal ==
    [][\A t \in Tasks : status[t] \in Terminal => status'[t] = status[t]]_storeVars

\* A recorded watermark is only ever replaced by a larger one, in whatever order
\* the checkpoints of one runtime or of two arrive.
WatermarkNeverRegresses ==
    [][\A t \in Tasks : lastCheckpoint'[t] # lastCheckpoint[t] =>
           /\ lastCheckpoint'[t] # Nil
           /\ lastCheckpoint[t] # Nil => lastCheckpoint'[t].last > lastCheckpoint[t].last]_storeVars
=============================================================================
