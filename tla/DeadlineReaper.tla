---------------------------- MODULE DeadlineReaper ----------------------------
(***************************************************************************)
(* StartDeadlineReaper and reapExpiredDeadlines                            *)
(* (coordinator/task_coordinator.go) over the rows of TaskStore: a ticker  *)
(* that fails, in one transaction, the tasks whose deadline has passed.    *)
(* Postgres refuses a statement that sets a column the table does not      *)
(* have; the transaction is then aborted and its commit rolls back.        *)
(***************************************************************************)
EXTENDS TaskStore

VARIABLE expired  \* the tasks with deadline_at < NOW()

reaperVars == <<storeVars, expired>>

Init == StoreInit /\ expired = {}

\* The columns of task_records that the reaper's UPDATE could set, as created by
\* the migrations: created_at and completed_at are there, updated_at is not.
TaskRecordsColumns == {"status", "failure_reason", "failure_details", "created_at", "completed_at"}

\* The columns the reaper's UPDATE sets.
ReaperSetColumns == {"status", "failure_reason", "failure_details", "updated_at"}

Reapable(t) == t \in expired /\ status[t] \in {"pending", "dispatched", "checkpointed", "recovering"}

ReapExpiredDeadlines ==
    /\ \E t \in Tasks : Reapable(t)
    /\ IF ReaperSetColumns \subseteq TaskRecordsColumns
       THEN /\ status' = [t \in Tasks |-> IF Reapable(t) THEN "failed" ELSE status[t]]
            /\ failureReason' = [t \in Tasks |-> IF Reapable(t) THEN "failed" ELSE failureReason[t]]
       ELSE UNCHANGED <<status, failureReason>>
    /\ UNCHANGED <<runtimeID, lastCheckpoint, walRows, attemptCount, dlq, journal, expired>>

DeadlinePasses(t) ==
    /\ t \notin expired
    /\ expired' = expired \cup {t}
    /\ UNCHANGED storeVars

\* The rest of the coordinator, of which only the status matters here.
Progress(t) ==
    /\ \/ CreateTask(t)
       \/ \E r \in Runtimes : MarkDispatched(t, r)
       \/ MarkCompleted(t)
       \/ MarkFailed(t)
       \/ MarkCanceled(t)
    /\ UNCHANGED expired

Next ==
    \/ ReapExpiredDeadlines
    \/ \E t \in Tasks : DeadlinePasses(t) \/ Progress(t)
    \/ \E r \in Runtimes : MarkRecovering(r) /\ UNCHANGED expired

\* The ticker fires for as long as the process runs.
FairSpec == Init /\ [][Next]_reaperVars /\ WF_reaperVars(ReapExpiredDeadlines)

-----------------------------------------------------------------------------
\* StartDeadlineReaper "runs a background goroutine that fails expired tasks whose
\* deadline has passed": an expired task that is not terminal does not stay so.
ExpiredIsReaped ==
    \A t \in Tasks : Reapable(t) ~> status[t] \in Terminal
=============================================================================
