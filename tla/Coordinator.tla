----------------------------- MODULE Coordinator -----------------------------
(***************************************************************************)
(* The durable execution coordinator (coordinator/task_coordinator.go,     *)
(* coordinator/task_approval.go) with the HTTP handlers that call it       *)
(* (api/routes_tasks.go), the runtimes it dispatches to, and the crashes   *)
(* and delays between them.                                                *)
(*                                                                         *)
(* Each goroutine is a process whose steps are its accesses to the store:  *)
(* what it read in one step it uses, possibly stale, in the next.  One     *)
(* dispatch to a runtime is an attempt: the goroutine dispatchToRuntime on *)
(* the coordinator's side (pc) and the execution on the runtime's (exec),  *)
(* which outlives the goroutine.                                           *)
(***************************************************************************)
EXTENDS RecoveryPolicy

CONSTANTS
    Submitters,   \* concurrent POST requests that submit a run
    DemoTasks,    \* runs of a mock_demo action that simulates a failure
    Cancelers,    \* tasks that a client may cancel
    Approvers,    \* concurrent requests that approve a run
    Handlers,     \* concurrent runtime callbacks
    Workers,      \* concurrent recoverRuntime passes
    LoopWorkers,  \* the passes of StartRecoveryLoop, one for each coordinator process
    MaxRecoveryAttempts,  \* ExecutionConfig.MaxRecoveryAttempts
    RuntimeEnds,  \* bound: the ways in which an execution ends
    MaxCrashes,   \* bound: restarts of the coordinator
    StoreFaults   \* whether a single read or write of the store may fail

ASSUME CoordinatorConstants ==
    /\ LoopWorkers \subseteq Workers
    /\ DemoTasks \subseteq Tasks
    /\ Cancelers \subseteq Tasks
    /\ RuntimeEnds \subseteq {"completed", "failed", "stopped"}
    /\ MaxRecoveryAttempts \in Nat
    /\ MaxCrashes \in Nat
    /\ StoreFaults \in BOOLEAN

VARIABLES
    health,   \* runtime_instances.is_healthy with status: "active" or "failed"
    sub,      \* Submit
    apr,      \* ApproveTask
    can,      \* handleTaskCancel
    cb,       \* handleTaskCheckpoint, handleTaskComplete, handleTaskFailed
    rec,      \* recoverRuntime
    att,      \* dispatchToRuntime and the execution it started
    crashes

vars == <<storeVars, health, sub, apr, can, cb, rec, att, crashes>>

\* Where each process may be between two accesses to the store.
IdleSubmit == [pc |-> "idle", task |-> Nil, rt |-> Nil]
OverSubmit == [pc |-> "over", task |-> Nil, rt |-> Nil]
IdleApprove == [pc |-> "idle", task |-> Nil, rt |-> Nil]
IdleCancel == [pc |-> "idle", rt |-> Nil]
IdleCallback == [pc |-> "idle", att |-> 0, cp |-> Nil]
IdleRecovery == [pc |-> "idle", rt |-> Nil, todo |-> {}, task |-> Nil, cp |-> Nil, target |-> Nil]
UnusedAttempt == [pc |-> "none", exec |-> "none", task |-> Nil, rt |-> Nil, rid |-> Nil, cp |-> Nil,
                  origin |-> "none", pos |-> 0, sent |-> -1]

SubmitRecords ==
    [pc : {"idle", "created", "chosen", "claimed", "over"}, task : Tasks \cup {Nil}, rt : Runtimes \cup {Nil}]
ApproveRecords ==
    [pc : {"idle", "chosen", "claimed"}, task : Tasks \cup {Nil}, rt : Runtimes \cup {Nil}]
CancelRecords ==
    [pc : {"idle", "read"}, rt : Runtimes \cup {Nil}]
CallbackRecords ==
    [pc : {"idle", "checkpoint", "complete", "failed"}, att : Attempts \cup {0}, cp : Checkpoints \cup {Nil}]
RecoveryRecords ==
    [pc : {"idle", "mark", "next", "loaded", "count", "dlq", "journal", "select", "fail", "claim", "resume"},
     rt : Runtimes \cup {Nil}, todo : SUBSET Tasks, task : Tasks \cup {Nil},
     cp : Checkpoints \cup {Nil, Invalid}, target : Runtimes \cup {Nil}]
AttemptRecords ==
    [pc : {"none", "start", "post", "sent", "result", "finish", "unreachable", "done"},
     exec : {"none", "running", "completed", "failed", "stopped"},
     task : Tasks \cup {Nil}, rt : Runtimes \cup {Nil}, rid : Runtimes \cup {Nil},
     cp : Checkpoints \cup {Nil}, origin : {"none", "submit", "approve", "recover"},
     pos : 0 .. NumSteps, sent : -1 .. NumSteps - 1]

ProcessTypeOK ==
    /\ health \in [Runtimes -> {"active", "failed"}]
    /\ sub \in [Submitters -> SubmitRecords]
    /\ apr \in [Approvers -> ApproveRecords]
    /\ can \in [Tasks -> CancelRecords]
    /\ cb \in [Handlers -> CallbackRecords]
    /\ rec \in [Workers -> RecoveryRecords]
    /\ att \in [Attempts -> AttemptRecords]
    /\ crashes \in 0 .. MaxCrashes

TypeOK == StoreTypeOK /\ ProcessTypeOK

Init ==
    /\ StoreInit
    /\ health = [r \in Runtimes |-> "active"]
    /\ sub = [s \in Submitters |-> IdleSubmit]
    /\ apr = [p \in Approvers |-> IdleApprove]
    /\ can = [t \in Tasks |-> IdleCancel]
    /\ cb = [h \in Handlers |-> IdleCallback]
    /\ rec = [w \in Workers |-> IdleRecovery]
    /\ att = [a \in Attempts |-> UnusedAttempt]
    /\ crashes = 0

-----------------------------------------------------------------------------
(* Calls of the store whose error the caller drops or only logs            *)

SaveCheckpointOrRejected(t, cp) ==
    \/ SaveCheckpoint(t, cp)
    \/ (~ CheckpointAccepted(t, cp) \/ StoreFaults) /\ UNCHANGED storeVars

MarkCompletedOrRejected(t) ==
    \/ MarkCompleted(t)
    \/ (~ TaskAllowsRuntimeMutation(status[t]) \/ StoreFaults) /\ UNCHANGED storeVars

MarkFailedOrRejected(t) ==
    \/ MarkFailed(t)
    \/ (~ TaskAllowsRuntimeMutation(status[t]) \/ StoreFaults) /\ UNCHANGED storeVars

-----------------------------------------------------------------------------
(* Choosing a runtime, and starting the goroutine that talks to it         *)

\* The active runtimes with a heartbeat within HeartbeatTimeout of now.  Time goes
\* by between any two steps: a query may find any of them late.
MayBeFresh == SUBSET {r \in Runtimes : health[r] = "active"}

ActiveCount(r) ==
    Cardinality({t \in Tasks : runtimeID[t] = r /\ status[t] \in {"dispatched", "checkpointed"}})

\* selectRuntime without a preferred runtime: the least loaded of the fresh ones.
SelectRuntime(fresh) == {r \in fresh : \A q \in fresh : ActiveCount(r) <= ActiveCount(q)}

\* The first step an execution that resumes from cp runs.
ResumeStep(cp) == IF cp = Nil THEN 0 ELSE cp.last + 1

NextAttempt(a) == att[a].pc = "none" /\ \A b \in Attempts : b < a => att[b].pc # "none"

\* dispatchAsync: a full semaphore does not hold the goroutine back.  rt is where
\* the request goes, rid the RuntimeID of the record that it was built from.
DispatchAsync(t, r, rid, cp, origin) ==
    \E a \in Attempts :
        /\ NextAttempt(a)
        /\ att' = [att EXCEPT ![a] =
                     [pc |-> "start", exec |-> "none", task |-> t, rt |-> r, rid |-> rid,
                      cp |-> cp, origin |-> origin, pos |-> ResumeStep(cp), sent |-> ResumeStep(cp) - 1]]

-----------------------------------------------------------------------------
(* Submit                                                                  *)

\* The insert decides: a request that finds the key taken returns the task that
\* is there and does nothing else.
SubmitCreate(s, t) ==
    /\ sub[s].pc = "idle"
    /\ \/ /\ CreateTask(t)
          /\ sub' = [sub EXCEPT ![s] = [pc |-> "created", task |-> t, rt |-> Nil]]
       \/ /\ status[t] # "absent"
          /\ sub' = [sub EXCEPT ![s] = OverSubmit]
          /\ UNCHANGED storeVars
    /\ UNCHANGED <<health, apr, can, cb, rec, att, crashes>>

\* selectRuntime and the policy decision.  Without a runtime, or when the decision
\* cannot be saved, the handler tries to fail the task and returns an error.
SubmitSelect(s) ==
    /\ sub[s].pc = "created"
    /\ sub[s].task \notin DemoTasks
    /\ \/ /\ \E fresh \in MayBeFresh, r \in Runtimes :
                /\ r \in fresh
                /\ sub' = [sub EXCEPT ![s].pc = "chosen", ![s].rt = r]
          /\ UNCHANGED storeVars
       \/ /\ MarkFailedOrRejected(sub[s].task)
          /\ sub' = [sub EXCEPT ![s] = OverSubmit]
    /\ UNCHANGED <<health, apr, can, cb, rec, att, crashes>>

SubmitClaim(s) ==
    LET t == sub[s].task
        needsApproval == EvaluateActionPolicy(t, Nil, FALSE) = "approval_required"
    IN  /\ sub[s].pc = "chosen"
        /\ \/ /\ needsApproval
              /\ MarkApprovalRequired(t)
              /\ sub' = [sub EXCEPT ![s] = OverSubmit]
           \/ /\ ~ needsApproval
              /\ MarkDispatched(t, sub[s].rt)
              /\ sub' = [sub EXCEPT ![s].pc = "claimed"]
           \/ /\ ~ TaskAllowsDispatch(status[t]) \/ StoreFaults
              /\ sub' = [sub EXCEPT ![s] = OverSubmit]
              /\ UNCHANGED storeVars
        /\ UNCHANGED <<health, apr, can, cb, rec, att, crashes>>

\* The permission envelope is built and saved; a denial fails the task.
SubmitDispatch(s) ==
    /\ sub[s].pc = "claimed"
    /\ sub' = [sub EXCEPT ![s] = OverSubmit]
    /\ \/ DispatchAsync(sub[s].task, sub[s].rt, sub[s].rt, Nil, "submit") /\ UNCHANGED storeVars
       \/ MarkFailedOrRejected(sub[s].task) /\ UNCHANGED att
    /\ UNCHANGED <<health, apr, can, cb, rec, crashes>>

\* SubmitDemoSimulatedFailure: the record is created, then marked failed.
SubmitDemo(s) ==
    /\ sub[s].pc = "created"
    /\ sub[s].task \in DemoTasks
    /\ MarkFailedOrRejected(sub[s].task)
    /\ sub' = [sub EXCEPT ![s] = OverSubmit]
    /\ UNCHANGED <<health, apr, can, cb, rec, att, crashes>>

-----------------------------------------------------------------------------
(* Approval and cancellation                                               *)

\* The runtime is picked before the task is claimed; without one the task keeps
\* waiting.
ApproveSelect(p, t) ==
    /\ apr[p].pc = "idle"
    /\ status[t] = "approval_required"
    /\ \E fresh \in MayBeFresh : \E r \in SelectRuntime(fresh) :
          apr' = [apr EXCEPT ![p] = [pc |-> "chosen", task |-> t, rt |-> r]]
    /\ UNCHANGED <<storeVars, health, sub, can, cb, rec, att, crashes>>

ApproveClaim(p) ==
    /\ apr[p].pc = "chosen"
    /\ \/ /\ MarkApprovedDispatched(apr[p].task, apr[p].rt)
          /\ apr' = [apr EXCEPT ![p].pc = "claimed"]
       \/ /\ status[apr[p].task] # "approval_required" \/ StoreFaults
          /\ apr' = [apr EXCEPT ![p] = IdleApprove]
          /\ UNCHANGED storeVars
    /\ UNCHANGED <<health, sub, can, cb, rec, att, crashes>>

\* The encrypted inputs are decrypted for the dispatch, or the task fails.
ApproveDispatch(p) ==
    /\ apr[p].pc = "claimed"
    /\ apr' = [apr EXCEPT ![p] = IdleApprove]
    /\ \/ DispatchAsync(apr[p].task, apr[p].rt, apr[p].rt, Nil, "approve") /\ UNCHANGED storeVars
       \/ MarkFailedOrRejected(apr[p].task) /\ UNCHANGED att
    /\ UNCHANGED <<health, sub, can, cb, rec, crashes>>

RejectTask(t) ==
    /\ MarkApprovalRejected(t)
    /\ UNCHANGED <<health, sub, apr, can, cb, rec, att, crashes>>

CancelRead(t) ==
    /\ t \in Cancelers
    /\ can[t].pc = "idle"
    /\ TaskAllowsCancellation(status[t])
    /\ can' = [can EXCEPT ![t] = [pc |-> "read", rt |-> runtimeID[t]]]
    /\ UNCHANGED <<storeVars, health, sub, apr, cb, rec, att, crashes>>

\* The signal goes to the runtime the task had when it was read, and may be lost.
CancelApply(t) ==
    /\ can[t].pc = "read"
    /\ can' = [can EXCEPT ![t] = IdleCancel]
    /\ \/ /\ MarkCanceled(t)
          /\ \E signaled \in BOOLEAN :
                att' = [a \in Attempts |->
                          IF signaled /\ att[a].task = t /\ att[a].rt = can[t].rt /\ att[a].exec = "running"
                          THEN [att[a] EXCEPT !.exec = "stopped"] ELSE att[a]]
       \/ /\ ~ TaskAllowsCancellation(status[t]) \/ StoreFaults
          /\ UNCHANGED <<storeVars, att>>
    /\ UNCHANGED <<health, sub, apr, cb, rec, crashes>>

-----------------------------------------------------------------------------
(* The runtime: it executes steps, and pushes what it committed            *)

\* The runtime's WAL: what it was seeded with and what it executed itself.
WalOf(a) ==
    (IF att[a].cp = Nil THEN {} ELSE att[a].cp.entries) \cup
    {[step |-> s, by |-> a] : s \in ResumeStep(att[a].cp) .. att[a].pos - 1}

\* Deltas since the last push, or an empty checkpoint before the first step.
CheckpointsOf(a) ==
    LET Payload(last) == [last |-> last, entries |-> {e \in WalOf(a) : e.step > att[a].sent},
                          digest |-> WalOf(a)]
    IN  (IF att[a].pos - 1 > att[a].sent THEN {Payload(att[a].pos - 1)} ELSE {}) \cup
        (IF att[a].pos = 0 THEN {Payload(0)} ELSE {})

\* Mistake: the runtime runs past the end of the graph.
RuntimeStepPastEnd(a) ==
    /\ att[a].exec = "running"
    /\ att' = [att EXCEPT ![a].pos = @ + 1]
    /\ UNCHANGED <<storeVars, health, sub, apr, can, cb, rec, crashes>>

RuntimeStep(a) ==
    /\ att[a].exec = "running"
    /\ att[a].pos < NumSteps
    /\ att' = [att EXCEPT ![a].pos = @ + 1]
    /\ UNCHANGED <<storeVars, health, sub, apr, can, cb, rec, crashes>>

\* It finishes, reports a failure of its own, or dies.
RuntimeEnd(a) ==
    /\ att[a].exec = "running"
    /\ \E end \in RuntimeEnds :
          /\ end = "completed" => att[a].pos = NumSteps
          /\ att' = [att EXCEPT ![a].exec = end]
    /\ UNCHANGED <<storeVars, health, sub, apr, can, cb, rec, crashes>>

\* A pushed checkpoint that is lost, or that the handler refuses on reading.
CheckpointLost(a) ==
    /\ att[a].exec = "running"
    /\ att[a].pos - 1 > att[a].sent
    /\ att' = [att EXCEPT ![a].sent = att[a].pos - 1]
    /\ UNCHANGED <<storeVars, health, sub, apr, can, cb, rec, crashes>>

\* Register and Heartbeat: also a runtime that was marked failed is active again.
Heartbeat(r) ==
    /\ health[r] # "active"
    /\ health' = [health EXCEPT ![r] = "active"]
    /\ UNCHANGED <<storeVars, sub, apr, can, cb, rec, att, crashes>>

-----------------------------------------------------------------------------
(* Runtime callbacks                                                       *)

\* GetTask, then the checks on what was read: the status allows a mutation and
\* the signed envelope is from the runtime the task is assigned to.
CallbackRead(h, a) ==
    LET t == att[a].task IN
    /\ cb[h].pc = "idle"
    /\ att[a].exec # "none"
    /\ TaskAllowsRuntimeMutation(status[t])
    /\ runtimeID[t] = att[a].rt
    /\ \/ /\ att[a].exec = "running"
          /\ \E cp \in CheckpointsOf(a) :
                /\ cb' = [cb EXCEPT ![h] = [pc |-> "checkpoint", att |-> a, cp |-> cp]]
                /\ att' = [att EXCEPT ![a].sent = att[a].pos - 1]
       \/ /\ att[a].exec = "completed"
          /\ cb' = [cb EXCEPT ![h] = [pc |-> "complete", att |-> a, cp |-> Nil]]
          /\ UNCHANGED att
       \/ /\ att[a].exec = "failed"
          /\ cb' = [cb EXCEPT ![h] = [pc |-> "failed", att |-> a, cp |-> Nil]]
          /\ UNCHANGED att
    /\ UNCHANGED <<storeVars, health, sub, apr, can, rec, crashes>>

\* HandleCheckpoint, HandleComplete, HandleFailedWithDetails: conditional on the
\* status the row has now, not on the runtime.
CallbackApply(h) ==
    LET t == att[cb[h].att].task IN
    /\ \/ cb[h].pc = "checkpoint" /\ SaveCheckpointOrRejected(t, cb[h].cp)
       \/ cb[h].pc = "complete" /\ MarkCompletedOrRejected(t)
       \/ cb[h].pc = "failed" /\ MarkFailedOrRejected(t)
    /\ cb' = [cb EXCEPT ![h] = IdleCallback]
    /\ UNCHANGED <<health, sub, apr, can, rec, att, crashes>>

-----------------------------------------------------------------------------
(* dispatchToRuntime                                                       *)

\* Endpoint, definition, envelope and audit rows, any of which fails the task;
\* then the pending entries of the effect journal.
DispatchPrepare(a) ==
    /\ att[a].pc = "start"
    /\ \/ /\ MarkFailedOrRejected(att[a].task)
          /\ att' = [att EXCEPT ![a].pc = "done"]
       \/ /\ IF TaskHasIrreversibleAction(att[a].task)
             THEN WriteEffectJournalPending(att[a].task)
             ELSE UNCHANGED storeVars
          /\ att' = [att EXCEPT ![a].pc = "post"]
       \/ /\ StoreFaults
          /\ att' = [att EXCEPT ![a].pc = "post"]
          /\ UNCHANGED storeVars
    /\ UNCHANGED <<health, sub, apr, can, cb, rec, crashes>>

\* The request reaches the runtime, or not; the runtime may refuse it (4xx).
DispatchPost(a) ==
    /\ att[a].pc = "post"
    /\ \/ /\ att' = [att EXCEPT ![a].pc = "sent", ![a].exec = "running"]
          /\ UNCHANGED storeVars
       \/ /\ att' = [att EXCEPT ![a].pc = "unreachable"]
          /\ UNCHANGED storeVars
       \/ /\ MarkFailedOrRejected(att[a].task)
          /\ att' = [att EXCEPT ![a].pc = "done"]
    /\ UNCHANGED <<health, sub, apr, can, cb, rec, crashes>>

\* A timeout, a broken connection or a 5xx, whatever the runtime is doing.
DispatchNoReply(a) ==
    /\ att[a].pc = "sent"
    /\ att' = [att EXCEPT ![a].pc = "unreachable"]
    /\ UNCHANGED <<storeVars, health, sub, apr, can, cb, rec, crashes>>

\* The reply arrives; the checkpoint it may carry is saved, an error only logged.
\* A reply that cannot be decoded, or without a final status, ends the goroutine.
DispatchReply(a) ==
    /\ att[a].pc = "sent"
    /\ \/ \E cp \in CheckpointsOf(a) : SaveCheckpointOrRejected(att[a].task, cp)
       \/ UNCHANGED storeVars
    /\ \/ /\ att[a].exec \in {"completed", "failed"}
          /\ att' = [att EXCEPT ![a].pc = "result"]
       \/ att' = [att EXCEPT ![a].pc = "done"]
    /\ UNCHANGED <<health, sub, apr, can, cb, rec, crashes>>

\* Execution artifacts: verified, saved, and the journal's effects committed,
\* whether the result is a success or not.
DispatchArtifacts(a) ==
    /\ att[a].pc = "result"
    /\ \/ /\ MarkFailedOrRejected(att[a].task)
          /\ att' = [att EXCEPT ![a].pc = "done"]
       \/ /\ MarkEffectJournalCommitted(att[a].task)
          /\ att' = [att EXCEPT ![a].pc = "finish"]
       \/ /\ att' = [att EXCEPT ![a].pc = "finish"]
          /\ UNCHANGED storeVars
    /\ UNCHANGED <<health, sub, apr, can, cb, rec, crashes>>

DispatchFinish(a) ==
    /\ att[a].pc = "finish"
    /\ \/ att[a].exec = "completed" /\ MarkCompletedOrRejected(att[a].task)
       \/ att[a].exec = "failed" /\ MarkFailedOrRejected(att[a].task)
    /\ att' = [att EXCEPT ![a].pc = "done"]
    /\ UNCHANGED <<health, sub, apr, can, cb, rec, crashes>>

-----------------------------------------------------------------------------
(* recoverRuntime                                                          *)

\* Either the recovery loop finds the heartbeat stale, or a dispatch to one task
\* failed; both mark the runtime failed and then recover all of its tasks.
RecoverStart(w) ==
    /\ rec[w].pc = "idle"
    /\ \E r \in Runtimes :
          /\ \/ w \in LoopWorkers /\ health[r] = "active" /\ UNCHANGED att
             \/ \E a \in Attempts :
                   /\ w \notin LoopWorkers
                   /\ att[a].pc = "unreachable" /\ att[a].rid = r
                   /\ att' = [att EXCEPT ![a].pc = "done"]
          /\ health' = [health EXCEPT ![r] = "failed"]
          /\ rec' = [rec EXCEPT ![w].pc = "mark", ![w].rt = r]
    /\ UNCHANGED <<storeVars, sub, apr, can, cb, crashes>>

RecoverMark(w) ==
    /\ rec[w].pc = "mark"
    /\ \/ /\ MarkRecovering(rec[w].rt)
          /\ rec' = [rec EXCEPT ![w].pc = "next", ![w].rt = Nil,
                                ![w].todo = {t \in Tasks : /\ runtimeID[t] = rec[w].rt
                                                           /\ status[t] \in {"dispatched", "checkpointed"}}]
       \/ StoreFaults /\ rec' = [rec EXCEPT ![w] = IdleRecovery] /\ UNCHANGED storeVars
    /\ UNCHANGED <<health, sub, apr, can, cb, att, crashes>>

\* Mistake: the pass returns after the first task of the runtime.
RecoverLoadFirstOnly(w) ==
    /\ rec[w].pc = "next"
    /\ \/ /\ rec[w].todo = {}
          /\ rec' = [rec EXCEPT ![w] = IdleRecovery]
       \/ \E t \in rec[w].todo :
             rec' = [rec EXCEPT ![w].pc = "loaded", ![w].todo = {}, ![w].task = t,
                                ![w].cp = BuildCumulativeRecoveryCheckpoint(walRows[t])]
    /\ UNCHANGED <<storeVars, health, sub, apr, can, cb, att, crashes>>

RecoverLoad(w) ==
    /\ rec[w].pc = "next"
    /\ \/ /\ rec[w].todo = {}
          /\ rec' = [rec EXCEPT ![w] = IdleRecovery]
       \/ \E t \in rec[w].todo :
             rec' = [rec EXCEPT ![w].pc = "loaded", ![w].todo = @ \ {t}, ![w].task = t,
                                ![w].cp = BuildCumulativeRecoveryCheckpoint(walRows[t])]
    /\ UNCHANGED <<storeVars, health, sub, apr, can, cb, att, crashes>>

\* The worker is done with the task at hand.
Proceed(w) == rec' = [rec EXCEPT ![w].pc = "next", ![w].task = Nil, ![w].cp = Nil, ![w].target = Nil]

\* The statuses TaskRecoverySkipReason names; for the others it returns "".
SkipStatuses == Terminal \cup {"approval_required"}

\* Mistake: the class of the task is not looked at.
RecoverCheckAnyClass(w) ==
    LET t == rec[w].task IN
    /\ rec[w].pc = "loaded"
    /\ \/ status[t] \in SkipStatuses /\ Proceed(w)
       \/ /\ status[t] \notin SkipStatuses
          /\ rec' = [rec EXCEPT ![w].pc = "count", ![w].cp = MergeTaskCheckpoint(@, lastCheckpoint[t])]
    /\ UNCHANGED <<storeVars, health, sub, apr, can, cb, att, crashes>>

\* GetTask and the skip reasons.  The checkpoint on the row is merged in further
\* down in the code, but as it is read here.
RecoverCheck(w) ==
    LET t == rec[w].task
        streaming == status[t] = "recovering" /\ t \in Streaming
        To(pc) == rec' = [rec EXCEPT ![w].pc = pc,
                                     ![w].cp = MergeTaskCheckpoint(@, lastCheckpoint[t])]
    IN  /\ rec[w].pc = "loaded"
        /\ \/ status[t] \in SkipStatuses /\ Proceed(w)
           \/ streaming /\ To("fail")
           \/ status[t] \notin SkipStatuses /\ ~ streaming /\ To("count")
           \/ StoreFaults /\ Proceed(w)
        /\ UNCHANGED <<storeVars, health, sub, apr, can, cb, att, crashes>>

\* shouldEnqueueDLQ: an error lets the recovery go on, uncounted.
RecoverCount(w) ==
    LET t == rec[w].task
        spent == attemptCount[t] + 1 > MaxRecoveryAttempts
    IN  /\ rec[w].pc = "count"
        /\ \/ /\ CountRecoveryAttempt(t)
              /\ rec' = [rec EXCEPT ![w].pc = IF spent THEN "dlq" ELSE "journal"]
           \/ /\ StoreFaults
              /\ rec' = [rec EXCEPT ![w].pc = "journal"]
              /\ UNCHANGED storeVars
        /\ UNCHANGED <<health, sub, apr, can, cb, att, crashes>>

RecoverDLQ(w) ==
    /\ rec[w].pc = "dlq"
    /\ rec' = [rec EXCEPT ![w].pc = "fail"]
    /\ \/ EnqueueDLQ(rec[w].task)
       \/ StoreFaults /\ UNCHANGED storeVars
    /\ UNCHANGED <<health, sub, apr, can, cb, att, crashes>>

\* hasCommittedIrreversibleInJournal, which takes an error for no entry.  The
\* checkpoint counts only now: one that is invalid fails the task, one that could
\* not be read leaves it as it is.
RecoverJournal(w) ==
    LET To(pc) == rec' = [rec EXCEPT ![w].pc = pc] IN
    /\ rec[w].pc = "journal"
    /\ \/ (journal[rec[w].task] = "committed" \/ rec[w].cp = Invalid) /\ To("fail")
       \/ (journal[rec[w].task] # "committed" \/ StoreFaults) /\ rec[w].cp # Invalid /\ To("select")
       \/ StoreFaults /\ Proceed(w)
    /\ UNCHANGED <<storeVars, health, sub, apr, can, cb, att, crashes>>

\* No runtime is fresh, the decision cannot be saved, or the handoff is denied.
RecoverSelect(w) ==
    LET allowed == RecoveryHandoffAllowed(rec[w].task, rec[w].cp) IN
    /\ rec[w].pc = "select"
    /\ \/ rec' = [rec EXCEPT ![w].pc = "fail"]
       \/ /\ allowed
          /\ \E fresh \in MayBeFresh : \E r \in SelectRuntime(fresh) :
                rec' = [rec EXCEPT ![w].pc = "claim", ![w].target = r]
    /\ UNCHANGED <<storeVars, health, sub, apr, can, cb, att, crashes>>

\* Mistake: a task that is not handed over is left as it is.
RecoverFailSilently(w) ==
    /\ rec[w].pc = "fail"
    /\ Proceed(w)
    /\ UNCHANGED <<storeVars, health, sub, apr, can, cb, att, crashes>>

RecoverFail(w) ==
    /\ rec[w].pc = "fail"
    /\ MarkFailedOrRejected(rec[w].task)
    /\ Proceed(w)
    /\ UNCHANGED <<health, sub, apr, can, cb, att, crashes>>

RecoverClaim(w) ==
    /\ rec[w].pc = "claim"
    /\ \/ MarkDispatched(rec[w].task, rec[w].target) /\ rec' = [rec EXCEPT ![w].pc = "resume"]
       \/ /\ ~ TaskAllowsDispatch(status[rec[w].task]) \/ StoreFaults
          /\ Proceed(w)
          /\ UNCHANGED storeVars
    /\ UNCHANGED <<health, sub, apr, can, cb, att, crashes>>

\* The row is read again for the dispatch; inputs that cannot be decrypted fail
\* the task, a failed read only ends its turn.
RecoverResume(w) ==
    LET t == rec[w].task IN
    /\ rec[w].pc = "resume"
    /\ Proceed(w)
    /\ \/ DispatchAsync(t, rec[w].target, runtimeID[t], rec[w].cp, "recover") /\ UNCHANGED storeVars
       \/ MarkFailedOrRejected(t) /\ UNCHANGED att
       \/ StoreFaults /\ UNCHANGED <<storeVars, att>>
    /\ UNCHANGED <<health, sub, apr, can, cb, crashes>>

-----------------------------------------------------------------------------
\* The coordinator stops and starts again.  Its goroutines are gone; the rows and
\* the executions on the runtimes are not.
Crash ==
    /\ crashes < MaxCrashes
    /\ crashes' = crashes + 1
    /\ sub' = [s \in Submitters |-> IF sub[s].pc = "idle" THEN sub[s] ELSE OverSubmit]
    /\ apr' = [p \in Approvers |-> IdleApprove]
    /\ can' = [t \in Tasks |-> IdleCancel]
    /\ cb' = [h \in Handlers |-> IdleCallback]
    /\ rec' = [w \in Workers |-> IdleRecovery]
    /\ att' = [a \in Attempts |-> IF att[a].pc = "none" THEN att[a] ELSE [att[a] EXCEPT !.pc = "done"]]
    /\ UNCHANGED <<storeVars, health>>

Client ==
    \/ \E s \in Submitters, t \in Tasks : SubmitCreate(s, t)
    \/ \E p \in Approvers, t \in Tasks : ApproveSelect(p, t)
    \/ \E t \in Tasks : RejectTask(t) \/ CancelRead(t)

Requests ==
    \/ \E s \in Submitters : SubmitSelect(s) \/ SubmitDemo(s) \/ SubmitClaim(s) \/ SubmitDispatch(s)
    \/ \E p \in Approvers : ApproveClaim(p) \/ ApproveDispatch(p)
    \/ \E t \in Tasks : CancelApply(t)
    \/ \E h \in Handlers : CallbackApply(h)

Dispatching ==
    \E a \in Attempts :
        \/ DispatchPrepare(a) \/ DispatchPost(a) \/ DispatchNoReply(a)
        \/ DispatchReply(a) \/ DispatchArtifacts(a) \/ DispatchFinish(a)

\* A pass that has started goes on to its end.
RecoveryStep(w) ==
    \/ RecoverMark(w) \/ RecoverLoad(w) \/ RecoverCheck(w) \/ RecoverCount(w)
    \/ RecoverDLQ(w) \/ RecoverJournal(w) \/ RecoverSelect(w) \/ RecoverFail(w)
    \/ RecoverClaim(w) \/ RecoverResume(w)

Recovery(w) ==
    \/ RecoverStart(w) \/ RecoveryStep(w)

RuntimeSide ==
    \/ \E a \in Attempts : RuntimeStep(a) \/ RuntimeEnd(a) \/ CheckpointLost(a)
    \/ \E h \in Handlers, a \in Attempts : CallbackRead(h, a)
    \/ \E r \in Runtimes : Heartbeat(r)

Next ==
    \/ Client \/ Requests \/ Dispatching \/ RuntimeSide \/ Crash
    \/ \E w \in Workers : Recovery(w)

Spec == Init /\ [][Next]_vars

\* The Go scheduler runs every started recovery pass to its end.
FairSpec == Spec /\ \A w \in Workers : WF_vars(RecoveryStep(w))

\* Moreover the recovery loop starts a pass whenever it finds a stale runtime.
LoopFairSpec == FairSpec /\ \A w \in LoopWorkers : WF_vars(Recovery(w))

-----------------------------------------------------------------------------
(* Properties                                                              *)

Launched(a) == att[a].pc # "none"

\* The steps the runtime really ran for an attempt.
Executed(a) == {s \in Steps : ResumeStep(att[a].cp) <= s /\ s < att[a].pos}

\* However many requests carry the key, however many approvals race, and whatever
\* crashes: a task is handed to a runtime at most once other than by a recovery.
InitialDispatchOnce ==
    \A a, b \in Attempts :
        /\ Launched(a) /\ Launched(b) /\ a # b
        /\ att[a].task = att[b].task
        => "recover" \in {att[a].origin, att[b].origin}

\* A human-gated task reaches a runtime only through ApproveTask: neither Submit
\* nor a recovery sends it.
GateBeforeDispatch ==
    \A a \in Attempts : Launched(a) /\ att[a].task \in HumanGated => att[a].origin = "approve"

\* "A rejected run is marked terminal and is never dispatched."
RejectedNeverDispatched ==
    \A t \in Tasks : failureReason[t] = "rejected" =>
        /\ status[t] = "failed"
        /\ \A a \in Attempts : Launched(a) => att[a].task # t

\* One committed entry for each step up to the watermark.
WholePrefix(cp) ==
    \A s \in 0 .. cp.last : \E e \in cp.entries :
        e.step = s /\ \A f \in cp.entries : f.step = s => f = e

\* The checkpoint a recovery sends seeds an empty replacement runtime with exactly
\* one committed entry for each step up to its watermark, although the rows are
\* deltas and some of them may never have arrived.
ResumeSeedsWholePrefix ==
    \A a \in Attempts : att[a].origin = "recover" => att[a].cp # Nil /\ WholePrefix(att[a].cp)

\* A run is completed only when every step of its graph was executed by some
\* runtime, across all the handovers between them.
CompletedMeansExecuted ==
    \A t \in Tasks : status[t] = "completed" =>
        \A s \in Steps : \E a \in Attempts : att[a].task = t /\ s \in Executed(a)

\* A task is "recovering" only while some recovery pass still has it to deal with:
\* nothing else looks for such tasks.  A crash, or a store that fails, can leave one
\* behind.
RecoveringIsOwned ==
    crashes = 0 /\ ~ StoreFaults =>
        \A t \in Tasks : status[t] = "recovering" =>
            \E w \in Workers : t \in rec[w].todo \cup {rec[w].task}

\* "streaming durable tasks do not support resume": as long as one recovery pass
\* runs at a time, none is handed over.
StreamingNeverResumed ==
    \A a \in Attempts : att[a].task \in Streaming => att[a].origin # "recover"

\* With a store that answers, a task is handed to another runtime at most
\* MaxRecoveryAttempts times, however many recovery passes run at once.
RecoveryBudget ==
    ~ StoreFaults =>
        \A t \in Tasks :
            Cardinality({a \in Attempts : att[a].task = t /\ att[a].origin = "recover"}) <= MaxRecoveryAttempts

\* A recovery hands a task over only from a checkpoint before all of its
\* irreversible steps.
RecoveryAheadOfIrreversible ==
    \A a \in Attempts : att[a].origin = "recover" =>
        \A s \in Irreversible[att[a].task] : s > att[a].cp.last

\* The irreversible-safety invariant is re-verified "at the actual redispatch point":
\* when a recovery claims the task, no irreversible step is at or before the
\* watermark on the row, although the decision was made on one read earlier.  As
\* long as one recovery pass runs at a time, a late checkpoint loses the claim.
HandoffDecisionIsCurrent ==
    [][\A w \in Workers :
          rec[w].pc = "claim" /\ rec'[w].pc = "resume" =>
              \A s \in Irreversible[rec[w].task] : s > lastCheckpoint[rec[w].task].last]_vars

PhaseOf(s) ==
    CASE s = "pending" -> "queued"
      [] s = "approval_required" -> "awaiting_approval"
      [] s \in {"dispatched", "checkpointed", "recovering"} -> "active"
      [] s = "completed" -> "succeeded"
      [] OTHER -> s

Lifecycle ==
    INSTANCE RunLifecycle WITH
        Runs <- Tasks,
        Gated <- HumanGated,
        phase <- [t \in Tasks |-> PhaseOf(status[t])],
        started <- {t \in Tasks : \E a \in Attempts : att[a].task = t}

\* The coordinator is a run lifecycle: what a client sees of its rows only makes
\* the moves of RunLifecycle.
LifecycleSpec == Lifecycle!Spec

\* The recovery loop "detects dead runtimes and reassigns their in-flight tasks": a
\* task that is taken from its runtime does not stay "recovering".  It is handed to
\* another runtime, ends, or its old runtime is heard of again.
RecoveringResolved ==
    \A t \in Tasks : status[t] = "recovering" ~> status[t] # "recovering"

-----------------------------------------------------------------------------
(* What comments and documents of the repository say, and the code does    *)
(* not ensure                                                              *)

\* "irreversible work is never blindly retried": no two attempts at a task both
\* execute one of its irreversible steps.
IrreversibleNeverReplayed ==
    \A a, b \in Attempts : a # b /\ Launched(a) /\ att[a].task = att[b].task =>
        Executed(a) \cap Executed(b) \cap Irreversible[att[a].task] = {}

\* "committed = true means the external call succeeded; recovery must not replay
\* it": no recovery is sent to a runtime once the journal holds the commit.
JournalBlocksReplay ==
    [][\A a \in Attempts :
          att[a].pc = "post" /\ att'[a].pc = "sent" /\ att[a].origin = "recover"
          => journal[att[a].task] # "committed"]_vars

\* SubmitDemoSimulatedFailure "creates a durable task record and marks it failed":
\* when the handler is done, the record is failed.
DemoFailureIsRecorded ==
    [][\A s \in Submitters :
          sub[s].pc = "created" /\ sub[s].task \in DemoTasks /\ sub'[s].pc = "over"
          => status'[sub[s].task] = "failed"]_vars
=============================================================================
