---------------------------- MODULE RecoveryProofs ----------------------------
(***************************************************************************)
(* What the recovery passes guarantee for every number of tasks, runtimes, *)
(* attempts and concurrent passes: a task that one takes from its runtime  *)
(* is not forgotten, and it is handed over within the budget.  Two more    *)
(* hold as long as one pass runs at a time: a streaming run is never       *)
(* handed over, and the decision to hand a run over is still right when    *)
(* the run is claimed.                                                     *)
(***************************************************************************)
EXTENDS DispatchProofs, FiniteSetTheorems

-----------------------------------------------------------------------------
(* What a recovery pass took stays with it                                 *)

\* The pass has not yet done with the task what ends its turn.
Keeps(w, t) ==
    \/ t \in rec[w].todo
    \/ rec[w].task = t /\ rec[w].pc \in {"loaded", "count", "dlq", "journal", "select", "fail", "claim"}

\* A pass that has claimed the task keeps it no longer: another pass may already
\* have taken it from its new runtime.
OwnedInv ==
    /\ \A w \in Workers : rec[w].pc \in {"idle", "mark"} => rec[w].todo = {}
    /\ crashes = 0 /\ ~ StoreFaults =>
          \A t \in Tasks : status[t] = "recovering" => \E w \in Workers : Keeps(w, t)

\* No call but MarkRecovering makes a task recovering, and a checkpoint that is
\* saved takes it out of recovery.
LEMMA CallsRecoverNothing ==
  ASSUME StoreTypeOK, StoreCall, NEW t \in Tasks
  PROVE  /\ status'[t] = "recovering" => status[t] = "recovering" /\ lastCheckpoint'[t] = lastCheckpoint[t]
         /\ lastCheckpoint[t] # Nil => lastCheckpoint'[t] # Nil
<1>1. CASE UNCHANGED storeVars
  BY <1>1 DEF storeVars
<1>2. ASSUME NEW u \in Tasks, TaskOperation(u)
      PROVE  /\ status'[t] = "recovering" => status[t] = "recovering" /\ lastCheckpoint'[t] = lastCheckpoint[t]
             /\ lastCheckpoint[t] # Nil => lastCheckpoint'[t] # Nil
  <2>1. ASSUME NEW cp \in Checkpoints, SaveCheckpoint(u, cp)
        PROVE  /\ status'[t] = "recovering" => status[t] = "recovering" /\ lastCheckpoint'[t] = lastCheckpoint[t]
               /\ lastCheckpoint[t] # Nil => lastCheckpoint'[t] # Nil
    BY <2>1, StoreConstants DEF SaveCheckpoint, StoreTypeOK
  <2>2. ASSUME UNCHANGED lastCheckpoint,
               UNCHANGED status \/ \E st \in Statuses \ {"recovering"} : status' = [status EXCEPT ![u] = st]
        PROVE  /\ status'[t] = "recovering" => status[t] = "recovering" /\ lastCheckpoint'[t] = lastCheckpoint[t]
               /\ lastCheckpoint[t] # Nil => lastCheckpoint'[t] # Nil
    BY <2>2 DEF StoreTypeOK
  <2> QED
    BY <1>2, <2>1, <2>2
       DEF TaskOperation, CreateTask, MarkDispatched, MarkApprovedDispatched, MarkCompleted, MarkFailed,
           MarkCanceled, MarkApprovalRequired, MarkApprovalRejected, CountRecoveryAttempt, EnqueueDLQ,
           WriteEffectJournalPending, MarkEffectJournalCommitted, rowVars, Statuses
<1> QED BY <1>1, <1>2 DEF StoreCall

\* A step of a pass on one task, other than the collection of the tasks: whoever kept
\* a task that is still recovering keeps it.
LEMMA PassKeepsTasks ==
  ASSUME ControlInv, ~ StoreFaults, NEW w \in Workers, Recovery(w), ~ RecoverMark(w), NEW u \in Workers,
         NEW t \in Tasks, Keeps(u, t), status'[t] = "recovering"
  PROVE  Keeps(u, t)'
<1>0. rec \in [Workers -> RecoveryRecords] /\ StoreTypeOK /\ RecoveryOK
  BY DEF ControlInv, TypeOK, ProcessTypeOK, ProcessOK
<1>1. StoreCall /\ status[t] = "recovering"
  BY <1>0, RecoveryUsesStore, CallsRecoverNothing
<1>2. CASE u # w
  <2>1. rec'[u] = rec[u]
    BY <1>0, <1>2 DEF Recovery, RecoveryStep, RecoverStart, RecoverLoad, RecoverCheck, RecoverCount, RecoverDLQ,
       RecoverJournal, RecoverSelect, RecoverFail, RecoverClaim, RecoverResume, Proceed
  <2> QED BY <2>1 DEF Keeps
<1>3. CASE u = w
  <2> USE <1>0, <1>3 DEF RecoveryRecords, Keeps
  <2>0. ASSUME Proceed(w), rec[w].pc \notin {"loaded", "count", "dlq", "journal", "select", "fail", "claim"} \/ rec[w].task # t
        PROVE  Keeps(u, t)'
    BY <2>0 DEF Proceed
  <2>1. CASE RecoverStart(w)
    <3>1. PICK r \in Runtimes : rec' = [rec EXCEPT ![w].pc = "mark", ![w].rt = r] /\ rec[w].pc = "idle"
      BY <2>1 DEF RecoverStart
    <3> QED BY <3>1
  <2>2. CASE RecoverLoad(w)
    <3>1. rec[w].pc = "next" /\ t \in rec[w].todo
      BY <2>2 DEF RecoverLoad
    <3>2. PICK v \in rec[w].todo :
            rec' = [rec EXCEPT ![w].pc = "loaded", ![w].todo = @ \ {v}, ![w].task = v,
                               ![w].cp = BuildCumulativeRecoveryCheckpoint(walRows[v])]
      BY <2>2, <3>1 DEF RecoverLoad
    <3>3. rec'[w].todo = rec[w].todo \ {v} /\ rec'[w].task = v /\ rec'[w].pc = "loaded"
      BY <3>2
    <3> QED BY <3>1, <3>3
  <2>3. CASE RecoverCheck(w)
    BY <1>1, <2>0, <2>3 DEF RecoverCheck, SkipStatuses, Terminal
  <2>4. CASE RecoverCount(w) \/ RecoverDLQ(w)
    BY <2>4 DEF RecoverCount, RecoverDLQ
  <2>5. CASE RecoverJournal(w) \/ RecoverSelect(w)
    BY <2>5 DEF RecoverJournal, RecoverSelect
  <2>6. CASE RecoverFail(w)
    <3>1. rec[w].task # t
      <4>1. MarkFailedOrRejected(rec[w].task) /\ rec[w].task \in Tasks
        BY <2>6 DEF RecoverFail, RecoveryOK
      <4> QED BY <1>1, <4>1 DEF MarkFailedOrRejected, MarkFailed, TaskAllowsRuntimeMutation, StoreTypeOK
    <3> QED BY <2>0, <2>6, <3>1 DEF RecoverFail
  <2>7. CASE RecoverClaim(w)
    <3>1. rec[w].task # t
      BY <1>1, <2>7 DEF RecoverClaim, MarkDispatched, TaskAllowsDispatch, StoreTypeOK
    <3> QED BY <2>0, <2>7, <3>1 DEF RecoverClaim
  <2>8. CASE RecoverResume(w)
    BY <2>0, <2>8 DEF RecoverResume
  <2> QED BY <2>1, <2>2, <2>3, <2>4, <2>5, <2>6, <2>7, <2>8 DEF Recovery, RecoveryStep
<1> QED BY <1>2, <1>3

\* Every step preserves the ownership.
LEMMA OwnedStep == ControlInv /\ OwnedInv /\ [Next]_vars => OwnedInv'
<1> SUFFICES ASSUME ControlInv, OwnedInv, [Next]_vars PROVE OwnedInv'
  OBVIOUS
<1>0. rec \in [Workers -> RecoveryRecords] /\ StoreTypeOK
  BY DEF ControlInv, TypeOK, ProcessTypeOK
<1>1. CASE Client \/ Requests \/ Dispatching \/ RuntimeSide \/ UNCHANGED vars
  <2>1. UNCHANGED rec /\ UNCHANGED crashes
    BY <1>1 DEF Client, SubmitCreate, ApproveSelect, RejectTask, CancelRead, Requests, SubmitSelect, SubmitDemo,
       SubmitClaim, SubmitDispatch, ApproveClaim, ApproveDispatch, CancelApply, CallbackApply, Dispatching,
       DispatchPrepare, DispatchPost, DispatchNoReply, DispatchReply, DispatchArtifacts, DispatchFinish,
       RuntimeSide, RuntimeStep, RuntimeEnd, CheckpointLost, CallbackRead, Heartbeat, vars
  <2>2. StoreCall
    BY <1>1, RequestsUseStore, DispatchUsesStore DEF StoreCall, vars
  <2>3. \A t \in Tasks : status'[t] = "recovering" => status[t] = "recovering"
    BY <1>0, <2>2, CallsRecoverNothing
  <2>4. \A w \in Workers, t \in Tasks : Keeps(w, t)' <=> Keeps(w, t)
    BY <2>1 DEF Keeps
  <2> QED BY <2>1, <2>3, <2>4 DEF OwnedInv
<1>2. CASE Crash
  <2>1. crashes' # 0
    BY <1>2 DEF Crash, ControlInv, TypeOK, ProcessTypeOK
  <2> QED BY <1>2, <2>1 DEF Crash, OwnedInv, IdleRecovery
<1>3. ASSUME NEW w \in Workers, Recovery(w) PROVE OwnedInv'
  <2>1. UNCHANGED crashes
    BY <1>3 DEF Recovery, RecoveryStep, RecoverStart, RecoverMark, RecoverLoad, RecoverCheck, RecoverCount,
       RecoverDLQ, RecoverJournal, RecoverSelect, RecoverFail, RecoverClaim, RecoverResume
  <2>2. ASSUME NEW u \in Workers, rec'[u].pc \in {"idle", "mark"} PROVE rec'[u].todo = {}
    <3>1. CASE u # w
      <4>1. rec'[u] = rec[u]
        BY <1>0, <1>3, <3>1 DEF Recovery, RecoveryStep, RecoverStart, RecoverMark, RecoverLoad, RecoverCheck,
           RecoverCount, RecoverDLQ, RecoverJournal, RecoverSelect, RecoverFail, RecoverClaim, RecoverResume,
           Proceed
      <4> QED BY <2>2, <4>1 DEF OwnedInv
    <3>2. CASE u = w
      <4>1. \/ rec' = [rec EXCEPT ![w] = IdleRecovery]
            \/ rec[w].pc = "idle" /\ rec'[w].todo = rec[w].todo
            \/ rec'[w].pc \notin {"idle", "mark"}
        <5> USE <1>0 DEF RecoveryRecords
        <5>1. CASE RecoverStart(w)
          <6>1. PICK r \in Runtimes : rec' = [rec EXCEPT ![w].pc = "mark", ![w].rt = r] /\ rec[w].pc = "idle"
            BY <5>1 DEF RecoverStart
          <6> QED BY <6>1
        <5>2. CASE RecoverMark(w) \/ RecoverLoad(w)
          <6>1. ASSUME NEW todo, NEW rt, rec' = [rec EXCEPT ![w].pc = "next", ![w].rt = rt, ![w].todo = todo]
                PROVE  rec'[w].pc \notin {"idle", "mark"}
            BY <6>1
          <6>2. ASSUME NEW todo, NEW t, NEW cp,
                       rec' = [rec EXCEPT ![w].pc = "loaded", ![w].todo = todo, ![w].task = t, ![w].cp = cp]
                PROVE  rec'[w].pc \notin {"idle", "mark"}
            BY <6>2
          <6>3. CASE RecoverMark(w)
            BY <6>1, <6>3 DEF RecoverMark
          <6>4. CASE RecoverLoad(w)
            <7>1. ASSUME NEW t \in rec[w].todo,
                         rec' = [rec EXCEPT ![w].pc = "loaded", ![w].todo = @ \ {t}, ![w].task = t,
                                            ![w].cp = BuildCumulativeRecoveryCheckpoint(walRows[t])]
                  PROVE  rec'[w].pc \notin {"idle", "mark"}
              BY <6>2, <7>1
            <7> QED BY <6>4, <7>1 DEF RecoverLoad
          <6> QED BY <5>2, <6>3, <6>4
        <5>3. CASE Proceed(w)
          BY <5>3 DEF Proceed
        <5>4. CASE RecoverCheck(w) \/ RecoverCount(w) \/ RecoverDLQ(w)
          BY <5>3, <5>4 DEF RecoverCheck, RecoverCount, RecoverDLQ
        <5>5. CASE RecoverJournal(w) \/ RecoverSelect(w)
          BY <5>3, <5>5 DEF RecoverJournal, RecoverSelect
        <5>6. CASE RecoverFail(w) \/ RecoverResume(w)
          BY <5>3, <5>6 DEF RecoverFail, RecoverResume
        <5>7. CASE RecoverClaim(w)
          BY <5>3, <5>7 DEF RecoverClaim
        <5> QED BY <1>3, <5>1, <5>2, <5>4, <5>5, <5>6, <5>7 DEF Recovery, RecoveryStep
      <4> QED BY <1>0, <2>2, <3>2, <4>1 DEF OwnedInv, IdleRecovery
    <3> QED BY <3>1, <3>2
  <2>3. ASSUME crashes = 0, ~ StoreFaults, NEW t \in Tasks, status'[t] = "recovering"
        PROVE  \E v \in Workers : Keeps(v, t)'
    <3>1. CASE ~ RecoverMark(w)
      <4>1. status[t] = "recovering"
        BY <1>0, <1>3, <2>3, <3>1, RecoveryUsesStore, CallsRecoverNothing
      <4>2. PICK v \in Workers : Keeps(v, t)
        BY <2>3, <4>1 DEF OwnedInv
      <4> QED BY <1>3, <2>3, <3>1, <4>2, PassKeepsTasks
    <3>2. CASE RecoverMark(w)
      <4>1. /\ MarkRecovering(rec[w].rt) /\ rec[w].pc = "mark"
            /\ rec' = [rec EXCEPT ![w].pc = "next", ![w].rt = Nil,
                                  ![w].todo = {u \in Tasks : /\ runtimeID[u] = rec[w].rt
                                                             /\ status[u] \in {"dispatched", "checkpointed"}}]
        BY <2>3, <3>2 DEF RecoverMark
      <4>2. CASE status[t] = "recovering"
        <5>1. PICK v \in Workers : Keeps(v, t)
          BY <2>3, <4>2 DEF OwnedInv
        <5>2. v # w
          BY <4>1, <5>1 DEF Keeps, OwnedInv
        <5> QED BY <1>0, <4>1, <5>1, <5>2 DEF Keeps
      <4>3. CASE status[t] # "recovering"
        <5>1. runtimeID[t] = rec[w].rt /\ status[t] \in {"dispatched", "checkpointed"}
          BY <2>3, <4>1, <4>3 DEF MarkRecovering
        <5>2. t \in rec'[w].todo
          BY <1>0, <4>1, <5>1 DEF RecoveryRecords
        <5> QED BY <5>2 DEF Keeps
      <4> QED BY <4>2, <4>3
    <3> QED BY <3>1, <3>2
  <2> QED BY <2>1, <2>2, <2>3 DEF OwnedInv
<1> QED BY <1>1, <1>2, <1>3 DEF Next

\* With a coordinator that does not crash and a store that answers, a task is never
\* left "recovering" without a recovery pass that still has to deal with it, however
\* many passes run at once and take tasks from each other's runtimes.
THEOREM RecoveringOwned == Spec => []RecoveringIsOwned
<1>1. Init => OwnedInv
  BY DEF Init, StoreInit, OwnedInv, IdleRecovery
<1>2. OwnedInv => RecoveringIsOwned
  BY DEF OwnedInv, Keeps, RecoveringIsOwned
<1> QED BY <1>1, <1>2, ControlInit, ControlStep, OwnedStep, PTL DEF Spec

-----------------------------------------------------------------------------
(* One recovery pass at a time                                             *)
(*                                                                         *)
(* What a pass read when it checked a task is still true when it claims    *)
(* it: only the pass itself makes a task recovering, and whatever would    *)
(* change the decision takes the task out of recovery, so that the claim   *)
(* fails.                                                                  *)

OnePass == \A v, w \in Workers : v = w

\* Between the check of a task and its claim.
Deciding == {"count", "dlq", "journal", "select", "claim"}

\* What a pass knows about the rows of the task at hand.
PassKnows(r) ==
    /\ r.pc \notin {"idle", "mark", "next"} /\ r.cp \in Checkpoints => lastCheckpoint[r.task] # Nil
    /\ r.pc \in Deciding /\ status[r.task] = "recovering" =>
          /\ r.task \notin Streaming
          /\ r.cp \in Checkpoints => lastCheckpoint[r.task].last <= r.cp.last
    /\ r.pc = "resume" => r.task \notin Streaming

FreshInv == (\A w \in Workers : PassKnows(rec[w])) /\ StreamingNeverResumed

\* The merged checkpoint is never behind the one on the row.
LEMMA MergedNotBehind ==
  ASSUME NEW cp \in Checkpoints \cup {Nil, Invalid}, NEW onRow \in Checkpoints \cup {Nil},
         MergeTaskCheckpoint(cp, onRow) \in Checkpoints
  PROVE  /\ cp \in Checkpoints \/ onRow # Nil
         /\ onRow # Nil => onRow.last <= MergeTaskCheckpoint(cp, onRow).last
<1>0. \A c \in Checkpoints : c.last \in Int
  BY StoreConstants DEF Checkpoints, Steps
<1>1. CASE cp # Invalid /\ onRow # Nil /\ TaskCheckpointAdvances(cp, onRow)
  <2> DEFINE rows == {cp, onRow} \ {Nil}
             latest == CHOOSE c \in rows : \A other \in rows : other.last <= c.last
             entries == {e \in UNION {c.entries : c \in rows} : e.step <= latest.last}
  <2>1. rows \subseteq Checkpoints /\ onRow \in rows /\ \A row \in rows : row.last <= onRow.last
    BY <1>0, <1>1 DEF TaskCheckpointAdvances
  <2>2. latest \in rows /\ onRow.last <= latest.last
    BY <2>1
  <2>3. MergeTaskCheckpoint(cp, onRow) = [latest EXCEPT !.entries = entries]
    BY <1>1, <2>1, PolicyConstants DEF MergeTaskCheckpoint, BuildCumulativeRecoveryCheckpoint
  <2>4. latest \in Checkpoints
    BY <2>1, <2>2
  <2> HIDE DEF rows, latest, entries
  <2>5. [latest EXCEPT !.entries = entries].last = latest.last
    BY <2>4 DEF Checkpoints
  <2> QED BY <1>1, <2>2, <2>3, <2>5
<1>2. CASE ~ (cp # Invalid /\ onRow # Nil /\ TaskCheckpointAdvances(cp, onRow))
  <2>1. MergeTaskCheckpoint(cp, onRow) = cp
    BY <1>2 DEF MergeTaskCheckpoint
  <2>2. cp \in Checkpoints /\ cp # Nil /\ cp # Invalid
    BY <2>1, StoreConstants, PolicyConstants
  <2> QED BY <1>0, <1>2, <2>1, <2>2 DEF TaskCheckpointAdvances
<1> QED BY <1>1, <1>2

\* Calls of the store leave a pass with what it knows.
LEMMA CallsKeepKnowledge ==
  ASSUME StoreTypeOK, StoreCall, NEW r, r.pc \notin {"idle", "mark", "next"} => r.task \in Tasks, PassKnows(r)
  PROVE  PassKnows(r)'
<1>1. CASE r.pc \in {"idle", "mark", "next"}
  BY <1>1 DEF PassKnows, Deciding
<1>2. CASE r.task \in Tasks
  BY <1>2, CallsRecoverNothing DEF PassKnows
<1> QED BY <1>1, <1>2

\* A step that only moves the records of passes that know what they need.
LEMMA KnowledgeStep ==
  ASSUME ControlInv, StoreCall, NEW w \in Workers, NEW r, rec'[w] = r,
         r.pc \notin {"idle", "mark", "next"} => r.task \in Tasks, PassKnows(r)
  PROVE  PassKnows(rec[w])'
<1>1. PassKnows(r)'
  BY CallsKeepKnowledge DEF ControlInv, TypeOK
<1> QED BY <1>1 DEF PassKnows

\* An attempt that is not used has no origin, after the step as before.
LEMMA NoOrigin ==
  ASSUME ControlInv' PROVE \A a \in Attempts : att'[a].pc = "none" => att'[a].origin = "none"
<1>1. AttemptOK'
  BY DEF ControlInv, ProcessOK
<1>2. \A a \in Attempts : att'[a].pc = "none" => att'[a] = UnusedAttempt
  BY <1>1 DEF AttemptOK, UnusedAttempt
<1> QED BY <1>2 DEF UnusedAttempt

\* The attempts of a step that sends nothing, or nothing from a recovery.
LEMMA StreamingStep ==
  ASSUME ControlInv, ControlInv', StreamingNeverResumed,
         \/ QuietAttempts
         \/ \E t, r, rid, cp, origin : /\ DispatchAsync(t, r, rid, cp, origin)
                                       /\ origin = "recover" => t \notin Streaming
  PROVE  StreamingNeverResumed'
<1>1. \A a \in Attempts : att'[a].pc = "none" => att'[a].origin = "none"
  BY NoOrigin
<1>2. CASE QuietAttempts
  BY <1>1, <1>2 DEF QuietAttempts, Launched, StreamingNeverResumed
<1>3. ASSUME NEW t, NEW r, NEW rid, NEW cp, NEW origin, DispatchAsync(t, r, rid, cp, origin),
             origin = "recover" => t \notin Streaming
      PROVE  StreamingNeverResumed'
  <2>1. PICK b \in Attempts : TakesAttempt(b, t, origin)
    BY <1>3, OneLaunch
  <2> QED BY <1>3, <2>1 DEF TakesAttempt, StreamingNeverResumed
<1> QED BY <1>2, <1>3

\* What the steps of a pass leave it with.
LEMMA PassLearns ==
  ASSUME ControlInv, DispatchInv, FreshInv, NEW w \in Workers, Recovery(w)
  PROVE  PassKnows(rec[w])'
<1>0. /\ rec \in [Workers -> RecoveryRecords] /\ StoreTypeOK /\ RecoveryOK /\ NewestRowIsWatermark
      /\ PassKnows(rec[w])
  BY DEF ControlInv, TypeOK, ProcessTypeOK, ProcessOK, FreshInv
<1>1. ASSUME rec'[w].pc \in {"idle", "mark", "next"} PROVE PassKnows(rec[w])'
  BY <1>1 DEF PassKnows, Deciding
<1>2. CASE RecoverStart(w)
  <2>1. PICK r \in Runtimes : rec' = [rec EXCEPT ![w].pc = "mark", ![w].rt = r]
    BY <1>2 DEF RecoverStart
  <2> QED BY <1>0, <1>1, <2>1 DEF RecoveryRecords
<1>3. CASE rec' = [rec EXCEPT ![w] = IdleRecovery] \/ Proceed(w)
  <2>1. CASE rec' = [rec EXCEPT ![w] = IdleRecovery]
    BY <1>0, <1>1, <2>1 DEF IdleRecovery
  <2>2. CASE Proceed(w)
    <3>1. rec'[w].pc = "next"
      BY <1>0, <2>2 DEF Proceed, RecoveryRecords
    <3> QED BY <1>1, <3>1
  <2> QED BY <1>3, <2>1, <2>2
<1>4. CASE RecoverMark(w)
  <2>1. ASSUME NEW todo, rec' = [rec EXCEPT ![w].pc = "next", ![w].rt = Nil, ![w].todo = todo]
        PROVE  PassKnows(rec[w])'
    BY <1>0, <1>1, <2>1 DEF RecoveryRecords
  <2> QED BY <1>3, <1>4, <2>1 DEF RecoverMark
<1>5. CASE RecoverLoad(w)
  <2>1. ASSUME NEW t \in rec[w].todo,
               rec' = [rec EXCEPT ![w].pc = "loaded", ![w].todo = @ \ {t}, ![w].task = t,
                                  ![w].cp = BuildCumulativeRecoveryCheckpoint(walRows[t])]
        PROVE  PassKnows(rec[w])'
    <3>1. /\ rec'[w].pc = "loaded" /\ rec'[w].task = t
          /\ rec'[w].cp = BuildCumulativeRecoveryCheckpoint(walRows[t])
      BY <1>0, <2>1 DEF RecoveryRecords
    <3>2. UNCHANGED lastCheckpoint /\ t \in Tasks
      BY <1>0, <1>5 DEF RecoverLoad, storeVars, RecoveryRecords
    <3>3. lastCheckpoint[t] = Nil => BuildCumulativeRecoveryCheckpoint(walRows[t]) = Nil
      BY <1>0, <3>2 DEF NewestRowIsWatermark, BuildCumulativeRecoveryCheckpoint
    <3> QED BY <3>1, <3>2, <3>3, StoreConstants DEF PassKnows, Deciding
  <2> QED BY <1>3, <1>5, <2>1 DEF RecoverLoad
<1>6. CASE RecoverCheck(w)
  <2>0. PICK t \in Tasks : t = rec[w].task
    BY <1>0, <1>6 DEF RecoverCheck, RecoveryOK
  <2>1. ASSUME NEW pc, rec' = [rec EXCEPT ![w].pc = pc, ![w].cp = MergeTaskCheckpoint(@, lastCheckpoint[t])],
               pc \in {"count", "fail"}, pc = "count" => ~ (status[t] = "recovering" /\ t \in Streaming)
        PROVE  PassKnows(rec[w])'
    <3>1. rec'[w].pc = pc /\ rec'[w].task = t /\ rec'[w].cp = MergeTaskCheckpoint(rec[w].cp, lastCheckpoint[t])
      BY <1>0, <2>0, <2>1 DEF RecoveryRecords
    <3>2. UNCHANGED <<lastCheckpoint, status>>
      BY <1>6 DEF RecoverCheck, storeVars
    <3>3. rec[w].cp \in Checkpoints \cup {Nil, Invalid} /\ lastCheckpoint[t] \in Checkpoints \cup {Nil}
      BY <1>0 DEF RecoveryRecords, StoreTypeOK
    <3>4. rec[w].cp \in Checkpoints => lastCheckpoint[t] # Nil
      BY <1>0, <1>6, <2>0 DEF PassKnows, RecoverCheck
    <3>5. rec'[w].cp \in Checkpoints =>
             lastCheckpoint[t] # Nil /\ lastCheckpoint[t].last <= rec'[w].cp.last
      BY <3>1, <3>3, <3>4, MergedNotBehind
    <3> QED BY <2>1, <3>1, <3>2, <3>5 DEF PassKnows, Deciding
  <2> QED BY <1>3, <1>6, <2>0, <2>1 DEF RecoverCheck
<1>7. ASSUME StoreCall, NEW pc, rec' = [rec EXCEPT ![w].pc = pc], rec[w].pc \in Deciding, pc \in Deciding \cup {"fail"}
      PROVE  PassKnows(rec[w])'
  <2>1. PICK r : r = [rec[w] EXCEPT !.pc = pc]
    OBVIOUS
  <2>2. rec'[w] = r /\ r.pc = pc /\ r.task = rec[w].task /\ r.cp = rec[w].cp
    BY <1>0, <1>7, <2>1 DEF RecoveryRecords
  <2>3. PassKnows(r) /\ r.task \in Tasks
    BY <1>0, <1>7, <2>2 DEF PassKnows, Deciding, RecoveryOK
  <2> QED BY <1>7, <2>2, <2>3, KnowledgeStep
<1>8. CASE RecoverCount(w) \/ RecoverDLQ(w) \/ RecoverJournal(w)
  <2>1. StoreCall
    BY <1>8, RecoveryUsesStore DEF RecoverCount, RecoverDLQ, RecoverJournal, RecoverMark
  <2> QED BY <1>3, <1>7, <1>8, <2>1 DEF RecoverCount, RecoverDLQ, RecoverJournal, Deciding
<1>9. CASE RecoverSelect(w)
  <2>1. StoreCall
    BY <1>9 DEF RecoverSelect, StoreCall
  <2>2. ASSUME NEW target, rec' = [rec EXCEPT ![w].pc = "claim", ![w].target = target] PROVE PassKnows(rec[w])'
    <3>1. PICK r : r = [rec[w] EXCEPT !.pc = "claim", !.target = target]
      OBVIOUS
    <3>2. rec'[w] = r /\ r.pc = "claim" /\ r.task = rec[w].task /\ r.cp = rec[w].cp /\ rec[w].pc = "select"
      BY <1>0, <1>9, <2>2, <3>1 DEF RecoveryRecords, RecoverSelect
    <3>3. PassKnows(r) /\ r.task \in Tasks
      BY <1>0, <3>2 DEF PassKnows, Deciding, RecoveryOK
    <3> QED BY <2>1, <3>2, <3>3, KnowledgeStep
  <2> QED BY <1>7, <1>9, <2>1, <2>2 DEF RecoverSelect, Deciding
<1>10. CASE RecoverClaim(w)
  <2>1. ASSUME MarkDispatched(rec[w].task, rec[w].target), rec' = [rec EXCEPT ![w].pc = "resume"]
        PROVE  PassKnows(rec[w])'
    <3>1. rec[w].task \in Tasks /\ rec[w].pc = "claim" /\ status[rec[w].task] # "pending"
      BY <1>0, <1>10 DEF RecoverClaim, RecoveryOK, DispatchInv, ClaimFirst, Unstarted, Unclaimed, Held
    <3>2. status[rec[w].task] = "recovering"
      BY <2>1, <3>1 DEF MarkDispatched, TaskAllowsDispatch
    <3>3. rec'[w].pc = "resume" /\ rec'[w].task = rec[w].task /\ rec'[w].cp = rec[w].cp
      BY <1>0, <2>1 DEF RecoveryRecords
    <3>4. UNCHANGED lastCheckpoint
      BY <2>1 DEF MarkDispatched
    <3> QED BY <1>0, <3>1, <3>2, <3>3, <3>4 DEF PassKnows, Deciding
  <2> QED BY <1>3, <1>10, <2>1 DEF RecoverClaim
<1>11. CASE RecoverFail(w) \/ RecoverResume(w)
  BY <1>3, <1>11 DEF RecoverFail, RecoverResume
<1> QED BY <1>2, <1>4, <1>5, <1>6, <1>8, <1>9, <1>10, <1>11 DEF Recovery, RecoveryStep

LEMMA FreshInit == Init => FreshInv
<1> SUFFICES ASSUME Init PROVE FreshInv
  OBVIOUS
<1>1. \A w \in Workers : rec[w].pc = "idle"
  BY DEF Init, IdleRecovery
<1>2. \A w \in Workers : PassKnows(rec[w])
  BY <1>1 DEF PassKnows, Deciding
<1>3. \A a \in Attempts : att[a].origin = "none"
  BY DEF Init, UnusedAttempt
<1>4. StreamingNeverResumed
  BY <1>3 DEF StreamingNeverResumed
<1> QED BY <1>2, <1>4 DEF FreshInv

\* Every step preserves what the only pass knows.
LEMMA FreshStep == OnePass /\ ControlInv /\ DispatchInv /\ FreshInv /\ [Next]_vars => FreshInv'
<1> SUFFICES ASSUME OnePass, ControlInv, DispatchInv, FreshInv, [Next]_vars PROVE FreshInv'
  OBVIOUS
<1>0. StreamingNeverResumed /\ RecoveryOK /\ SubmitOK /\ ApproveOK /\ \A w \in Workers : PassKnows(rec[w])
  BY DEF FreshInv, ControlInv, ProcessOK
<1>1. ControlInv'
  BY ControlStep
<1>2. ASSUME UNCHANGED rec, StoreCall, StreamingNeverResumed' PROVE FreshInv'
  <2>1. ASSUME NEW w \in Workers PROVE PassKnows(rec[w])'
    <3>1. PICK r : r = rec[w]
      OBVIOUS
    <3>2. rec'[w] = r /\ PassKnows(r) /\ (r.pc \notin {"idle", "mark", "next"} => r.task \in Tasks)
      BY <1>0, <1>2, <3>1 DEF RecoveryOK
    <3> QED BY <1>2, <3>2, KnowledgeStep
  <2> QED BY <1>2, <2>1 DEF FreshInv
<1>3. CASE Client \/ Requests
  <2>1. UNCHANGED rec /\ StoreCall
    BY <1>3, RequestsUseStore DEF Client, SubmitCreate, ApproveSelect, RejectTask, CancelRead, Requests,
       SubmitSelect, SubmitDemo, SubmitClaim, SubmitDispatch, ApproveClaim, ApproveDispatch, CancelApply,
       CallbackApply
  <2>2. CASE UNCHANGED att
    BY <1>0, <1>1, <2>2, QuietFrame, StreamingStep, <1>2, <2>1
  <2>3. CASE \E t \in Tasks : CancelApply(t)
    BY <1>0, <1>1, <2>3, CancelAndCrashAreQuiet, StreamingStep, <1>2, <2>1
  <2>4. ASSUME NEW s \in Submitters, DispatchAsync(sub[s].task, sub[s].rt, sub[s].rt, Nil, "submit") PROVE FreshInv'
    BY <1>0, <1>1, <2>4, StreamingStep, <1>2, <2>1
  <2>5. ASSUME NEW p \in Approvers, DispatchAsync(apr[p].task, apr[p].rt, apr[p].rt, Nil, "approve") PROVE FreshInv'
    BY <1>0, <1>1, <2>5, StreamingStep, <1>2, <2>1
  <2> QED
    BY <1>3, <2>2, <2>3, <2>4, <2>5 DEF Client, SubmitCreate, ApproveSelect, RejectTask, CancelRead, Requests,
       SubmitSelect, SubmitDemo, SubmitClaim, SubmitDispatch, ApproveClaim, ApproveDispatch, CallbackApply
<1>4. CASE Dispatching \/ RuntimeSide
  <2>1. UNCHANGED rec
    BY <1>4 DEF Dispatching, DispatchPrepare, DispatchPost, DispatchNoReply, DispatchReply, DispatchArtifacts,
       DispatchFinish, RuntimeSide, RuntimeStep, RuntimeEnd, CheckpointLost, CallbackRead, Heartbeat
  <2> QED BY <1>0, <1>1, <1>2, <1>4, <2>1, DispatchUsesStore, AttemptStepsAreQuiet, StreamingStep
<1>5. CASE Crash
  <2>1. \A w \in Workers : PassKnows(rec[w])'
    BY <1>5 DEF Crash, IdleRecovery, PassKnows, Deciding
  <2> QED BY <1>0, <1>1, <1>5, <2>1, CancelAndCrashAreQuiet, StreamingStep DEF FreshInv
<1>6. ASSUME NEW w \in Workers, Recovery(w) PROVE FreshInv'
  <2>1. \A u \in Workers : PassKnows(rec[u])'
    BY <1>6, PassLearns DEF OnePass
  <2>2. CASE RecoverResume(w)
    <3>1. rec[w].task \notin Streaming
      BY <1>0, <2>2 DEF RecoverResume, PassKnows
    <3>2. UNCHANGED att \/ DispatchAsync(rec[w].task, rec[w].target, runtimeID[rec[w].task], rec[w].cp, "recover")
      BY <2>2 DEF RecoverResume
    <3> QED BY <1>0, <1>1, <2>1, <3>1, <3>2, QuietFrame, StreamingStep DEF FreshInv
  <2>3. CASE RecoverMark(w)
    <3>1. UNCHANGED att
      BY <2>3 DEF RecoverMark
    <3> QED BY <1>0, <1>1, <2>1, <3>1, QuietFrame, StreamingStep DEF FreshInv
  <2> QED BY <1>0, <1>1, <1>6, <2>1, <2>2, <2>3, RecoveryIsQuiet, StreamingStep DEF Recovery, RecoveryStep, FreshInv
<1>7. CASE UNCHANGED vars
  <2>1. UNCHANGED att /\ UNCHANGED rec /\ StoreCall
    BY <1>7 DEF vars, StoreCall
  <2> QED BY <1>0, <1>1, <1>2, <2>1, QuietFrame, StreamingStep
<1> QED BY <1>3, <1>4, <1>5, <1>6, <1>7 DEF Next

\* As long as one recovery pass runs at a time, no streaming run is handed to another
\* runtime, although the pass checks its class only once.
THEOREM StreamingHolds == OnePass => (Spec => []StreamingNeverResumed)
<1> SUFFICES ASSUME OnePass PROVE Spec => []StreamingNeverResumed
  OBVIOUS
<1>1. Init => FreshInv
  BY FreshInit
<1>2. ControlInv /\ DispatchInv /\ FreshInv /\ [Next]_vars => FreshInv'
  BY FreshStep
<1>3. FreshInv => StreamingNeverResumed
  BY DEF FreshInv
<1> QED BY <1>1, <1>2, <1>3, ControlInit, ControlStep, DispatchInit, DispatchStep, PTL DEF Spec

\* As long as one recovery pass runs at a time, a task is claimed for another runtime
\* only when the decision that none of its irreversible steps was reached still holds
\* of the checkpoint on the row.
THEOREM HandoffHolds == OnePass => (Spec => HandoffDecisionIsCurrent)
<1> SUFFICES ASSUME OnePass PROVE Spec => HandoffDecisionIsCurrent
  OBVIOUS
<1> DEFINE Current ==
             \A w \in Workers :
                rec[w].pc = "claim" /\ rec'[w].pc = "resume" =>
                    \A s \in Irreversible[rec[w].task] : s > lastCheckpoint[rec[w].task].last
<1>1. Init => FreshInv
  BY FreshInit
<1>2. ControlInv /\ DispatchInv /\ FreshInv /\ [Next]_vars => FreshInv'
  BY FreshStep
<1>3. ControlInv /\ DispatchInv /\ FreshInv /\ [Next]_vars => [Current]_vars
  <2> SUFFICES ASSUME ControlInv, DispatchInv, FreshInv, [Next]_vars,
                      NEW w \in Workers, rec[w].pc = "claim", rec'[w].pc = "resume"
               PROVE  \A s \in Irreversible[rec[w].task] : s > lastCheckpoint[rec[w].task].last
    OBVIOUS
  <2>0. /\ rec[w] \in RecoveryRecords /\ rec \in [Workers -> RecoveryRecords] /\ RecoveryOK /\ StoreTypeOK
        /\ PassKnows(rec[w])
    BY DEF ControlInv, TypeOK, ProcessTypeOK, ProcessOK, FreshInv
  <2>1. PICK t \in Tasks : t = rec[w].task
    BY <2>0 DEF RecoveryOK
  <2>2. Recovery(w)
    <3>1. rec' # rec
      OBVIOUS
    <3>2. ~ Crash
      BY DEF Crash, IdleRecovery
    <3>3. ~ (Client \/ Requests \/ Dispatching \/ RuntimeSide)
      BY <3>1 DEF Client, SubmitCreate, ApproveSelect, RejectTask, CancelRead, Requests, SubmitSelect, SubmitDemo,
         SubmitClaim, SubmitDispatch, ApproveClaim, ApproveDispatch, CancelApply, CallbackApply, Dispatching,
         DispatchPrepare, DispatchPost, DispatchNoReply, DispatchReply, DispatchArtifacts, DispatchFinish,
         RuntimeSide, RuntimeStep, RuntimeEnd, CheckpointLost, CallbackRead, Heartbeat
    <3> QED BY <3>1, <3>2, <3>3 DEF Next, vars, OnePass
  <2>3. RecoverClaim(w)
    BY <2>2 DEF Recovery, RecoveryStep, RecoverStart, RecoverMark, RecoverLoad, RecoverCheck, RecoverCount,
       RecoverDLQ, RecoverJournal, RecoverSelect, RecoverFail, RecoverResume
  <2>4. MarkDispatched(t, rec[w].target)
    <3>1. Proceed(w) => rec'[w].pc = "next"
      BY <2>0 DEF Proceed, RecoveryRecords
    <3> QED BY <2>1, <2>3, <3>1 DEF RecoverClaim
  <2>5. status[t] = "recovering"
    BY <2>1, <2>4 DEF MarkDispatched, TaskAllowsDispatch, DispatchInv, ClaimFirst, Unstarted, Unclaimed, Held
  <2>6. /\ rec[w].cp # Invalid /\ rec[w].cp # Nil
        /\ \A s \in Irreversible[t] : s > rec[w].cp.last
    BY <2>0, <2>1, HandoffFacts DEF RecoveryOK
  <2>7. rec[w].cp \in Checkpoints
    BY <2>0, <2>6 DEF RecoveryRecords
  <2>8. lastCheckpoint[t] \in Checkpoints /\ lastCheckpoint[t].last <= rec[w].cp.last
    BY <2>0, <2>1, <2>5, <2>7 DEF PassKnows, Deciding, StoreTypeOK
  <2>9. rec[w].cp.last \in Int /\ lastCheckpoint[t].last \in Int
    <3>1. \A cp \in Checkpoints : cp.last \in Int
      BY StoreConstants DEF Checkpoints, Steps
    <3> QED BY <2>7, <2>8, <3>1
  <2>10. Irreversible[t] \subseteq Int
    BY <2>1, StoreConstants, PolicyConstants DEF Steps
  <2>11. ASSUME NEW s \in Irreversible[t] PROVE s > lastCheckpoint[t].last
    <3>1. s \in Int /\ s > rec[w].cp.last
      BY <2>6, <2>10
    <3> QED BY <2>8, <2>9, <3>1
  <2> QED BY <2>1, <2>11
<1> QED
  BY <1>1, <1>2, <1>3, ControlInit, ControlStep, DispatchInit, DispatchStep, PTL DEF Spec, HandoffDecisionIsCurrent

-----------------------------------------------------------------------------
(* The recovery budget                                                     *)
(*                                                                         *)
(* Every hand-over was counted before: a pass that counted the attempt and *)
(* found it within the budget holds one unit, which its dispatch turns     *)
(* into an attempt.                                                        *)

Resumed(t) == {a \in Attempts : att[a].task = t /\ att[a].origin = "recover"}
Counted(t) == {w \in Workers : rec[w].pc \in {"journal", "select", "claim", "resume"} /\ rec[w].task = t}

WithinBudget(t) ==
    /\ IsFiniteSet(Counted(t))
    /\ Cardinality(Resumed(t)) + Cardinality(Counted(t)) <= attemptCount[t]
    /\ Cardinality(Resumed(t)) + Cardinality(Counted(t)) <= MaxRecoveryAttempts

BudgetInv == ~ StoreFaults => \A t \in Tasks : WithinBudget(t)

\* There are finitely many attempts.
LEMMA ResumedFinite ==
  ASSUME NEW t
  PROVE  /\ IsFiniteSet(Resumed(t)) /\ Cardinality(Resumed(t)) \in Nat
         /\ IsFiniteSet(Resumed(t)') /\ Cardinality(Resumed(t)') \in Nat
<1>1. IsFiniteSet(Attempts)
  BY StoreConstants, FS_Interval DEF Attempts
<1>2. Resumed(t) \in SUBSET Attempts /\ Resumed(t)' \in SUBSET Attempts
  BY DEF Resumed
<1> QED BY <1>1, <1>2, FS_Subset, FS_CardinalityType

\* A step in which nobody counts and nothing is handed over spends nothing.
LEMMA NothingSpent ==
  ASSUME ControlInv, ControlInv', BudgetInv, ~ StoreFaults, NEW t \in Tasks,
         Resumed(t)' \subseteq Resumed(t), Counted(t)' \subseteq Counted(t), attemptCount'[t] >= attemptCount[t]
  PROVE  WithinBudget(t)'
<1>1. attemptCount[t] \in Nat /\ attemptCount'[t] \in Nat /\ MaxRecoveryAttempts \in Nat
  BY CoordinatorConstants DEF ControlInv, TypeOK, StoreTypeOK
<1>2. WithinBudget(t)
  BY DEF BudgetInv
<1>3. /\ IsFiniteSet(Counted(t)') /\ Cardinality(Counted(t)') <= Cardinality(Counted(t))
      /\ Cardinality(Counted(t)') \in Nat /\ Cardinality(Counted(t)) \in Nat
  BY <1>2, FS_Subset, FS_CardinalityType DEF WithinBudget
<1>4. Cardinality(Resumed(t)') <= Cardinality(Resumed(t)) /\ Cardinality(Resumed(t)) \in Nat /\ Cardinality(Resumed(t)') \in Nat
  BY ResumedFinite, FS_Subset
<1>5. Cardinality(Resumed(t))' = Cardinality(Resumed(t)') /\ Cardinality(Counted(t))' = Cardinality(Counted(t)')
      /\ IsFiniteSet(Counted(t))' = IsFiniteSet(Counted(t)')
  OBVIOUS
<1>6. /\ Cardinality(Resumed(t)) + Cardinality(Counted(t)) <= attemptCount[t]
      /\ Cardinality(Resumed(t)) + Cardinality(Counted(t)) <= MaxRecoveryAttempts
  BY <1>2 DEF WithinBudget
<1>7. /\ Cardinality(Resumed(t)') + Cardinality(Counted(t)') <= attemptCount'[t]
      /\ Cardinality(Resumed(t)') + Cardinality(Counted(t)') <= MaxRecoveryAttempts
  BY <1>1, <1>3, <1>4, <1>6
<1> QED BY <1>3, <1>5, <1>7 DEF WithinBudget

\* Quiet attempts are no new hand-overs.
LEMMA QuietResumes ==
  ASSUME ControlInv, ControlInv', QuietAttempts, NEW t PROVE Resumed(t)' \subseteq Resumed(t)
<1>1. \A a \in Attempts : att'[a].pc = "none" => att'[a].origin = "none"
  BY NoOrigin
<1> SUFFICES ASSUME NEW a \in Attempts, att'[a].task = t, att'[a].origin = "recover"
             PROVE  att[a].task = t /\ att[a].origin = "recover"
  BY DEF Resumed
<1>2. Launched(a)'
  BY <1>1 DEF Launched
<1> QED BY <1>2 DEF QuietAttempts

\* The count of a task is only ever raised.
LEMMA CountsGrow ==
  ASSUME StoreTypeOK, StoreCall \/ (\E r : MarkRecovering(r)), NEW t \in Tasks
  PROVE  attemptCount'[t] >= attemptCount[t]
<1>1. attemptCount[t] \in Nat
  BY DEF StoreTypeOK
<1>2. CASE UNCHANGED attemptCount
  BY <1>1, <1>2
<1>3. ASSUME NEW u \in Tasks, CountRecoveryAttempt(u) PROVE attemptCount'[t] >= attemptCount[t]
  BY <1>1, <1>3 DEF CountRecoveryAttempt, StoreTypeOK
<1> QED
  BY <1>2, <1>3
     DEF StoreCall, TaskOperation, CreateTask, MarkDispatched, MarkApprovedDispatched, SaveCheckpoint, MarkCompleted,
         MarkFailed, MarkCanceled, MarkApprovalRequired, MarkApprovalRejected, EnqueueDLQ,
         WriteEffectJournalPending, MarkEffectJournalCommitted, MarkRecovering, storeVars

\* One more element is at most one more.
LEMMA OneMore ==
  ASSUME NEW S, NEW x, IsFiniteSet(S)
  PROVE  /\ IsFiniteSet(S \cup {x}) /\ Cardinality(S \cup {x}) <= Cardinality(S) + 1
         /\ Cardinality(S) \in Nat /\ Cardinality(S \cup {x}) \in Nat
<1>1. Cardinality(S) \in Nat
  BY FS_CardinalityType
<1>2. IsFiniteSet(S \cup {x}) /\ Cardinality(S \cup {x}) \in {Cardinality(S), Cardinality(S) + 1}
  BY FS_AddElement
<1> QED BY <1>1, <1>2

\* A pass that counts within the budget takes one unit of it.
LEMMA UnitTaken ==
  ASSUME ControlInv, ControlInv', BudgetInv, ~ StoreFaults, NEW t \in Tasks, NEW w \in Workers,
         Resumed(t)' \subseteq Resumed(t), Counted(t)' \subseteq Counted(t) \cup {w},
         attemptCount'[t] = attemptCount[t] + 1, attemptCount[t] + 1 <= MaxRecoveryAttempts
  PROVE  WithinBudget(t)'
<1>1. attemptCount[t] \in Nat /\ MaxRecoveryAttempts \in Nat
  BY CoordinatorConstants DEF ControlInv, TypeOK, StoreTypeOK
<1>2. WithinBudget(t)
  BY DEF BudgetInv
<1>3. /\ IsFiniteSet(Counted(t) \cup {w}) /\ Cardinality(Counted(t) \cup {w}) <= Cardinality(Counted(t)) + 1
      /\ Cardinality(Counted(t)) \in Nat /\ Cardinality(Counted(t) \cup {w}) \in Nat
  BY <1>2, OneMore DEF WithinBudget
<1>4. /\ IsFiniteSet(Counted(t)') /\ Cardinality(Counted(t)') <= Cardinality(Counted(t) \cup {w})
      /\ Cardinality(Counted(t)') \in Nat
  BY <1>3, FS_Subset, FS_CardinalityType
<1>5. Cardinality(Resumed(t)') <= Cardinality(Resumed(t)) /\ Cardinality(Resumed(t)) \in Nat /\ Cardinality(Resumed(t)') \in Nat
  BY ResumedFinite, FS_Subset
<1>6. /\ Cardinality(Resumed(t)) + Cardinality(Counted(t)) <= attemptCount[t]
      /\ Cardinality(Resumed(t)) + Cardinality(Counted(t)) <= MaxRecoveryAttempts
  BY <1>2 DEF WithinBudget
<1>7. /\ Cardinality(Resumed(t)') + Cardinality(Counted(t)') <= attemptCount'[t]
      /\ Cardinality(Resumed(t)') + Cardinality(Counted(t)') <= MaxRecoveryAttempts
  <2>1. PICK r, s, c, d, u, n : /\ r = Cardinality(Resumed(t)) /\ s = Cardinality(Resumed(t)')
                                /\ c = Cardinality(Counted(t)) /\ d = Cardinality(Counted(t)')
                                /\ u = Cardinality(Counted(t) \cup {w}) /\ n = attemptCount[t]
    OBVIOUS
  <2>2. /\ r \in Nat /\ s \in Nat /\ c \in Nat /\ d \in Nat /\ u \in Nat /\ n \in Nat
        /\ s <= r /\ d <= u /\ u <= c + 1 /\ r + c <= n
    BY <1>1, <1>3, <1>4, <1>5, <1>6, <2>1, Zenon
  <2>3. s + d <= n + 1
    BY <2>2
  <2>4. s + d <= MaxRecoveryAttempts
    <3>1. n + 1 <= MaxRecoveryAttempts
      BY <2>1
    <3> QED BY <1>1, <2>2, <2>3, <3>1
  <2> QED BY <2>1, <2>3, <2>4
<1> QED BY <1>4, <1>7 DEF WithinBudget

\* Its dispatch turns the unit into an attempt.
LEMMA UnitUsed ==
  ASSUME ControlInv, ControlInv', BudgetInv, ~ StoreFaults, NEW t \in Tasks, NEW w \in Counted(t), NEW b,
         Resumed(t)' \subseteq Resumed(t) \cup {b}, Counted(t)' \subseteq Counted(t) \ {w}, UNCHANGED attemptCount
  PROVE  WithinBudget(t)'
<1>1. attemptCount[t] \in Nat /\ MaxRecoveryAttempts \in Nat
  BY CoordinatorConstants DEF ControlInv, TypeOK, StoreTypeOK
<1>2. WithinBudget(t)
  BY DEF BudgetInv
<1>3. /\ IsFiniteSet(Counted(t) \ {w}) /\ Cardinality(Counted(t) \ {w}) = Cardinality(Counted(t)) - 1
      /\ Cardinality(Counted(t)) \in Nat
  BY <1>2, FS_RemoveElement, FS_CardinalityType DEF WithinBudget
<1>4. /\ IsFiniteSet(Counted(t)') /\ Cardinality(Counted(t)') <= Cardinality(Counted(t) \ {w})
      /\ Cardinality(Counted(t)') \in Nat
  BY <1>3, FS_Subset, FS_CardinalityType
<1>5. /\ IsFiniteSet(Resumed(t) \cup {b}) /\ Cardinality(Resumed(t) \cup {b}) <= Cardinality(Resumed(t)) + 1
      /\ Cardinality(Resumed(t) \cup {b}) \in Nat
  BY ResumedFinite, OneMore
<1>6. /\ Cardinality(Resumed(t)') <= Cardinality(Resumed(t) \cup {b})
      /\ Cardinality(Resumed(t)) \in Nat /\ Cardinality(Resumed(t)') \in Nat
  BY <1>5, ResumedFinite, FS_Subset
<1>7. /\ Cardinality(Resumed(t)) + Cardinality(Counted(t)) <= attemptCount[t]
      /\ Cardinality(Resumed(t)) + Cardinality(Counted(t)) <= MaxRecoveryAttempts
  BY <1>2 DEF WithinBudget
<1>8. /\ Cardinality(Resumed(t)') + Cardinality(Counted(t)') <= attemptCount'[t]
      /\ Cardinality(Resumed(t)') + Cardinality(Counted(t)') <= MaxRecoveryAttempts
  BY <1>1, <1>3, <1>4, <1>5, <1>6, <1>7
<1> QED BY <1>4, <1>8 DEF WithinBudget

\* What the steps of a pass do to the units.
LEMMA PassSpends ==
  ASSUME ControlInv, ControlInv', DispatchInv, BudgetInv, ~ StoreFaults, NEW w \in Workers, Recovery(w),
         NEW t \in Tasks
  PROVE  WithinBudget(t)'
<1>0. rec \in [Workers -> RecoveryRecords] /\ StoreTypeOK /\ RecoveryOK
  BY DEF ControlInv, TypeOK, ProcessTypeOK, ProcessOK
<1>1. attemptCount'[t] >= attemptCount[t]
  BY <1>0, RecoveryUsesStore, CountsGrow
<1>2. \A u \in Workers : u # w => rec'[u] = rec[u]
  BY <1>0 DEF Recovery, RecoveryStep, RecoverStart, RecoverMark, RecoverLoad, RecoverCheck, RecoverCount,
     RecoverDLQ, RecoverJournal, RecoverSelect, RecoverFail, RecoverClaim, RecoverResume, Proceed
<1>3. Counted(t)' \subseteq Counted(t) \cup {w}
  BY <1>2 DEF Counted
<1>4. ASSUME rec'[w].pc \notin {"journal", "select", "claim", "resume"} \/ (w \in Counted(t) <=> w \in Counted(t)')
      PROVE  Counted(t)' \subseteq Counted(t)
  BY <1>2, <1>4 DEF Counted
<1>5. CASE RecoverCount(w)
  <2>1. CountRecoveryAttempt(rec[w].task) /\ rec[w].task \in Tasks /\ UNCHANGED att
    BY <1>0, <1>5 DEF RecoverCount, RecoveryOK
  <2>2. Resumed(t)' \subseteq Resumed(t)
    BY <2>1 DEF Resumed
  <2>3. CASE rec[w].task = t /\ attemptCount[t] + 1 <= MaxRecoveryAttempts
    <3>1. attemptCount'[t] = attemptCount[t] + 1
      BY <1>0, <2>1, <2>3 DEF CountRecoveryAttempt, StoreTypeOK
    <3> QED BY <1>3, <2>2, <2>3, <3>1, UnitTaken
  <2>4. CASE rec[w].task # t
    <3>1. rec'[w].task = rec[w].task
      BY <1>0, <1>5 DEF RecoverCount, RecoveryRecords
    <3>2. Counted(t)' \subseteq Counted(t)
      BY <1>2, <2>4, <3>1 DEF Counted
    <3> QED BY <1>1, <2>2, <3>2, NothingSpent
  <2>5. CASE rec[w].task = t /\ ~ (attemptCount[t] + 1 <= MaxRecoveryAttempts)
    <3>1. attemptCount[t] + 1 > MaxRecoveryAttempts
      BY <1>0, <2>5, CoordinatorConstants DEF StoreTypeOK
    <3>2. rec'[w].pc = "dlq"
      BY <1>0, <1>5, <2>5, <3>1 DEF RecoverCount, RecoveryRecords
    <3> QED BY <1>1, <1>4, <2>2, <3>2, NothingSpent
  <2> QED BY <2>3, <2>4, <2>5
<1>6. CASE RecoverResume(w)
  <2>1. rec[w].pc = "resume" /\ rec[w].task \in Tasks /\ rec'[w].pc = "next"
    BY <1>0, <1>6 DEF RecoverResume, RecoveryOK, Proceed, RecoveryRecords
  <2>2. Counted(t)' \subseteq Counted(t) \ {w}
    BY <1>2, <2>1 DEF Counted
  <2>3. CASE UNCHANGED att
    <3>1. Resumed(t)' \subseteq Resumed(t)
      BY <2>3 DEF Resumed
    <3> QED BY <1>1, <2>2, <3>1, NothingSpent
  <2>4. ASSUME DispatchAsync(rec[w].task, rec[w].target, runtimeID[rec[w].task], rec[w].cp, "recover"),
               UNCHANGED storeVars
        PROVE  WithinBudget(t)'
    <3>0. PICK b \in Attempts : TakesAttempt(b, rec[w].task, "recover")
      BY <2>4, OneLaunch
    <3>1. att'[b].task = rec[w].task /\ \A a \in Attempts : a # b => att'[a] = att[a]
      BY <3>0 DEF TakesAttempt
    <3>2. CASE rec[w].task = t
      <4>1. w \in Counted(t)
        BY <2>1, <3>2 DEF Counted
      <4>2. Resumed(t)' \subseteq Resumed(t) \cup {b}
        BY <3>1 DEF Resumed
      <4>3. UNCHANGED attemptCount
        BY <2>4 DEF storeVars
      <4> QED BY <2>2, <4>1, <4>2, <4>3, UnitUsed
    <3>3. CASE rec[w].task # t
      <4>1. Resumed(t)' \subseteq Resumed(t)
        BY <3>1, <3>3 DEF Resumed
      <4> QED BY <1>1, <2>2, <4>1, NothingSpent
    <3> QED BY <3>2, <3>3
  <2> QED BY <1>6, <2>3, <2>4 DEF RecoverResume
<1>7. CASE ~ RecoverCount(w) /\ ~ RecoverResume(w)
  <2>1. Resumed(t)' \subseteq Resumed(t)
    <3>1. CASE RecoverMark(w)
      BY <3>1 DEF RecoverMark, Resumed
    <3> QED BY <1>7, <3>1, RecoveryIsQuiet, QuietResumes DEF Recovery, RecoveryStep
  <2>2. Counted(t)' \subseteq Counted(t)
    <3> USE <1>0 DEF RecoveryRecords
    <3>1. ASSUME rec'[w].pc \in {"idle", "mark", "next", "loaded", "count", "fail"} PROVE Counted(t)' \subseteq Counted(t)
      BY <1>4, <3>1
    <3>2. CASE rec' = [rec EXCEPT ![w] = IdleRecovery]
      BY <3>1, <3>2 DEF IdleRecovery
    <3>3. CASE Proceed(w)
      <4>1. rec'[w].pc = "next"
        BY <3>3 DEF Proceed
      <4> QED BY <3>1, <4>1
    <3>4. CASE RecoverStart(w)
      <4>1. PICK r \in Runtimes : rec' = [rec EXCEPT ![w].pc = "mark", ![w].rt = r]
        BY <3>4 DEF RecoverStart
      <4> QED BY <3>1, <4>1
    <3>5. CASE RecoverMark(w)
      <4>1. ASSUME NEW todo, rec' = [rec EXCEPT ![w].pc = "next", ![w].rt = Nil, ![w].todo = todo]
            PROVE  Counted(t)' \subseteq Counted(t)
        BY <3>1, <4>1
      <4> QED BY <3>2, <3>5, <4>1 DEF RecoverMark
    <3>6. CASE RecoverLoad(w)
      <4>1. ASSUME NEW v \in rec[w].todo,
                   rec' = [rec EXCEPT ![w].pc = "loaded", ![w].todo = @ \ {v}, ![w].task = v,
                                      ![w].cp = BuildCumulativeRecoveryCheckpoint(walRows[v])]
            PROVE  Counted(t)' \subseteq Counted(t)
        BY <3>1, <4>1
      <4> QED BY <3>2, <3>6, <4>1 DEF RecoverLoad
    <3>7. CASE RecoverCheck(w)
      <4>1. ASSUME NEW pc \in {"count", "fail"}, NEW cp, rec' = [rec EXCEPT ![w].pc = pc, ![w].cp = cp]
            PROVE  Counted(t)' \subseteq Counted(t)
        BY <3>1, <4>1
      <4> QED BY <3>3, <3>7, <4>1 DEF RecoverCheck
    <3>8. CASE RecoverDLQ(w) \/ RecoverFail(w)
      BY <3>1, <3>3, <3>8 DEF RecoverDLQ, RecoverFail
    <3>9. CASE RecoverJournal(w) \/ RecoverSelect(w)
      <4>0. rec[w].pc \in {"journal", "select"}
        BY <3>9 DEF RecoverJournal, RecoverSelect
      <4>1. ASSUME rec'[w].task = rec[w].task PROVE Counted(t)' \subseteq Counted(t)
        BY <1>2, <4>0, <4>1 DEF Counted
      <4>2. ASSUME NEW pc, rec' = [rec EXCEPT ![w].pc = pc] PROVE Counted(t)' \subseteq Counted(t)
        BY <4>1, <4>2
      <4>3. ASSUME NEW target, rec' = [rec EXCEPT ![w].pc = "claim", ![w].target = target]
            PROVE  Counted(t)' \subseteq Counted(t)
        BY <4>1, <4>3
      <4>4. CASE RecoverJournal(w)
        BY <3>3, <4>2, <4>4 DEF RecoverJournal
      <4>5. CASE RecoverSelect(w)
        BY <4>2, <4>3, <4>5 DEF RecoverSelect
      <4> QED BY <3>9, <4>4, <4>5
    <3>10. CASE RecoverClaim(w)
      <4>1. ASSUME rec' = [rec EXCEPT ![w].pc = "resume"], rec[w].pc = "claim" PROVE Counted(t)' \subseteq Counted(t)
        <5>1. rec'[w].task = rec[w].task
          BY <4>1
        <5> QED BY <1>2, <4>1, <5>1 DEF Counted
      <4> QED BY <3>3, <3>10, <4>1 DEF RecoverClaim
    <3> QED BY <1>7, <3>4, <3>5, <3>6, <3>7, <3>8, <3>9, <3>10 DEF Recovery, RecoveryStep
  <2> QED BY <1>1, <2>1, <2>2, NothingSpent
<1> QED BY <1>5, <1>6, <1>7

\* Every step stays within the budget.
LEMMA BudgetStep == ControlInv /\ DispatchInv /\ BudgetInv /\ [Next]_vars => BudgetInv'
<1> SUFFICES ASSUME ControlInv, DispatchInv, BudgetInv, [Next]_vars, ~ StoreFaults, NEW t \in Tasks
             PROVE  WithinBudget(t)'
  BY DEF BudgetInv
<1>0. ControlInv' /\ StoreTypeOK
  BY ControlStep DEF ControlInv, TypeOK
<1>1. ASSUME StoreCall, Counted(t)' \subseteq Counted(t), Resumed(t)' \subseteq Resumed(t) PROVE WithinBudget(t)'
  BY <1>0, <1>1, CountsGrow, NothingSpent
<1>2. ASSUME UNCHANGED rec PROVE Counted(t)' \subseteq Counted(t)
  BY <1>2 DEF Counted
<1>3. ASSUME UNCHANGED att PROVE Resumed(t)' \subseteq Resumed(t)
  BY <1>3 DEF Resumed
<1>4. CASE Client \/ Requests
  <2>1. UNCHANGED rec /\ StoreCall
    BY <1>4, RequestsUseStore DEF Client, SubmitCreate, ApproveSelect, RejectTask, CancelRead, Requests,
       SubmitSelect, SubmitDemo, SubmitClaim, SubmitDispatch, ApproveClaim, ApproveDispatch, CancelApply,
       CallbackApply
  <2>2. ASSUME NEW u, NEW r, NEW rid, NEW cp, NEW origin \in {"submit", "approve"}, DispatchAsync(u, r, rid, cp, origin)
        PROVE  Resumed(t)' \subseteq Resumed(t)
    <3>1. PICK b \in Attempts : TakesAttempt(b, u, origin)
      BY <2>2, OneLaunch
    <3> QED BY <2>2, <3>1 DEF TakesAttempt, Resumed
  <2>3. CASE \E v \in Tasks : CancelApply(v)
    BY <1>0, <1>1, <1>2, <2>1, <2>3, CancelAndCrashAreQuiet, QuietResumes
  <2>4. CASE UNCHANGED att
    BY <1>1, <1>2, <1>3, <2>1, <2>4
  <2>5. ASSUME NEW s \in Submitters, DispatchAsync(sub[s].task, sub[s].rt, sub[s].rt, Nil, "submit")
        PROVE  WithinBudget(t)'
    BY <1>1, <1>2, <2>1, <2>2, <2>5
  <2>6. ASSUME NEW p \in Approvers, DispatchAsync(apr[p].task, apr[p].rt, apr[p].rt, Nil, "approve")
        PROVE  WithinBudget(t)'
    BY <1>1, <1>2, <2>1, <2>2, <2>6
  <2> QED
    BY <1>4, <2>3, <2>4, <2>5, <2>6 DEF Client, SubmitCreate, ApproveSelect, RejectTask, CancelRead, Requests,
       SubmitSelect, SubmitDemo, SubmitClaim, SubmitDispatch, ApproveClaim, ApproveDispatch, CallbackApply
<1>5. CASE Dispatching \/ RuntimeSide
  <2>1. UNCHANGED rec
    BY <1>5 DEF Dispatching, DispatchPrepare, DispatchPost, DispatchNoReply, DispatchReply, DispatchArtifacts,
       DispatchFinish, RuntimeSide, RuntimeStep, RuntimeEnd, CheckpointLost, CallbackRead, Heartbeat
  <2> QED BY <1>0, <1>1, <1>2, <1>5, <2>1, DispatchUsesStore, AttemptStepsAreQuiet, QuietResumes
<1>6. CASE Crash
  <2>1. Counted(t)' \subseteq Counted(t)
    BY <1>6 DEF Crash, Counted, IdleRecovery
  <2> QED BY <1>0, <1>1, <1>6, <2>1, DispatchUsesStore, CancelAndCrashAreQuiet, QuietResumes
<1>7. ASSUME NEW w \in Workers, Recovery(w) PROVE WithinBudget(t)'
  BY <1>0, <1>7, PassSpends
<1>8. CASE UNCHANGED vars
  <2>1. UNCHANGED att /\ UNCHANGED rec /\ StoreCall
    BY <1>8 DEF vars, StoreCall
  <2> QED BY <1>1, <1>2, <1>3, <2>1
<1> QED BY <1>4, <1>5, <1>6, <1>7, <1>8 DEF Next

\* With a store that answers, a run is handed to another runtime at most
\* MaxRecoveryAttempts times, however many recovery passes count and send at once and
\* whatever crashes between the count and the dispatch.
THEOREM BudgetHolds == Spec => []RecoveryBudget
<1>1. Init => BudgetInv
  <2> SUFFICES ASSUME Init, NEW t \in Tasks PROVE WithinBudget(t)
    BY DEF BudgetInv
  <2>1. Resumed(t) = {} /\ Counted(t) = {}
    BY DEF Init, UnusedAttempt, IdleRecovery, Resumed, Counted
  <2>2. attemptCount[t] = 0
    BY DEF Init, StoreInit
  <2> QED BY <2>1, <2>2, FS_EmptySet, CoordinatorConstants DEF WithinBudget
<1>2. BudgetInv => RecoveryBudget
  <2> SUFFICES ASSUME BudgetInv, ~ StoreFaults, NEW t \in Tasks
               PROVE  Cardinality(Resumed(t)) <= MaxRecoveryAttempts
    BY DEF RecoveryBudget, Resumed
  <2>1. Cardinality(Counted(t)) \in Nat /\ Cardinality(Resumed(t)) \in Nat
    BY ResumedFinite, FS_CardinalityType DEF BudgetInv, WithinBudget
  <2> QED BY <2>1, CoordinatorConstants DEF BudgetInv, WithinBudget
<1> QED BY <1>1, <1>2, ControlInit, ControlStep, DispatchInit, DispatchStep, BudgetStep, PTL DEF Spec
=============================================================================
