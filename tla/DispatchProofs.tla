---------------------------- MODULE DispatchProofs ----------------------------
(***************************************************************************)
(* A run reaches a runtime at most once other than by a recovery, a gated  *)
(* run only through its approval, and a rejected run never: for every      *)
(* number of concurrent requests, approvals, recoveries and crashes.       *)
(*                                                                         *)
(* The argument follows the right to dispatch a task.  The request that    *)
(* inserted the row has it first, undecided; a claim of the row (UPDATE    *)
(* ... WHERE status) passes it on to the claimant, who gives it up with    *)
(* the dispatch.  Recovery only takes tasks that were claimed before.      *)
(*                                                                         *)
(* With it the coordinator implements RunLifecycle.                        *)
(***************************************************************************)
EXTENDS CoordinatorProofs

\* Who has to do with a task.
Undecided(s, t) == sub[s].pc \in {"created", "chosen"} /\ sub[s].task = t
SubmitClaimed(s, t) == sub[s].pc = "claimed" /\ sub[s].task = t
ApproveClaimed(p, t) == apr[p].pc = "claimed" /\ apr[p].task = t
Held(w, t) == t \in rec[w].todo \/ (rec[w].pc \notin {"idle", "mark", "next"} /\ rec[w].task = t)
AttemptAt(a, t) == Launched(a) /\ att[a].task = t

Rejected(t) == failureReason[t] = "rejected"
Unstarted(t) == status[t] \in {"absent", "pending", "approval_required"}

Unclaimed(t) ==
    /\ \A a \in Attempts : ~ AttemptAt(a, t)
    /\ \A s \in Submitters : ~ SubmitClaimed(s, t)
    /\ \A p \in Approvers : ~ ApproveClaimed(p, t)
    /\ \A w \in Workers : ~ Held(w, t)

\* Before the row is claimed, and for ever once it is rejected, nobody sends it.
ClaimFirst ==
    \A t \in Tasks :
        Unstarted(t) \/ Rejected(t) \/ (\E s \in Submitters : Undecided(s, t)) => Unclaimed(t)

\* Only a cancellation comes between the insert and the claim.
UndecidedRow ==
    \A t \in Tasks, s \in Submitters : Undecided(s, t) => status[t] \in {"pending", "canceled"}

RejectedRow == \A t \in Tasks : Rejected(t) => status[t] = "failed"

\* The right to dispatch is with one process, which has not used it.
OneRight ==
    \A t \in Tasks :
        /\ \A s, u \in Submitters :
              (Undecided(s, t) \/ SubmitClaimed(s, t)) /\ (Undecided(u, t) \/ SubmitClaimed(u, t)) => s = u
        /\ \A p, q \in Approvers : ApproveClaimed(p, t) /\ ApproveClaimed(q, t) => p = q
        /\ \A s \in Submitters, p \in Approvers : ~ (SubmitClaimed(s, t) /\ ApproveClaimed(p, t))
        /\ (\E s \in Submitters : SubmitClaimed(s, t)) \/ (\E p \in Approvers : ApproveClaimed(p, t)) =>
              \A a \in Attempts : AttemptAt(a, t) => att[a].origin = "recover"

ClaimNotGated == \A s \in Submitters : sub[s].pc = "claimed" => sub[s].task \notin HumanGated

DispatchInv ==
    /\ ClaimFirst /\ UndecidedRow /\ RejectedRow /\ OneRight /\ ClaimNotGated
    /\ InitialDispatchOnce /\ GateBeforeDispatch

-----------------------------------------------------------------------------
(* Steps that give nobody a right                                          *)

QuietRows ==
    \A t \in Tasks :
        /\ Unstarted(t)' => status'[t] = status[t]
        /\ status[t] = "pending" => status'[t] \in {"pending", "canceled"}
        /\ status[t] \in Terminal => status'[t] = status[t]
        /\ Rejected(t)' => Rejected(t)

QuietSubmitters ==
    \A s \in Submitters, t \in Tasks :
        (Undecided(s, t)' => Undecided(s, t)) /\ (SubmitClaimed(s, t)' => SubmitClaimed(s, t))
QuietApprovers == \A p \in Approvers, t \in Tasks : ApproveClaimed(p, t)' => ApproveClaimed(p, t)
QuietRecovery == \A w \in Workers, t \in Tasks : Held(w, t)' => Held(w, t)
QuietAttempts ==
    \A a \in Attempts : Launched(a)' =>
        Launched(a) /\ att'[a].task = att[a].task /\ att'[a].origin = att[a].origin

\* When nobody gains anything the invariant stays.
LEMMA QuietStep ==
  ASSUME ControlInv, ControlInv', DispatchInv,
         QuietRows, QuietSubmitters, QuietApprovers, QuietRecovery, QuietAttempts
  PROVE  DispatchInv'
<1>0. \A a \in Attempts, t \in Tasks : AttemptAt(a, t)' => AttemptAt(a, t)
  BY DEF QuietAttempts, AttemptAt
<1>1. \A t \in Tasks : Unclaimed(t) => Unclaimed(t)'
  BY <1>0 DEF QuietSubmitters, QuietApprovers, QuietRecovery, Unclaimed
<1>2. ClaimFirst'
  <2> SUFFICES ASSUME NEW t \in Tasks,
                      Unstarted(t)' \/ Rejected(t)' \/ (\E s \in Submitters : Undecided(s, t)')
               PROVE  Unclaimed(t)'
    BY DEF ClaimFirst
  <2>1. Unstarted(t)' => Unstarted(t)
    BY DEF QuietRows, Unstarted
  <2>2. Rejected(t)' => Rejected(t)
    BY DEF QuietRows
  <2> QED BY <1>1, <2>1, <2>2 DEF QuietSubmitters, DispatchInv, ClaimFirst
<1>3. UndecidedRow'
  BY DEF QuietSubmitters, QuietRows, DispatchInv, UndecidedRow, Terminal
<1>4. RejectedRow'
  BY DEF QuietRows, DispatchInv, RejectedRow, Terminal
<1>5. OneRight'
  BY <1>0 DEF QuietSubmitters, QuietApprovers, QuietAttempts, AttemptAt, DispatchInv, OneRight
<1>6. ClaimNotGated'
  BY DEF QuietSubmitters, DispatchInv, ClaimNotGated, SubmitClaimed, ControlInv, ProcessOK, SubmitOK
<1>7. InitialDispatchOnce'
  BY DEF QuietAttempts, DispatchInv, InitialDispatchOnce
<1>8. GateBeforeDispatch'
  BY DEF QuietAttempts, DispatchInv, GateBeforeDispatch
<1> QED BY <1>2, <1>3, <1>4, <1>5, <1>6, <1>7, <1>8 DEF DispatchInv

\* A process that does not move gains nothing.
LEMMA QuietFrame ==
  /\ UNCHANGED storeVars => QuietRows
  /\ UNCHANGED sub => QuietSubmitters
  /\ UNCHANGED apr => QuietApprovers
  /\ UNCHANGED rec => QuietRecovery
  /\ UNCHANGED att => QuietAttempts
  BY DEF QuietRows, QuietSubmitters, QuietApprovers, QuietRecovery, QuietAttempts, storeVars, Unstarted,
         Rejected, Undecided, SubmitClaimed, ApproveClaimed, Held, Launched

\* The calls of the store that claim nothing.
LEMMA QuietCalls ==
  ASSUME StoreTypeOK, NEW t \in Tasks,
         \/ MarkFailedOrRejected(t) \/ MarkCompletedOrRejected(t) \/ MarkCanceled(t)
         \/ \E cp \in Checkpoints : SaveCheckpointOrRejected(t, cp)
         \/ CountRecoveryAttempt(t) \/ EnqueueDLQ(t)
         \/ WriteEffectJournalPending(t) \/ MarkEffectJournalCommitted(t)
  PROVE  QuietRows
<1>1. CASE UNCHANGED storeVars
  BY <1>1, QuietFrame
<1>2. CASE UNCHANGED rowVars
  BY <1>2 DEF rowVars, QuietRows, Unstarted, Rejected
<1>3. ASSUME NEW st \in Statuses, status' = [status EXCEPT ![t] = st],
             st \in {"canceled", "completed", "failed", "checkpointed"},
             TaskAllowsRuntimeMutation(status[t]) \/ (st = "canceled" /\ TaskAllowsCancellation(status[t])),
             UNCHANGED failureReason \/ failureReason' = [failureReason EXCEPT ![t] = "failed"]
      PROVE  QuietRows
  BY <1>3 DEF StoreTypeOK, QuietRows, Unstarted, Rejected, Terminal, TaskAllowsRuntimeMutation,
              TaskAllowsCancellation
<1>4. CASE MarkFailedOrRejected(t)
  BY <1>1, <1>3, <1>4 DEF MarkFailedOrRejected, MarkFailed, Statuses
<1>5. CASE MarkCompletedOrRejected(t)
  BY <1>1, <1>3, <1>5 DEF MarkCompletedOrRejected, MarkCompleted, Statuses
<1>6. CASE MarkCanceled(t)
  BY <1>3, <1>6 DEF MarkCanceled, Statuses
<1>7. ASSUME NEW cp \in Checkpoints, SaveCheckpointOrRejected(t, cp) PROVE QuietRows
  BY <1>1, <1>3, <1>7 DEF SaveCheckpointOrRejected, SaveCheckpoint, CheckpointAccepted, Statuses
<1>8. CASE CountRecoveryAttempt(t) \/ EnqueueDLQ(t) \/ WriteEffectJournalPending(t) \/ MarkEffectJournalCommitted(t)
  BY <1>2, <1>8 DEF CountRecoveryAttempt, EnqueueDLQ, WriteEffectJournalPending, MarkEffectJournalCommitted
<1> QED BY <1>4, <1>5, <1>6, <1>7, <1>8

\* The goroutine that talks to the runtime, the runtime, callbacks and heartbeats.
LEMMA AttemptStepsAreQuiet ==
  ASSUME ControlInv, Dispatching \/ RuntimeSide \/ (\E h \in Handlers : CallbackApply(h))
  PROVE  QuietRows /\ QuietSubmitters /\ QuietApprovers /\ QuietRecovery /\ QuietAttempts
<1>0. StoreTypeOK /\ ProcessTypeOK /\ ProcessOK
  BY DEF ControlInv, TypeOK
<1>1. UNCHANGED <<sub, apr, rec>>
  BY DEF Dispatching, DispatchPrepare, DispatchPost, DispatchNoReply, DispatchReply, DispatchArtifacts,
         DispatchFinish, RuntimeSide, RuntimeStep, RuntimeEnd, CheckpointLost, CallbackRead, Heartbeat,
         CallbackApply
<1>2. QuietRows
  <2>1. ASSUME NEW a \in Attempts,
               \/ DispatchPrepare(a) \/ DispatchPost(a) \/ DispatchNoReply(a)
               \/ DispatchReply(a) \/ DispatchArtifacts(a) \/ DispatchFinish(a)
        PROVE  QuietRows
    <3>1. att[a].task \in Tasks /\ CheckpointsOf(a) \subseteq Checkpoints
      BY <1>0, <2>1, PushedCheckpointType
         DEF ProcessOK, AttemptOK, DispatchPrepare, DispatchPost, DispatchNoReply, DispatchReply,
             DispatchArtifacts, DispatchFinish
    <3> QED
      BY <1>0, <2>1, <3>1, QuietCalls, QuietFrame
         DEF DispatchPrepare, DispatchPost, DispatchNoReply, DispatchReply, DispatchArtifacts, DispatchFinish
  <2>2. ASSUME NEW h \in Handlers, CallbackApply(h) PROVE QuietRows
    BY <1>0, <2>2, QuietCalls DEF CallbackApply, ProcessOK, CallbackOK
  <2>3. CASE RuntimeSide
    BY <2>3, QuietFrame DEF RuntimeSide, RuntimeStep, RuntimeEnd, CheckpointLost, CallbackRead, Heartbeat
  <2> QED BY <2>1, <2>2, <2>3 DEF Dispatching
<1>3. QuietAttempts
  <2>1. ASSUME NEW a \in Attempts,
               \/ \E pc \in {"post", "unreachable", "result", "finish", "done"} : att' = [att EXCEPT ![a].pc = pc]
               \/ att' = [att EXCEPT ![a].pc = "sent", ![a].exec = "running"]
               \/ \E end \in RuntimeEnds : att' = [att EXCEPT ![a].exec = end]
               \/ \E n \in Int : att' = [att EXCEPT ![a].pos = n] \/ att' = [att EXCEPT ![a].sent = n],
               att[a].pc # "none"
        PROVE  QuietAttempts
    BY <1>0, <2>1 DEF QuietAttempts, Launched, ProcessTypeOK, AttemptRecords
  <2>2. CASE Dispatching
    BY <2>1, <2>2 DEF Dispatching, DispatchPrepare, DispatchPost, DispatchNoReply, DispatchReply,
                      DispatchArtifacts, DispatchFinish
  <2>3. CASE RuntimeSide
    <3>1. ASSUME NEW a \in Attempts, att[a].exec # "none"
          PROVE  att[a].pc # "none" /\ att[a].pos + 1 \in Int /\ att[a].pos - 1 \in Int
      BY <1>0, <3>1, RunningIsLaunched DEF ProcessOK, ProcessTypeOK, AttemptRecords
    <3> QED
      BY <2>1, <2>3, <3>1, QuietFrame
         DEF RuntimeSide, RuntimeStep, RuntimeEnd, CheckpointLost, CallbackRead, Heartbeat
  <2>4. CASE \E h \in Handlers : CallbackApply(h)
    BY <2>4, QuietFrame DEF CallbackApply
  <2> QED BY <2>2, <2>3, <2>4
<1> QED BY <1>1, <1>2, <1>3, QuietFrame

\* Reading for a cancellation, the cancellation itself, and a restart.
LEMMA CancelAndCrashAreQuiet ==
  ASSUME ControlInv, Crash \/ \E t \in Tasks : CancelRead(t) \/ CancelApply(t)
  PROVE  QuietRows /\ QuietSubmitters /\ QuietApprovers /\ QuietRecovery /\ QuietAttempts
<1>0. StoreTypeOK /\ ProcessTypeOK /\ ProcessOK
  BY DEF ControlInv, TypeOK
<1>1. CASE Crash
  <2>1. QuietSubmitters
    BY <1>1 DEF Crash, QuietSubmitters, Undecided, SubmitClaimed, OverSubmit
  <2>2. QuietApprovers /\ QuietRecovery
    BY <1>1 DEF Crash, QuietApprovers, QuietRecovery, ApproveClaimed, Held, IdleApprove, IdleRecovery
  <2>3. QuietAttempts
    BY <1>0, <1>1 DEF Crash, QuietAttempts, Launched, ProcessTypeOK, AttemptRecords
  <2> QED BY <1>1, <2>1, <2>2, <2>3, QuietFrame DEF Crash
<1>2. ASSUME NEW t \in Tasks, CancelRead(t) \/ CancelApply(t)
      PROVE  QuietRows /\ QuietSubmitters /\ QuietApprovers /\ QuietRecovery /\ QuietAttempts
  <2>1. UNCHANGED <<sub, apr, rec>>
    BY <1>2 DEF CancelRead, CancelApply
  <2>2. QuietRows
    BY <1>0, <1>2, QuietCalls, QuietFrame DEF CancelRead, CancelApply
  <2>3. QuietAttempts
    <3>1. ASSUME NEW a \in Attempts
          PROVE  att'[a] = att[a] \/ att'[a] = [att[a] EXCEPT !.exec = "stopped"]
      BY <1>2 DEF CancelRead, CancelApply
    <3>2. \A a \in Attempts : att[a] \in AttemptRecords
      BY <1>0 DEF ProcessTypeOK
    <3> QED BY <3>1, <3>2 DEF QuietAttempts, Launched, AttemptRecords
  <2> QED BY <2>1, <2>2, <2>3, QuietFrame
<1> QED BY <1>1, <1>2

\* A recovery pass, except where it collects tasks and where it sends one.
LEMMA RecoveryIsQuiet ==
  ASSUME ControlInv, DispatchInv, NEW w \in Workers,
         \/ RecoverStart(w) \/ RecoverLoad(w) \/ RecoverCheck(w) \/ RecoverCount(w) \/ RecoverDLQ(w)
         \/ RecoverJournal(w) \/ RecoverSelect(w) \/ RecoverFail(w) \/ RecoverClaim(w)
  PROVE  QuietRows /\ QuietSubmitters /\ QuietApprovers /\ QuietRecovery /\ QuietAttempts
<1>0. StoreTypeOK /\ ProcessTypeOK /\ ProcessOK
  BY DEF ControlInv, TypeOK
<1>1. UNCHANGED <<sub, apr>>
  BY DEF RecoverStart, RecoverLoad, RecoverCheck, RecoverCount, RecoverDLQ, RecoverJournal, RecoverSelect,
         RecoverFail, RecoverClaim
<1>2. QuietAttempts
  <2>1. UNCHANGED att \/ \E a \in Attempts : att[a].pc = "unreachable" /\ att' = [att EXCEPT ![a].pc = "done"]
    BY DEF RecoverStart, RecoverLoad, RecoverCheck, RecoverCount, RecoverDLQ, RecoverJournal, RecoverSelect,
           RecoverFail, RecoverClaim
  <2>2. ASSUME NEW a \in Attempts, att[a].pc = "unreachable", att' = [att EXCEPT ![a].pc = "done"]
        PROVE  QuietAttempts
    BY <1>0, <2>2 DEF QuietAttempts, Launched, ProcessTypeOK, AttemptRecords
  <2> QED BY <2>1, <2>2, QuietFrame
<1>3. QuietRows
  <2>1. CASE RecoverCount(w) \/ RecoverDLQ(w) \/ RecoverFail(w)
    BY <1>0, <2>1, QuietCalls, QuietFrame DEF RecoverCount, RecoverDLQ, RecoverFail, ProcessOK, RecoveryOK
  <2>2. CASE RecoverClaim(w)
    <3>1. rec[w].task \in Tasks /\ ~ Unstarted(rec[w].task) /\ ~ Rejected(rec[w].task)
      BY <1>0, <2>2 DEF RecoverClaim, ProcessOK, RecoveryOK, DispatchInv, ClaimFirst, Unclaimed, Held
    <3>2. UNCHANGED storeVars \/ MarkDispatched(rec[w].task, rec[w].target)
      BY <2>2 DEF RecoverClaim
    <3>3. ASSUME MarkDispatched(rec[w].task, rec[w].target) PROVE QuietRows
      BY <1>0, <3>1, <3>3 DEF MarkDispatched, TaskAllowsDispatch, QuietRows, Unstarted, Rejected, StoreTypeOK,
                              Terminal
    <3> QED BY <3>2, <3>3, QuietFrame
  <2>3. CASE RecoverStart(w) \/ RecoverLoad(w) \/ RecoverCheck(w) \/ RecoverJournal(w) \/ RecoverSelect(w)
    BY <2>3, QuietFrame DEF RecoverStart, RecoverLoad, RecoverCheck, RecoverJournal, RecoverSelect
  <2> QED BY <2>1, <2>2, <2>3
<1>4. QuietRecovery
  <2> SUFFICES ASSUME NEW u \in Workers, NEW t \in Tasks, Held(u, t)' PROVE Held(u, t)
    BY DEF QuietRecovery
  <2>1. CASE u # w
    BY <1>0, <2>1
       DEF ProcessTypeOK, Held, RecoverStart, RecoverLoad, RecoverCheck, RecoverCount, RecoverDLQ,
           RecoverJournal, RecoverSelect, RecoverFail, RecoverClaim, Proceed
  <2>2. CASE u = w
    <3> USE <1>0, <2>2 DEF ProcessTypeOK, RecoveryRecords, Held
    <3>1. CASE Proceed(w)
      BY <3>1 DEF Proceed
    <3>2. CASE RecoverStart(w)
      <4>1. PICK r \in Runtimes : rec' = [rec EXCEPT ![w].pc = "mark", ![w].rt = r]
        BY <3>2 DEF RecoverStart
      <4> QED BY <4>1
    <3>3. CASE RecoverLoad(w)
      <4>1. CASE rec' = [rec EXCEPT ![w] = IdleRecovery]
        BY <4>1 DEF IdleRecovery
      <4>2. ASSUME NEW next \in rec[w].todo,
                   rec' = [rec EXCEPT ![w].pc = "loaded", ![w].todo = @ \ {next}, ![w].task = next,
                                      ![w].cp = BuildCumulativeRecoveryCheckpoint(walRows[next])]
            PROVE  Held(u, t)
        <5>1. rec'[w].todo = rec[w].todo \ {next} /\ rec'[w].task = next
          BY <4>2
        <5> QED BY <4>2, <5>1
      <4> QED BY <3>3, <4>1, <4>2 DEF RecoverLoad
    <3>4. CASE RecoverCheck(w)
      BY <3>1, <3>4 DEF RecoverCheck
    <3>5. CASE RecoverCount(w) \/ RecoverDLQ(w)
      BY <3>5 DEF RecoverCount, RecoverDLQ
    <3>6. CASE RecoverJournal(w) \/ RecoverSelect(w)
      BY <3>1, <3>6 DEF RecoverJournal, RecoverSelect
    <3>7. CASE RecoverFail(w) \/ RecoverClaim(w)
      BY <3>1, <3>7 DEF RecoverFail, RecoverClaim
    <3> QED BY <3>2, <3>3, <3>4, <3>5, <3>6, <3>7
  <2> QED BY <2>1, <2>2
<1> QED BY <1>1, <1>2, <1>3, <1>4, QuietFrame

-----------------------------------------------------------------------------
(* Steps that pass the right on                                            *)

TakesAttempt(b, t, origin) ==
    /\ att[b].pc = "none" /\ att[b].task = Nil
    /\ att'[b].pc = "start" /\ att'[b].task = t /\ att'[b].origin = origin
    /\ \A a \in Attempts : a # b => att'[a] = att[a]

\* A dispatch takes one unused attempt and leaves the others alone.
LEMMA OneLaunch ==
  ASSUME ControlInv, NEW t, NEW r, NEW rid, NEW cp, NEW origin, DispatchAsync(t, r, rid, cp, origin)
  PROVE  \E b \in Attempts : TakesAttempt(b, t, origin)
<1>1. PICK b \in Attempts :
        /\ att[b].pc = "none"
        /\ att' = [att EXCEPT ![b] =
                     [pc |-> "start", exec |-> "none", task |-> t, rt |-> r, rid |-> rid,
                      cp |-> cp, origin |-> origin, pos |-> ResumeStep(cp), sent |-> ResumeStep(cp) - 1]]
  BY DEF DispatchAsync, NextAttempt
<1>2. att[b].task = Nil
  BY <1>1 DEF ControlInv, ProcessOK, AttemptOK, UnusedAttempt
<1>3. DOMAIN att = Attempts
  BY DEF ControlInv, TypeOK, ProcessTypeOK
<1>4. TakesAttempt(b, t, origin)
  BY <1>1, <1>2, <1>3 DEF TakesAttempt
<1> QED BY <1>4

\* A dispatch, by the one who claimed the task or by a recovery that holds it.
LEMMA LaunchStep ==
  ASSUME ControlInv, ControlInv', DispatchInv, NEW t \in Tasks, NEW r, NEW rid, NEW cp,
         NEW origin \in {"submit", "approve", "recover"},
         DispatchAsync(t, r, rid, cp, origin), UNCHANGED storeVars,
         QuietSubmitters, QuietApprovers, QuietRecovery,
         ~ Unclaimed(t),
         t \in HumanGated => origin = "approve",
         origin # "recover" =>
            /\ \A a \in Attempts : AttemptAt(a, t) => att[a].origin = "recover"
            /\ \A s \in Submitters : ~ SubmitClaimed(s, t)'
            /\ \A p \in Approvers : ~ ApproveClaimed(p, t)'
  PROVE  DispatchInv'
<1>0. PICK b \in Attempts : TakesAttempt(b, t, origin)
  BY OneLaunch
<1>1. /\ ~ Launched(b)
      /\ Launched(b)' /\ att'[b].task = t /\ att'[b].origin = origin
      /\ \A a \in Attempts : a # b => att'[a] = att[a]
  BY <1>0 DEF TakesAttempt, Launched
<1>2. QuietRows
  BY QuietFrame
<1>3. \A a \in Attempts : a # b => (Launched(a)' <=> Launched(a))
  BY <1>1 DEF Launched
<1>4. \A a \in Attempts, u \in Tasks : AttemptAt(a, u)' => AttemptAt(a, u) \/ (a = b /\ u = t)
  BY <1>1, <1>3 DEF AttemptAt
<1>5. \A u \in Tasks : Unclaimed(u) => Unclaimed(u)'
  BY <1>4 DEF QuietSubmitters, QuietApprovers, QuietRecovery, Unclaimed
<1>6. ClaimFirst'
  <2> SUFFICES ASSUME NEW u \in Tasks,
                      Unstarted(u)' \/ Rejected(u)' \/ (\E s \in Submitters : Undecided(s, u)')
               PROVE  Unclaimed(u)'
    BY DEF ClaimFirst
  <2>1. (Unstarted(u)' => Unstarted(u)) /\ (Rejected(u)' => Rejected(u))
    BY <1>2 DEF QuietRows, Unstarted
  <2> QED BY <1>5, <2>1 DEF QuietSubmitters, DispatchInv, ClaimFirst
<1>7. UndecidedRow' /\ RejectedRow'
  BY <1>2 DEF QuietSubmitters, QuietRows, DispatchInv, UndecidedRow, RejectedRow, Terminal
<1>8. OneRight'
  <2>1. ASSUME NEW u \in Tasks, NEW a \in Attempts, AttemptAt(a, u)',
               (\E s \in Submitters : SubmitClaimed(s, u)') \/ (\E p \in Approvers : ApproveClaimed(p, u)')
        PROVE  att'[a].origin = "recover"
    <3>1. CASE a = b
      BY <1>1, <2>1, <3>1 DEF AttemptAt
    <3>2. CASE a # b
      <4>1. AttemptAt(a, u) /\ att'[a] = att[a]
        BY <1>1, <1>4, <2>1, <3>2
      <4> QED BY <2>1, <4>1 DEF QuietSubmitters, QuietApprovers, DispatchInv, OneRight
    <3> QED BY <3>1, <3>2
  <2> QED BY <2>1 DEF QuietSubmitters, QuietApprovers, DispatchInv, OneRight
<1>9. ClaimNotGated'
  BY DEF QuietSubmitters, DispatchInv, ClaimNotGated, SubmitClaimed, ControlInv, ProcessOK, SubmitOK
<1>10. InitialDispatchOnce'
  <2>1. ASSUME NEW a \in Attempts, a # b, Launched(a)', att'[a].task = t
        PROVE  "recover" \in {origin, att'[a].origin}
    <3>1. AttemptAt(a, t) /\ att'[a] = att[a]
      BY <1>1, <1>3, <2>1 DEF AttemptAt
    <3> QED BY <3>1
  <2>2. ASSUME NEW a \in Attempts, NEW c \in Attempts, a # b, c # b, a # c,
               Launched(a)', Launched(c)', att'[a].task = att'[c].task
        PROVE  "recover" \in {att'[a].origin, att'[c].origin}
    <3>1. Launched(a) /\ Launched(c) /\ att'[a] = att[a] /\ att'[c] = att[c]
      BY <1>1, <1>3, <2>2
    <3> QED BY <2>2, <3>1 DEF DispatchInv, InitialDispatchOnce
  <2> SUFFICES ASSUME NEW a \in Attempts, NEW c \in Attempts,
                      Launched(a)', Launched(c)', a # c, att'[a].task = att'[c].task
               PROVE  "recover" \in {att'[a].origin, att'[c].origin}
    BY DEF InitialDispatchOnce
  <2>3. CASE a = b
    BY <1>1, <2>1, <2>3
  <2>4. CASE c = b
    BY <1>1, <2>1, <2>4
  <2> QED BY <2>2, <2>3, <2>4
<1>11. GateBeforeDispatch'
  <2>1. t \in HumanGated => origin = "approve"
    OBVIOUS
  <2>2. ASSUME NEW a \in Attempts, a # b, Launched(a)', att'[a].task \in HumanGated
        PROVE  att'[a].origin = "approve"
    <3>1. Launched(a) /\ att'[a] = att[a]
      BY <1>1, <1>3, <2>2
    <3> QED BY <2>2, <3>1 DEF DispatchInv, GateBeforeDispatch
  <2> SUFFICES ASSUME NEW a \in Attempts, Launched(a)', att'[a].task \in HumanGated
               PROVE  att'[a].origin = "approve"
    BY DEF GateBeforeDispatch
  <2>3. CASE a = b
    BY <1>1, <2>1, <2>3
  <2> QED BY <2>2, <2>3
<1> QED BY <1>6, <1>7, <1>8, <1>9, <1>10, <1>11 DEF DispatchInv

\* A recovery that collects the tasks in flight on a runtime, or sends one.
LEMMA RecoveryKeepsDispatch ==
  ASSUME ControlInv, ControlInv', DispatchInv, NEW w \in Workers, Recovery(w) PROVE DispatchInv'
<1>0. StoreTypeOK /\ ProcessTypeOK /\ ProcessOK
  BY DEF ControlInv, TypeOK
<1>1. CASE RecoverResume(w)
  <2>0. PICK t \in Tasks : t = rec[w].task
    BY <1>0, <1>1 DEF RecoverResume, ProcessOK, RecoveryOK
  <2>1. /\ Held(w, t) /\ t \notin HumanGated
        /\ Proceed(w) /\ UNCHANGED <<sub, apr>>
    BY <1>0, <1>1, <2>0, HandoffFacts DEF RecoverResume, ProcessOK, RecoveryOK, Held
  <2>2. QuietRecovery
    BY <1>0, <2>1 DEF Proceed, QuietRecovery, Held, ProcessTypeOK, RecoveryRecords
  <2>3. ASSUME DispatchAsync(t, rec[w].target, runtimeID[t], rec[w].cp, "recover"), UNCHANGED storeVars
        PROVE  DispatchInv'
    <3>1. ~ Unclaimed(t)
      BY <2>1 DEF Unclaimed
    <3>2. QuietSubmitters /\ QuietApprovers
      BY <2>1, QuietFrame
    <3> QED BY <2>1, <2>2, <2>3, <3>1, <3>2, LaunchStep
  <2>4. CASE UNCHANGED att
    <3>1. QuietRows
      BY <1>0, <1>1, <2>0, QuietCalls, QuietFrame DEF RecoverResume
    <3> QED BY <2>1, <2>2, <2>4, <3>1, QuietFrame, QuietStep
  <2> QED BY <1>1, <2>0, <2>3, <2>4 DEF RecoverResume
<1>2. CASE RecoverMark(w)
  <2>1. UNCHANGED <<sub, apr, att>>
    BY <1>2 DEF RecoverMark
  <2>2. CASE UNCHANGED storeVars /\ rec' = [rec EXCEPT ![w] = IdleRecovery]
    <3>1. QuietRecovery
      BY <1>0, <2>2 DEF QuietRecovery, Held, ProcessTypeOK, IdleRecovery
    <3> QED BY <2>1, <2>2, <3>1, QuietFrame, QuietStep
  <2>3. ASSUME MarkRecovering(rec[w].rt),
               rec' = [rec EXCEPT ![w].pc = "next", ![w].rt = Nil,
                                  ![w].todo = {t \in Tasks : /\ runtimeID[t] = rec[w].rt
                                                             /\ status[t] \in {"dispatched", "checkpointed"}}]
        PROVE  DispatchInv'
    <3>1. QuietRows
      BY <1>0, <2>3 DEF MarkRecovering, QuietRows, Unstarted, Rejected, Terminal, StoreTypeOK
    <3>2. ASSUME NEW u \in Workers, NEW t \in Tasks, Held(u, t)'
          PROVE  Held(u, t) \/ status[t] \in {"dispatched", "checkpointed"}
      <4>1. CASE u = w
        <5>1. rec'[w].pc = "next" /\ t \in rec'[w].todo
          BY <1>0, <2>3, <3>2, <4>1 DEF Held, ProcessTypeOK, RecoveryRecords
        <5> QED BY <1>0, <2>3, <5>1 DEF ProcessTypeOK, RecoveryRecords
      <4>2. CASE u # w
        BY <1>0, <2>3, <3>2, <4>2 DEF Held, ProcessTypeOK
      <4> QED BY <4>1, <4>2
    <3>3. \A s \in Submitters, t \in Tasks : /\ Undecided(s, t)' <=> Undecided(s, t)
                                             /\ SubmitClaimed(s, t)' <=> SubmitClaimed(s, t)
      BY <2>1 DEF Undecided, SubmitClaimed
    <3>4. \A p \in Approvers, t \in Tasks : ApproveClaimed(p, t)' <=> ApproveClaimed(p, t)
      BY <2>1 DEF ApproveClaimed
    <3>5. \A a \in Attempts, t \in Tasks : AttemptAt(a, t)' <=> AttemptAt(a, t)
      BY <2>1 DEF AttemptAt, Launched
    <3>6. ClaimFirst'
      <4> SUFFICES ASSUME NEW t \in Tasks,
                          Unstarted(t)' \/ Rejected(t)' \/ (\E s \in Submitters : Undecided(s, t)')
                   PROVE  Unclaimed(t)'
        BY DEF ClaimFirst
      <4>1. Unstarted(t) \/ Rejected(t) \/ (\E s \in Submitters : Undecided(s, t))
        BY <3>1, <3>3 DEF QuietRows, Unstarted
      <4>2. Unclaimed(t) /\ status[t] \notin {"dispatched", "checkpointed"}
        BY <4>1 DEF DispatchInv, ClaimFirst, UndecidedRow, RejectedRow, Unstarted
      <4> QED BY <3>2, <3>3, <3>4, <3>5, <4>2 DEF Unclaimed
    <3>7. UndecidedRow' /\ RejectedRow'
      BY <3>1, <3>3 DEF QuietRows, DispatchInv, UndecidedRow, RejectedRow, Terminal
    <3>8. OneRight' /\ ClaimNotGated'
      BY <2>1, <3>3, <3>4, <3>5 DEF DispatchInv, OneRight, ClaimNotGated
    <3>9. InitialDispatchOnce' /\ GateBeforeDispatch'
      BY <2>1 DEF DispatchInv, InitialDispatchOnce, GateBeforeDispatch, Launched
    <3> QED BY <3>6, <3>7, <3>8, <3>9 DEF DispatchInv
  <2> QED BY <1>2, <2>2, <2>3 DEF RecoverMark
<1> QED BY <1>1, <1>2, RecoveryIsQuiet, QuietStep DEF Recovery, RecoveryStep

\* A step on one task that nobody has claimed: it is enough to look at that task.
LEMMA GrantStep ==
  ASSUME ControlInv', DispatchInv, NEW t \in Tasks, Unclaimed(t), UNCHANGED <<rec, att>>,
         \A u \in Tasks \ {t} :
            /\ status'[u] = status[u] /\ failureReason'[u] = failureReason[u]
            /\ \A s \in Submitters : (Undecided(s, u)' => Undecided(s, u)) /\ (SubmitClaimed(s, u)' => SubmitClaimed(s, u))
            /\ \A p \in Approvers : ApproveClaimed(p, u)' => ApproveClaimed(p, u),
         Unstarted(t)' \/ Rejected(t)' \/ (\E s \in Submitters : Undecided(s, t)') =>
            (\A s \in Submitters : ~ SubmitClaimed(s, t)') /\ (\A p \in Approvers : ~ ApproveClaimed(p, t)'),
         \A s \in Submitters : Undecided(s, t)' => status'[t] \in {"pending", "canceled"},
         Rejected(t)' => status'[t] = "failed",
         \A s, u \in Submitters :
            (Undecided(s, t)' \/ SubmitClaimed(s, t)') /\ (Undecided(u, t)' \/ SubmitClaimed(u, t)') => s = u,
         \A p, q \in Approvers : ApproveClaimed(p, t)' /\ ApproveClaimed(q, t)' => p = q,
         \A s \in Submitters, p \in Approvers : ~ (SubmitClaimed(s, t)' /\ ApproveClaimed(p, t)'),
         \A s \in Submitters : SubmitClaimed(s, t)' => t \notin HumanGated
  PROVE  DispatchInv'
<1>1. \A a \in Attempts, u \in Tasks : AttemptAt(a, u)' <=> AttemptAt(a, u)
  BY DEF AttemptAt, Launched
<1>2. \A w \in Workers, u \in Tasks : Held(w, u)' <=> Held(w, u)
  BY DEF Held
<1>3. ClaimFirst'
  <2> SUFFICES ASSUME NEW u \in Tasks,
                      Unstarted(u)' \/ Rejected(u)' \/ (\E s \in Submitters : Undecided(s, u)')
               PROVE  Unclaimed(u)'
    BY DEF ClaimFirst
  <2>1. CASE u = t
    BY <1>1, <1>2, <2>1 DEF Unclaimed
  <2>2. CASE u # t
    <3>1. Unstarted(u) \/ Rejected(u) \/ (\E s \in Submitters : Undecided(s, u))
      BY <2>2 DEF Unstarted, Rejected
    <3>2. Unclaimed(u)
      BY <3>1 DEF DispatchInv, ClaimFirst
    <3> QED BY <1>1, <1>2, <2>2, <3>2 DEF Unclaimed
  <2> QED BY <2>1, <2>2
<1>4. UndecidedRow' /\ RejectedRow'
  BY DEF DispatchInv, UndecidedRow, RejectedRow, Rejected
<1>5. OneRight'
  <2> SUFFICES ASSUME NEW u \in Tasks
               PROVE  /\ \A s, v \in Submitters :
                            (Undecided(s, u)' \/ SubmitClaimed(s, u)') /\ (Undecided(v, u)' \/ SubmitClaimed(v, u)') => s = v
                      /\ \A p, q \in Approvers : ApproveClaimed(p, u)' /\ ApproveClaimed(q, u)' => p = q
                      /\ \A s \in Submitters, p \in Approvers : ~ (SubmitClaimed(s, u)' /\ ApproveClaimed(p, u)')
                      /\ (\E s \in Submitters : SubmitClaimed(s, u)') \/ (\E p \in Approvers : ApproveClaimed(p, u)') =>
                            \A a \in Attempts : AttemptAt(a, u)' => att'[a].origin = "recover"
    BY DEF OneRight
  <2>1. CASE u = t
    BY <1>1, <2>1 DEF Unclaimed
  <2>2. CASE u # t
    BY <1>1, <2>2 DEF DispatchInv, OneRight
  <2> QED BY <2>1, <2>2
<1>6. ClaimNotGated'
  <2> SUFFICES ASSUME NEW s \in Submitters, sub'[s].pc = "claimed" PROVE sub'[s].task \notin HumanGated
    BY DEF ClaimNotGated
  <2>1. sub'[s].task \in Tasks
    BY DEF ControlInv, ProcessOK, SubmitOK
  <2>2. CASE sub'[s].task = t
    BY <2>2 DEF SubmitClaimed
  <2>3. CASE sub'[s].task # t
    BY <2>1, <2>3 DEF DispatchInv, ClaimNotGated, SubmitClaimed
  <2> QED BY <2>2, <2>3
<1>7. InitialDispatchOnce' /\ GateBeforeDispatch'
  BY DEF DispatchInv, InitialDispatchOnce, GateBeforeDispatch, Launched
<1> QED BY <1>3, <1>4, <1>5, <1>6, <1>7 DEF DispatchInv

\* A task that waits for its claim has no undecided request, or one.
LEMMA BeforeClaim ==
  ASSUME DispatchInv, NEW t \in Tasks
  PROVE  /\ Unstarted(t) => Unclaimed(t)
         /\ status[t] \in {"absent", "approval_required"} => \A s \in Submitters : ~ Undecided(s, t)
         /\ \A s, u \in Submitters : Undecided(s, t) /\ Undecided(u, t) => s = u
         /\ Rejected(t) => status[t] = "failed"
  BY DEF DispatchInv, ClaimFirst, UndecidedRow, RejectedRow, OneRight

\* Submission: the insert grants the right, the claim keeps it, the dispatch uses it.
LEMMA SubmitKeepsDispatch ==
  ASSUME ControlInv, ControlInv', DispatchInv, NEW s \in Submitters,
         \/ \E t \in Tasks : SubmitCreate(s, t)
         \/ SubmitSelect(s) \/ SubmitDemo(s) \/ SubmitClaim(s) \/ SubmitDispatch(s)
  PROVE  DispatchInv'
<1>0. StoreTypeOK /\ ProcessTypeOK /\ ProcessOK /\ sub \in [Submitters -> SubmitRecords]
  BY DEF ControlInv, TypeOK, ProcessTypeOK
<1>1. UNCHANGED <<apr, rec>>
  BY DEF SubmitCreate, SubmitSelect, SubmitDemo, SubmitClaim, SubmitDispatch
<1>2. QuietApprovers /\ QuietRecovery
  BY <1>1, QuietFrame
<1>3. ASSUME sub' = [sub EXCEPT ![s] = OverSubmit]
      PROVE  /\ QuietSubmitters
             /\ \A t \in Tasks : ~ Undecided(s, t)' /\ ~ SubmitClaimed(s, t)'
             /\ \A u \in Submitters, t \in Tasks : u # s =>
                   (Undecided(u, t)' <=> Undecided(u, t)) /\ (SubmitClaimed(u, t)' <=> SubmitClaimed(u, t))
  BY <1>0, <1>3 DEF QuietSubmitters, Undecided, SubmitClaimed, OverSubmit
<1>4. ASSUME NEW t \in Tasks, SubmitCreate(s, t) PROVE DispatchInv'
  <2>1. UNCHANGED att
    BY <1>4 DEF SubmitCreate
  <2>2. CASE UNCHANGED storeVars /\ sub' = [sub EXCEPT ![s] = OverSubmit]
    BY <1>2, <1>3, <2>1, <2>2, QuietFrame, QuietStep
  <2>3. CASE CreateTask(t) /\ sub' = [sub EXCEPT ![s] = [pc |-> "created", task |-> t, rt |-> Nil]]
    <3>1. status[t] = "absent" /\ status'[t] = "pending" /\ failureReason'[t] = failureReason[t]
      BY <1>0, <2>3 DEF CreateTask, StoreTypeOK
    <3>2. \A u \in Tasks \ {t} : status'[u] = status[u] /\ failureReason'[u] = failureReason[u]
      BY <1>0, <2>3 DEF CreateTask, StoreTypeOK
    <3>3. Unclaimed(t) /\ (\A u \in Submitters : ~ Undecided(u, t)) /\ ~ Rejected(t)
      BY <3>1, BeforeClaim DEF Unstarted
    <3>4. \A u \in Submitters, v \in Tasks : /\ SubmitClaimed(u, v)' => SubmitClaimed(u, v)
                                             /\ Undecided(u, v)' => Undecided(u, v) \/ (u = s /\ v = t)
      BY <1>0, <2>3 DEF Undecided, SubmitClaimed
    <3>5. ~ Rejected(t)'
      BY <3>1, <3>3 DEF Rejected
    <3>6. \A p \in Approvers, v \in Tasks : ApproveClaimed(p, v)' => ApproveClaimed(p, v)
      BY <1>2 DEF QuietApprovers
    <3> QED BY <1>1, <2>1, <3>1, <3>2, <3>3, <3>4, <3>5, <3>6, GrantStep DEF Unclaimed
  <2> QED BY <1>4, <2>2, <2>3 DEF SubmitCreate
<1>5. CASE SubmitSelect(s) \/ SubmitDemo(s)
  <2>1. UNCHANGED att /\ sub[s].task \in Tasks
    BY <1>0, <1>5 DEF SubmitSelect, SubmitDemo, ProcessOK, SubmitOK
  <2>2. QuietRows
    BY <1>0, <1>5, <2>1, QuietCalls, QuietFrame DEF SubmitSelect, SubmitDemo
  <2>3. QuietSubmitters
    <3>1. \/ sub' = [sub EXCEPT ![s] = OverSubmit]
          \/ /\ sub[s].pc = "created"
             /\ \E r \in Runtimes : sub' = [sub EXCEPT ![s].pc = "chosen", ![s].rt = r]
      BY <1>5 DEF SubmitSelect, SubmitDemo
    <3>2. ASSUME NEW r \in Runtimes, sub[s].pc = "created", sub' = [sub EXCEPT ![s].pc = "chosen", ![s].rt = r]
          PROVE  QuietSubmitters
      BY <1>0, <3>2 DEF QuietSubmitters, Undecided, SubmitClaimed, SubmitRecords
    <3> QED BY <1>3, <3>1, <3>2
  <2> QED BY <1>2, <2>1, <2>2, <2>3, QuietFrame, QuietStep
<1>6. CASE SubmitClaim(s)
  <2>0. PICK t \in Tasks : t = sub[s].task
    BY <1>0, <1>6 DEF SubmitClaim, ProcessOK, SubmitOK
  <2>1. sub[s].pc = "chosen" /\ Undecided(s, t) /\ UNCHANGED att
    BY <1>6, <2>0 DEF SubmitClaim, Undecided
  <2>2. /\ status[t] \in {"pending", "canceled"} /\ Unclaimed(t)
        /\ \A u \in Submitters : Undecided(u, t) => u = s
    BY <2>1 DEF DispatchInv, UndecidedRow, ClaimFirst, OneRight
  <2>3. ~ (status[t] = "pending" /\ Rejected(t))
    BY <2>1, BeforeClaim
  <2>4. \A p \in Approvers, v \in Tasks : ApproveClaimed(p, v)' => ApproveClaimed(p, v)
    BY <1>2 DEF QuietApprovers
  <2>5. CASE UNCHANGED storeVars /\ sub' = [sub EXCEPT ![s] = OverSubmit]
    BY <1>2, <1>3, <2>1, <2>5, QuietFrame, QuietStep
  <2>6. ASSUME MarkApprovalRequired(t), sub' = [sub EXCEPT ![s] = OverSubmit] PROVE DispatchInv'
    <3>1. status'[t] = "approval_required" /\ failureReason'[t] = "policy"
      BY <1>0, <2>1, <2>6 DEF MarkApprovalRequired, StoreTypeOK
    <3>2. \A u \in Tasks \ {t} : status'[u] = status[u] /\ failureReason'[u] = failureReason[u]
      BY <1>0, <2>6 DEF MarkApprovalRequired, StoreTypeOK
    <3>3. ~ Rejected(t)'
      BY <3>1 DEF Rejected
    <3>4. /\ \A u \in Submitters : ~ Undecided(u, t)' /\ ~ SubmitClaimed(u, t)'
          /\ \A p \in Approvers : ~ ApproveClaimed(p, t)'
      BY <1>3, <2>1, <2>2, <2>4, <2>6 DEF Unclaimed
    <3>5. \A u \in Submitters, v \in Tasks : (Undecided(u, v)' => Undecided(u, v)) /\ (SubmitClaimed(u, v)' => SubmitClaimed(u, v))
      BY <1>3, <2>6 DEF QuietSubmitters
    <3> QED BY <1>1, <2>1, <2>2, <2>4, <3>2, <3>3, <3>4, <3>5, GrantStep
  <2>7. ASSUME EvaluateActionPolicy(t, Nil, FALSE) # "approval_required", MarkDispatched(t, sub[s].rt),
               sub' = [sub EXCEPT ![s].pc = "claimed"]
        PROVE  DispatchInv'
    <3>1. status[t] = "pending" /\ status'[t] = "dispatched" /\ failureReason'[t] = failureReason[t]
      BY <1>0, <2>1, <2>2, <2>7 DEF MarkDispatched, TaskAllowsDispatch, StoreTypeOK
    <3>2. \A u \in Tasks \ {t} : status'[u] = status[u] /\ failureReason'[u] = failureReason[u]
      BY <1>0, <2>7 DEF MarkDispatched, StoreTypeOK
    <3>3. ~ Rejected(t)' /\ ~ Unstarted(t)' /\ t \notin HumanGated
      BY <2>3, <2>7, <3>1 DEF Rejected, Unstarted, EvaluateActionPolicy
    <3>4. \A u \in Submitters, v \in Tasks : /\ Undecided(u, v)' => Undecided(u, v) /\ u # s
                                             /\ SubmitClaimed(u, v)' => SubmitClaimed(u, v) \/ (u = s /\ v = t)
      BY <1>0, <2>0, <2>1, <2>7 DEF Undecided, SubmitClaimed, SubmitRecords
    <3>5. \A u \in Submitters : ~ Undecided(u, t)' /\ (SubmitClaimed(u, t)' => u = s)
      BY <2>1, <2>2, <3>4 DEF Unclaimed
    <3>6. \A p \in Approvers : ~ ApproveClaimed(p, t)'
      BY <2>1, <2>2, <2>4 DEF Unclaimed
    <3> QED BY <1>1, <2>1, <2>2, <2>4, <3>2, <3>3, <3>4, <3>5, <3>6, GrantStep
  <2> QED BY <1>6, <2>0, <2>5, <2>6, <2>7 DEF SubmitClaim
<1>7. CASE SubmitDispatch(s)
  <2>0. PICK t \in Tasks : t = sub[s].task
    BY <1>0, <1>7 DEF SubmitDispatch, ProcessOK, SubmitOK
  <2>1. SubmitClaimed(s, t) /\ sub' = [sub EXCEPT ![s] = OverSubmit]
    BY <1>7, <2>0 DEF SubmitDispatch, SubmitClaimed
  <2>2. ~ Unclaimed(t) /\ t \notin HumanGated
    BY <2>0, <2>1 DEF Unclaimed, DispatchInv, ClaimNotGated, SubmitClaimed
  <2>3. /\ \A a \in Attempts : AttemptAt(a, t) => att[a].origin = "recover"
        /\ \A u \in Submitters : SubmitClaimed(u, t) => u = s
        /\ \A p \in Approvers : ~ ApproveClaimed(p, t)
    BY <2>1 DEF DispatchInv, OneRight
  <2>4. /\ \A u \in Submitters : ~ SubmitClaimed(u, t)'
        /\ \A p \in Approvers : ~ ApproveClaimed(p, t)'
    BY <1>2, <1>3, <2>1, <2>3 DEF QuietApprovers
  <2>5. ASSUME DispatchAsync(t, sub[s].rt, sub[s].rt, Nil, "submit"), UNCHANGED storeVars PROVE DispatchInv'
    <3> QED BY <1>2, <1>3, <2>1, <2>2, <2>3, <2>4, <2>5, LaunchStep
  <2>6. ASSUME MarkFailedOrRejected(t), UNCHANGED att PROVE DispatchInv'
    BY <1>0, <1>2, <1>3, <2>1, <2>6, QuietCalls, QuietFrame, QuietStep
  <2> QED BY <1>7, <2>0, <2>5, <2>6 DEF SubmitDispatch
<1> QED BY <1>4, <1>5, <1>6, <1>7

\* Approval and rejection: of all who read the waiting task, one changes its row.
LEMMA ApprovalKeepsDispatch ==
  ASSUME ControlInv, ControlInv', DispatchInv,
         \/ \E p \in Approvers : (\E t \in Tasks : ApproveSelect(p, t)) \/ ApproveClaim(p) \/ ApproveDispatch(p)
         \/ \E t \in Tasks : RejectTask(t)
  PROVE  DispatchInv'
<1>0. StoreTypeOK /\ ProcessTypeOK /\ ProcessOK /\ apr \in [Approvers -> ApproveRecords]
  BY DEF ControlInv, TypeOK, ProcessTypeOK
<1>1. UNCHANGED <<sub, rec>>
  BY DEF ApproveSelect, ApproveClaim, ApproveDispatch, RejectTask
<1>2. QuietSubmitters /\ QuietRecovery
  BY <1>1, QuietFrame
<1>3. \A s \in Submitters, t \in Tasks : (Undecided(s, t)' <=> Undecided(s, t)) /\ (SubmitClaimed(s, t)' <=> SubmitClaimed(s, t))
  BY <1>1 DEF Undecided, SubmitClaimed
<1>4. ASSUME NEW p \in Approvers, NEW t \in Tasks, ApproveSelect(p, t) PROVE DispatchInv'
  <2>1. UNCHANGED storeVars /\ UNCHANGED att /\ \E r : apr' = [apr EXCEPT ![p] = [pc |-> "chosen", task |-> t, rt |-> r]]
    BY <1>4 DEF ApproveSelect
  <2>2. QuietApprovers
    BY <1>0, <2>1 DEF QuietApprovers, ApproveClaimed
  <2> QED BY <1>2, <2>1, <2>2, QuietFrame, QuietStep
<1>5. ASSUME NEW p \in Approvers, apr' = [apr EXCEPT ![p] = IdleApprove]
      PROVE  /\ QuietApprovers
             /\ \A t \in Tasks : ~ ApproveClaimed(p, t)'
  BY <1>0, <1>5 DEF QuietApprovers, ApproveClaimed, IdleApprove
<1>6. ASSUME NEW p \in Approvers, ApproveClaim(p) PROVE DispatchInv'
  <2>1. PICK t \in Tasks : t = apr[p].task
    BY <1>0, <1>6 DEF ApproveClaim, ProcessOK, ApproveOK
  <2>2. apr[p].pc = "chosen" /\ UNCHANGED att
    BY <1>6 DEF ApproveClaim
  <2>3. CASE UNCHANGED storeVars /\ apr' = [apr EXCEPT ![p] = IdleApprove]
    BY <1>2, <1>5, <2>2, <2>3, QuietFrame, QuietStep
  <2>4. ASSUME MarkApprovedDispatched(t, apr[p].rt), apr' = [apr EXCEPT ![p].pc = "claimed"] PROVE DispatchInv'
    <3>1. status[t] = "approval_required" /\ status'[t] = "dispatched" /\ failureReason'[t] = "none"
      BY <1>0, <2>4 DEF MarkApprovedDispatched, StoreTypeOK
    <3>2. \A u \in Tasks \ {t} : status'[u] = status[u] /\ failureReason'[u] = failureReason[u]
      BY <1>0, <2>4 DEF MarkApprovedDispatched, StoreTypeOK
    <3>3. Unclaimed(t) /\ \A s \in Submitters : ~ Undecided(s, t)
      BY <3>1, BeforeClaim DEF Unstarted
    <3>4. \A q \in Approvers, v \in Tasks : ApproveClaimed(q, v)' => ApproveClaimed(q, v) \/ (q = p /\ v = t)
      BY <1>0, <2>1, <2>4 DEF ApproveClaimed, ApproveRecords
    <3>5. \A q \in Approvers : ApproveClaimed(q, t)' => q = p
      BY <3>3, <3>4 DEF Unclaimed
    <3>6. \A s \in Submitters : ~ Undecided(s, t)' /\ ~ SubmitClaimed(s, t)'
      BY <1>3, <3>3 DEF Unclaimed
    <3>7. ~ Rejected(t)' /\ ~ Unstarted(t)'
      BY <3>1 DEF Rejected, Unstarted
    <3> QED BY <1>1, <1>3, <2>2, <3>2, <3>3, <3>4, <3>5, <3>6, <3>7, GrantStep
  <2> QED BY <1>6, <2>1, <2>3, <2>4 DEF ApproveClaim
<1>7. ASSUME NEW p \in Approvers, ApproveDispatch(p) PROVE DispatchInv'
  <2>1. PICK t \in Tasks : t = apr[p].task
    BY <1>0, <1>7 DEF ApproveDispatch, ProcessOK, ApproveOK
  <2>2. ApproveClaimed(p, t) /\ apr' = [apr EXCEPT ![p] = IdleApprove]
    BY <1>7, <2>1 DEF ApproveDispatch, ApproveClaimed
  <2>3. ~ Unclaimed(t)
    BY <2>2 DEF Unclaimed
  <2>4. /\ \A a \in Attempts : AttemptAt(a, t) => att[a].origin = "recover"
        /\ \A q \in Approvers : ApproveClaimed(q, t) => q = p
        /\ \A s \in Submitters : ~ SubmitClaimed(s, t)
    BY <2>2 DEF DispatchInv, OneRight
  <2>5. /\ \A s \in Submitters : ~ SubmitClaimed(s, t)'
        /\ \A q \in Approvers : ~ ApproveClaimed(q, t)'
    BY <1>3, <1>5, <2>2, <2>4 DEF QuietApprovers
  <2>6. ASSUME DispatchAsync(t, apr[p].rt, apr[p].rt, Nil, "approve"), UNCHANGED storeVars PROVE DispatchInv'
    BY <1>2, <1>5, <2>2, <2>3, <2>4, <2>5, <2>6, LaunchStep
  <2>7. ASSUME MarkFailedOrRejected(t), UNCHANGED att PROVE DispatchInv'
    BY <1>0, <1>2, <1>5, <2>2, <2>7, QuietCalls, QuietFrame, QuietStep
  <2> QED BY <1>7, <2>1, <2>6, <2>7 DEF ApproveDispatch
<1>8. ASSUME NEW t \in Tasks, RejectTask(t) PROVE DispatchInv'
  <2>1. UNCHANGED <<apr, att>> /\ MarkApprovalRejected(t)
    BY <1>8 DEF RejectTask
  <2>2. status[t] = "approval_required" /\ status'[t] = "failed"
    BY <1>0, <2>1 DEF MarkApprovalRejected, StoreTypeOK
  <2>3. \A u \in Tasks \ {t} : status'[u] = status[u] /\ failureReason'[u] = failureReason[u]
    BY <1>0, <2>1 DEF MarkApprovalRejected, StoreTypeOK
  <2>4. Unclaimed(t) /\ \A s \in Submitters : ~ Undecided(s, t)
    BY <2>2, BeforeClaim DEF Unstarted
  <2>5. \A q \in Approvers, v \in Tasks : ApproveClaimed(q, v)' => ApproveClaimed(q, v)
    BY <2>1, QuietFrame DEF QuietApprovers
  <2>6. \A s \in Submitters : ~ Undecided(s, t)' /\ ~ SubmitClaimed(s, t)'
    BY <1>3, <2>4 DEF Unclaimed
  <2>7. \A q \in Approvers : ~ ApproveClaimed(q, t)'
    BY <2>4, <2>5 DEF Unclaimed
  <2> QED BY <1>1, <1>3, <2>1, <2>2, <2>3, <2>4, <2>5, <2>6, <2>7, GrantStep
<1> QED BY <1>4, <1>6, <1>7, <1>8

-----------------------------------------------------------------------------
(* The invariant, and what follows from it                                 *)

\* Nobody has anything at the start.
LEMMA DispatchInit == Init => DispatchInv
<1> SUFFICES ASSUME Init PROVE DispatchInv
  OBVIOUS
<1>1. /\ \A a \in Attempts, t \in Tasks : ~ Launched(a) /\ ~ AttemptAt(a, t)
      /\ \A p \in Approvers, t \in Tasks : ~ ApproveClaimed(p, t)
  BY DEF Init, Launched, AttemptAt, ApproveClaimed, UnusedAttempt, IdleApprove
<1>2. \A s \in Submitters : sub[s].pc = "idle"
  BY DEF Init, IdleSubmit
<1>3. \A s \in Submitters, t \in Tasks : ~ Undecided(s, t) /\ ~ SubmitClaimed(s, t)
  BY <1>2 DEF Undecided, SubmitClaimed
<1>4. \A w \in Workers, t \in Tasks : ~ Held(w, t)
  BY DEF Init, Held, IdleRecovery
<1>5. \A t \in Tasks : ~ Rejected(t)
  BY DEF Init, StoreInit, Rejected
<1>6. ClaimFirst /\ UndecidedRow /\ RejectedRow
  BY <1>1, <1>3, <1>4, <1>5 DEF ClaimFirst, Unclaimed, UndecidedRow, RejectedRow
<1>7. OneRight
  BY <1>1, <1>3 DEF OneRight
<1>8. InitialDispatchOnce /\ GateBeforeDispatch
  <2>1. \A a \in Attempts : ~ Launched(a)
    BY DEF Init, Launched, UnusedAttempt
  <2> QED BY <2>1 DEF InitialDispatchOnce, GateBeforeDispatch
<1> QED BY <1>2, <1>6, <1>7, <1>8 DEF DispatchInv, ClaimNotGated

\* Every step preserves the invariant.
LEMMA DispatchStep == ControlInv /\ DispatchInv /\ [Next]_vars => DispatchInv'
<1> SUFFICES ASSUME ControlInv, DispatchInv, [Next]_vars PROVE DispatchInv'
  OBVIOUS
<1>1. ControlInv'
  BY ControlStep
<1>2. CASE Client \/ Requests
  BY <1>1, <1>2, SubmitKeepsDispatch, ApprovalKeepsDispatch, CancelAndCrashAreQuiet, AttemptStepsAreQuiet, QuietStep
     DEF Client, Requests
<1>3. CASE Dispatching \/ RuntimeSide \/ Crash
  BY <1>1, <1>3, CancelAndCrashAreQuiet, AttemptStepsAreQuiet, QuietStep
<1>4. ASSUME NEW w \in Workers, Recovery(w) PROVE DispatchInv'
  BY <1>1, <1>4, RecoveryKeepsDispatch
<1>5. CASE UNCHANGED vars
  <2>1. UNCHANGED storeVars /\ UNCHANGED sub /\ UNCHANGED apr /\ UNCHANGED rec /\ UNCHANGED att
    BY <1>5 DEF vars
  <2> QED BY <1>1, <2>1, QuietFrame, QuietStep
<1> QED BY <1>2, <1>3, <1>4, <1>5 DEF Next

\* However many requests and approvals race and whatever crashes, a task is handed to
\* a runtime at most once other than by a recovery.
THEOREM DispatchedOnce == Spec => []InitialDispatchOnce
<1>1. DispatchInv => InitialDispatchOnce
  BY DEF DispatchInv
<1> QED BY <1>1, ControlInit, ControlStep, DispatchInit, DispatchStep, PTL DEF Spec

\* A human-gated task reaches a runtime only through ApproveTask.
THEOREM GateHolds == Spec => []GateBeforeDispatch
<1>1. DispatchInv => GateBeforeDispatch
  BY DEF DispatchInv
<1> QED BY <1>1, ControlInit, ControlStep, DispatchInit, DispatchStep, PTL DEF Spec

\* A rejected run is failed for good, and no runtime ever gets it.
THEOREM RejectionHolds == Spec => []RejectedNeverDispatched
<1>1. DispatchInv => RejectedNeverDispatched
  BY DEF DispatchInv, ClaimFirst, RejectedRow, Unclaimed, AttemptAt, Rejected, RejectedNeverDispatched
<1> QED BY <1>1, ControlInit, ControlStep, DispatchInit, DispatchStep, PTL DEF Spec
-----------------------------------------------------------------------------
(* The coordinator implements RunLifecycle                                 *)
(*                                                                         *)
(* A step moves the phase of one run, or hands one run to a runtime for    *)
(* the first time, or shows a client nothing.                              *)

Phase == [t \in Tasks |-> PhaseOf(status[t])]
Started == {t \in Tasks : \E a \in Attempts : att[a].task = t}

LifecycleStep == Lifecycle!Next \/ UNCHANGED <<Phase, Started>>

SameStarted == Started' = Started

\* The phase that each status stands for.
LEMMA PhaseTable ==
  /\ PhaseOf("absent") = "absent" /\ PhaseOf("pending") = "queued"
  /\ PhaseOf("approval_required") = "awaiting_approval"
  /\ PhaseOf("dispatched") = "active" /\ PhaseOf("checkpointed") = "active" /\ PhaseOf("recovering") = "active"
  /\ PhaseOf("completed") = "succeeded" /\ PhaseOf("failed") = "failed" /\ PhaseOf("canceled") = "canceled"
  BY DEF PhaseOf

\* Attempts that keep their tasks start nothing.
LEMMA KeptTasks ==
  ASSUME \A a \in Attempts : att'[a].task = att[a].task PROVE SameStarted
  BY DEF SameStarted, Started

\* A row that moves to another status moves the phase of its run, and no other.
LEMMA PhaseMoves ==
  ASSUME StoreTypeOK, NEW t \in Tasks, NEW st \in Statuses, status' = [status EXCEPT ![t] = st]
  PROVE  Phase' = [Phase EXCEPT ![t] = PhaseOf(st)] /\ Phase[t] = PhaseOf(status[t])
  BY DEF Phase, StoreTypeOK

\* One row that moves, with what the move takes, is one step of RunLifecycle.
LEMMA MoveStep ==
  ASSUME StoreTypeOK, SameStarted, NEW t \in Tasks, NEW st \in Statuses, status' = [status EXCEPT ![t] = st],
         \/ PhaseOf(st) = PhaseOf(status[t])
         \/ status[t] = "absent" /\ st = "pending"
         \/ status[t] = "pending" /\ st = "approval_required" /\ t \in HumanGated
         \/ status[t] = "pending" /\ st = "dispatched" /\ t \notin HumanGated
         \/ status[t] = "approval_required" /\ st \in {"dispatched", "failed"}
         \/ TaskAllowsRuntimeMutation(status[t]) /\ st = "completed" /\ t \in Started
         \/ TaskAllowsRuntimeMutation(status[t]) /\ st = "failed"
         \/ TaskAllowsCancellation(status[t]) /\ st = "canceled"
  PROVE  LifecycleStep
<1>1. Phase' = [Phase EXCEPT ![t] = PhaseOf(st)] /\ Phase[t] = PhaseOf(status[t])
  BY PhaseMoves
<1>2. CASE PhaseOf(st) = PhaseOf(status[t])
  <2>1. Phase' = Phase
    BY <1>1, <1>2 DEF Phase
  <2> QED BY <2>1 DEF LifecycleStep, SameStarted
<1>3. CASE status[t] = "absent" /\ st = "pending"
  <2>1. Phase[t] \in {"absent"} /\ PhaseOf(st) = "queued"
    BY <1>1, <1>3, PhaseTable
  <2>2. Lifecycle!Move(t, {"absent"}, "queued")
    BY <1>1, <2>1 DEF Lifecycle!Move, SameStarted, Phase, Started
  <2> QED BY <2>2 DEF Lifecycle!Submit, Lifecycle!Next, LifecycleStep
<1>4. CASE status[t] = "pending" /\ st = "approval_required" /\ t \in HumanGated
  <2>1. Phase[t] \in {"queued"} /\ PhaseOf(st) = "awaiting_approval"
    BY <1>1, <1>4, PhaseTable
  <2>2. Lifecycle!Move(t, {"queued"}, "awaiting_approval")
    BY <1>1, <2>1 DEF Lifecycle!Move, SameStarted, Phase, Started
  <2> QED BY <1>4, <2>2 DEF Lifecycle!Pause, Lifecycle!Next, LifecycleStep
<1>5. CASE status[t] = "pending" /\ st = "dispatched" /\ t \notin HumanGated
  <2>1. Phase[t] \in {"queued"} /\ PhaseOf(st) = "active"
    BY <1>1, <1>5, PhaseTable
  <2>2. Lifecycle!Move(t, {"queued"}, "active")
    BY <1>1, <2>1 DEF Lifecycle!Move, SameStarted, Phase, Started
  <2> QED BY <1>5, <2>2 DEF Lifecycle!Admit, Lifecycle!Next, LifecycleStep
<1>6. CASE status[t] = "approval_required" /\ st = "dispatched"
  <2>1. Phase[t] \in {"awaiting_approval"} /\ PhaseOf(st) = "active"
    BY <1>1, <1>6, PhaseTable
  <2>2. Lifecycle!Move(t, {"awaiting_approval"}, "active")
    BY <1>1, <2>1 DEF Lifecycle!Move, SameStarted, Phase, Started
  <2> QED BY <2>2 DEF Lifecycle!Approve, Lifecycle!Next, LifecycleStep
<1>7. CASE status[t] = "approval_required" /\ st = "failed"
  <2>1. Phase[t] \in {"awaiting_approval"} /\ PhaseOf(st) = "failed"
    BY <1>1, <1>7, PhaseTable
  <2>2. Lifecycle!Move(t, {"awaiting_approval"}, "failed")
    BY <1>1, <2>1 DEF Lifecycle!Move, SameStarted, Phase, Started
  <2> QED BY <2>2 DEF Lifecycle!Reject, Lifecycle!Next, LifecycleStep
<1>8. CASE TaskAllowsRuntimeMutation(status[t]) /\ st = "completed" /\ t \in Started
  <2>1. Phase[t] \in {"active"} /\ PhaseOf(st) = "succeeded"
    BY <1>1, <1>8, PhaseTable DEF TaskAllowsRuntimeMutation
  <2>2. Lifecycle!Move(t, {"active"}, "succeeded")
    BY <1>1, <2>1 DEF Lifecycle!Move, SameStarted, Phase, Started
  <2> QED BY <1>8, <2>2 DEF Lifecycle!Succeed, Lifecycle!Next, LifecycleStep, Started
<1>9. CASE TaskAllowsRuntimeMutation(status[t]) /\ st = "failed"
  <2>1. Phase[t] \in {"active"} /\ PhaseOf(st) = "failed"
    BY <1>1, <1>9, PhaseTable DEF TaskAllowsRuntimeMutation
  <2>2. Lifecycle!Move(t, {"active"}, "failed")
    BY <1>1, <2>1 DEF Lifecycle!Move, SameStarted, Phase, Started
  <2> QED BY <2>2 DEF Lifecycle!Fail, Lifecycle!Next, LifecycleStep
<1>10. CASE TaskAllowsCancellation(status[t]) /\ st = "canceled"
  <2>1. Phase[t] \in {"queued", "active"} /\ PhaseOf(st) = "canceled"
    BY <1>1, <1>10, PhaseTable DEF TaskAllowsCancellation
  <2>2. Lifecycle!Move(t, {"queued", "active"}, "canceled")
    BY <1>1, <2>1 DEF Lifecycle!Move, SameStarted, Phase, Started
  <2> QED BY <2>2 DEF Lifecycle!Cancel, Lifecycle!Next, LifecycleStep
<1> QED BY <1>2, <1>3, <1>4, <1>5, <1>6, <1>7, <1>8, <1>9, <1>10

\* What each call of the store shows a client.
LEMMA CallsAreMoves ==
  ASSUME StoreTypeOK, SameStarted, NEW t \in Tasks,
         \/ UNCHANGED storeVars
         \/ MarkFailedOrRejected(t) \/ MarkCanceled(t) \/ CreateTask(t) \/ MarkApprovalRejected(t)
         \/ MarkCompletedOrRejected(t) /\ t \in Started
         \/ \E cp \in Checkpoints : SaveCheckpointOrRejected(t, cp)
         \/ \E r : MarkDispatched(t, r) /\ (status[t] = "pending" => t \notin HumanGated)
         \/ \E r : MarkApprovedDispatched(t, r)
         \/ MarkApprovalRequired(t) /\ status[t] = "pending" /\ t \in HumanGated
         \/ CountRecoveryAttempt(t) \/ EnqueueDLQ(t)
         \/ WriteEffectJournalPending(t) \/ MarkEffectJournalCommitted(t)
  PROVE  LifecycleStep
<1>1. CASE UNCHANGED storeVars \/ UNCHANGED rowVars
  BY <1>1 DEF storeVars, rowVars, Phase, LifecycleStep, SameStarted
<1>2. CASE MarkFailedOrRejected(t) \/ (MarkCompletedOrRejected(t) /\ t \in Started)
  BY <1>1, <1>2, MoveStep
     DEF MarkFailedOrRejected, MarkFailed, MarkCompletedOrRejected, MarkCompleted, Statuses
<1>3. CASE MarkCanceled(t) \/ CreateTask(t)
  BY <1>3, MoveStep DEF MarkCanceled, CreateTask, Statuses
<1>4. CASE MarkApprovalRejected(t) \/ \E r : MarkApprovedDispatched(t, r)
  BY <1>4, MoveStep DEF MarkApprovalRejected, MarkApprovedDispatched, Statuses
<1>5. ASSUME NEW cp \in Checkpoints, SaveCheckpointOrRejected(t, cp) PROVE LifecycleStep
  BY <1>1, <1>5, MoveStep, PhaseTable
     DEF SaveCheckpointOrRejected, SaveCheckpoint, CheckpointAccepted, TaskAllowsRuntimeMutation, Statuses
<1>6. ASSUME NEW r, MarkDispatched(t, r), status[t] = "pending" => t \notin HumanGated PROVE LifecycleStep
  BY <1>6, MoveStep, PhaseTable DEF MarkDispatched, TaskAllowsDispatch, Statuses
<1>7. CASE MarkApprovalRequired(t) /\ status[t] = "pending" /\ t \in HumanGated
  BY <1>7, MoveStep DEF MarkApprovalRequired, Statuses
<1>8. CASE CountRecoveryAttempt(t) \/ EnqueueDLQ(t) \/ WriteEffectJournalPending(t) \/ MarkEffectJournalCommitted(t)
  BY <1>1, <1>8 DEF CountRecoveryAttempt, EnqueueDLQ, WriteEffectJournalPending, MarkEffectJournalCommitted
<1> QED BY <1>1, <1>2, <1>3, <1>4, <1>5, <1>6, <1>7, <1>8

\* A dispatch of a claimed run starts it, or adds an attempt to a started one.
LEMMA LaunchIsStart ==
  ASSUME ControlInv, DispatchInv, NEW t \in Tasks, NEW r, NEW rid, NEW cp, NEW origin,
         DispatchAsync(t, r, rid, cp, origin), UNCHANGED storeVars, ~ Unclaimed(t)
  PROVE  LifecycleStep
<1>1. PICK b \in Attempts : TakesAttempt(b, t, origin)
  BY OneLaunch
<1>2. Started' = Started \cup {t}
  BY <1>1, StoreConstants DEF TakesAttempt, Started
<1>3. Phase' = Phase
  BY DEF Phase, storeVars
<1>4. Phase[t] \in {"active", "succeeded", "failed", "canceled"}
  <2>1. status[t] \in {"dispatched", "checkpointed", "recovering", "completed", "failed", "canceled"}
    BY DEF DispatchInv, ClaimFirst, Unstarted, ControlInv, TypeOK, StoreTypeOK, Statuses
  <2> QED BY <2>1, PhaseTable DEF Phase
<1>5. CASE t \in Started
  BY <1>2, <1>3, <1>5 DEF LifecycleStep
<1>6. CASE t \notin Started
  <2>1. Lifecycle!Start(t)
    BY <1>2, <1>3, <1>4, <1>6 DEF Lifecycle!Start, Phase, Started
  <2> QED BY <2>1 DEF LifecycleStep, Lifecycle!Next
<1> QED BY <1>5, <1>6

\* Submission, up to the dispatch.
LEMMA SubmitIsLifecycle ==
  ASSUME ControlInv, DispatchInv, NEW s \in Submitters,
         \/ \E t \in Tasks : SubmitCreate(s, t)
         \/ SubmitSelect(s) \/ SubmitDemo(s) \/ SubmitClaim(s) \/ SubmitDispatch(s)
  PROVE  LifecycleStep
<1>0. StoreTypeOK /\ SubmitOK
  BY DEF ControlInv, TypeOK, ProcessOK
<1>1. ASSUME UNCHANGED att PROVE SameStarted
  BY <1>1, KeptTasks
<1>2. ASSUME NEW t \in Tasks, SubmitCreate(s, t) PROVE LifecycleStep
  BY <1>0, <1>1, <1>2, CallsAreMoves DEF SubmitCreate
<1>3. CASE SubmitSelect(s) \/ SubmitDemo(s)
  <2>1. sub[s].task \in Tasks /\ UNCHANGED att /\ (UNCHANGED storeVars \/ MarkFailedOrRejected(sub[s].task))
    BY <1>0, <1>3 DEF SubmitSelect, SubmitDemo, SubmitOK
  <2> QED BY <1>0, <1>1, <2>1, CallsAreMoves
<1>4. CASE SubmitClaim(s)
  <2>0. PICK t \in Tasks : t = sub[s].task
    BY <1>0, <1>4 DEF SubmitClaim, SubmitOK
  <2>1. status[t] \in {"pending", "canceled"} /\ UNCHANGED att
    BY <1>4, <2>0 DEF SubmitClaim, DispatchInv, UndecidedRow, Undecided
  <2>2. \/ UNCHANGED storeVars
        \/ MarkApprovalRequired(t) /\ t \in HumanGated
        \/ MarkDispatched(t, sub[s].rt) /\ t \notin HumanGated
    BY <1>4, <2>0 DEF SubmitClaim, EvaluateActionPolicy
  <2>3. MarkApprovalRequired(t) => status[t] = "pending"
    BY <2>1 DEF MarkApprovalRequired, TaskAllowsDispatch
  <2> QED BY <1>0, <1>1, <2>1, <2>2, <2>3, CallsAreMoves
<1>5. CASE SubmitDispatch(s)
  <2>0. PICK t \in Tasks : t = sub[s].task
    BY <1>0, <1>5 DEF SubmitDispatch, SubmitOK
  <2>1. ~ Unclaimed(t)
    BY <1>5, <2>0 DEF SubmitDispatch, Unclaimed, SubmitClaimed
  <2>2. \/ DispatchAsync(t, sub[s].rt, sub[s].rt, Nil, "submit") /\ UNCHANGED storeVars
        \/ MarkFailedOrRejected(t) /\ UNCHANGED att
    BY <1>5, <2>0 DEF SubmitDispatch
  <2> QED BY <1>0, <1>1, <2>1, <2>2, CallsAreMoves, LaunchIsStart
<1> QED BY <1>2, <1>3, <1>4, <1>5

\* Approval, rejection and cancellation.
LEMMA ApprovalIsLifecycle ==
  ASSUME ControlInv, DispatchInv,
         \/ \E p \in Approvers : (\E t \in Tasks : ApproveSelect(p, t)) \/ ApproveClaim(p) \/ ApproveDispatch(p)
         \/ \E t \in Tasks : RejectTask(t) \/ CancelRead(t) \/ CancelApply(t)
  PROVE  LifecycleStep
<1>0. StoreTypeOK /\ ApproveOK /\ att \in [Attempts -> AttemptRecords]
  BY DEF ControlInv, TypeOK, ProcessOK, ProcessTypeOK
<1>1. ASSUME UNCHANGED att PROVE SameStarted
  BY <1>1, KeptTasks
<1>2. ASSUME NEW p \in Approvers, NEW t \in Tasks, ApproveSelect(p, t) PROVE LifecycleStep
  BY <1>0, <1>1, <1>2, CallsAreMoves DEF ApproveSelect
<1>3. ASSUME NEW p \in Approvers, ApproveClaim(p) PROVE LifecycleStep
  BY <1>0, <1>1, <1>3, CallsAreMoves DEF ApproveClaim, ApproveOK
<1>4. ASSUME NEW p \in Approvers, ApproveDispatch(p) PROVE LifecycleStep
  <2>0. PICK t \in Tasks : t = apr[p].task
    BY <1>0, <1>4 DEF ApproveDispatch, ApproveOK
  <2>1. ~ Unclaimed(t)
    BY <1>4, <2>0 DEF ApproveDispatch, Unclaimed, ApproveClaimed
  <2>2. \/ DispatchAsync(t, apr[p].rt, apr[p].rt, Nil, "approve") /\ UNCHANGED storeVars
        \/ MarkFailedOrRejected(t) /\ UNCHANGED att
    BY <1>4, <2>0 DEF ApproveDispatch
  <2> QED BY <1>0, <1>1, <2>1, <2>2, CallsAreMoves, LaunchIsStart
<1>5. ASSUME NEW t \in Tasks, RejectTask(t) \/ CancelRead(t) PROVE LifecycleStep
  BY <1>0, <1>1, <1>5, CallsAreMoves DEF RejectTask, CancelRead
<1>6. ASSUME NEW t \in Tasks, CancelApply(t) PROVE LifecycleStep
  <2>1. ASSUME NEW a \in Attempts PROVE att'[a] = att[a] \/ att'[a] = [att[a] EXCEPT !.exec = "stopped"]
    BY <1>6 DEF CancelApply
  <2>2. ASSUME NEW a \in Attempts PROVE att'[a].task = att[a].task
    <3>1. att[a] \in AttemptRecords
      BY <1>0
    <3> QED BY <2>1, <3>1 DEF AttemptRecords
  <2>3. SameStarted
    BY <2>2, KeptTasks
  <2> QED BY <1>0, <1>6, <2>3, CallsAreMoves DEF CancelApply
<1> QED BY <1>2, <1>3, <1>4, <1>5, <1>6

\* The goroutine that talks to the runtime, the runtime, callbacks and heartbeats:
\* who reports a result has an attempt.
LEMMA AttemptIsLifecycle ==
  ASSUME ControlInv, Dispatching \/ RuntimeSide \/ (\E h \in Handlers : CallbackApply(h)) PROVE LifecycleStep
<1>0. StoreTypeOK /\ ProcessOK /\ att \in [Attempts -> AttemptRecords]
  BY DEF ControlInv, TypeOK, ProcessTypeOK
<1>1. SameStarted
  <2>1. ASSUME NEW a \in Attempts,
               \/ \E pc : att' = [att EXCEPT ![a].pc = pc]
               \/ att' = [att EXCEPT ![a].pc = "sent", ![a].exec = "running"]
               \/ \E end : att' = [att EXCEPT ![a].exec = end]
               \/ \E n : att' = [att EXCEPT ![a].pos = n] \/ att' = [att EXCEPT ![a].sent = n]
        PROVE  SameStarted
    <3>1. \A b \in Attempts : att'[b].task = att[b].task
      BY <1>0, <2>1 DEF AttemptRecords
    <3> QED BY <3>1, KeptTasks
  <2>2. ASSUME UNCHANGED att PROVE SameStarted
    BY <2>2, KeptTasks
  <2>3. CASE Dispatching
    BY <2>1, <2>3 DEF Dispatching, DispatchPrepare, DispatchPost, DispatchNoReply, DispatchReply,
                      DispatchArtifacts, DispatchFinish
  <2>4. CASE RuntimeSide
    BY <2>1, <2>2, <2>4 DEF RuntimeSide, RuntimeStep, RuntimeEnd, CheckpointLost, CallbackRead, Heartbeat
  <2>5. CASE \E h \in Handlers : CallbackApply(h)
    BY <2>2, <2>5 DEF CallbackApply
  <2> QED BY <2>3, <2>4, <2>5
<1>2. CASE RuntimeSide
  <2>1. UNCHANGED storeVars
    BY <1>2 DEF RuntimeSide, RuntimeStep, RuntimeEnd, CheckpointLost, CallbackRead, Heartbeat
  <2> QED BY <1>1, <2>1 DEF storeVars, Phase, LifecycleStep, SameStarted
<1>3. ASSUME NEW a \in Attempts,
             \/ DispatchPrepare(a) \/ DispatchPost(a) \/ DispatchNoReply(a)
             \/ DispatchReply(a) \/ DispatchArtifacts(a) \/ DispatchFinish(a)
      PROVE  LifecycleStep
  <2>1. att[a].task \in Tasks /\ CheckpointsOf(a) \subseteq Checkpoints
    BY <1>0, <1>3, PushedCheckpointType
       DEF ProcessOK, AttemptOK, DispatchPrepare, DispatchPost, DispatchNoReply, DispatchReply,
           DispatchArtifacts, DispatchFinish, ControlInv, TypeOK
  <2>2. att[a].task \in Started
    BY <2>1 DEF Started
  <2> QED
    BY <1>0, <1>1, <1>3, <2>1, <2>2, CallsAreMoves
       DEF DispatchPrepare, DispatchPost, DispatchNoReply, DispatchReply, DispatchArtifacts, DispatchFinish
<1>4. ASSUME NEW h \in Handlers, CallbackApply(h) PROVE LifecycleStep
  <2>1. PICK t \in Tasks : t = att[cb[h].att].task /\ cb[h].att \in Attempts
    BY <1>0, <1>4 DEF CallbackApply, ProcessOK, CallbackOK
  <2>2. t \in Started
    BY <2>1 DEF Started
  <2>3. \/ \E cp \in Checkpoints : SaveCheckpointOrRejected(t, cp)
        \/ MarkCompletedOrRejected(t) \/ MarkFailedOrRejected(t)
    BY <1>0, <1>4, <2>1 DEF CallbackApply, ProcessOK, CallbackOK
  <2> QED BY <1>0, <1>1, <2>2, <2>3, CallsAreMoves
<1> QED BY <1>2, <1>3, <1>4 DEF Dispatching

\* A recovery pass, and a restart.
LEMMA RecoveryIsLifecycle ==
  ASSUME ControlInv, DispatchInv, Crash \/ \E w \in Workers : Recovery(w) PROVE LifecycleStep
<1>0. StoreTypeOK /\ RecoveryOK /\ att \in [Attempts -> AttemptRecords]
  BY DEF ControlInv, TypeOK, ProcessOK, ProcessTypeOK
<1>1. ASSUME UNCHANGED att PROVE SameStarted
  BY <1>1, KeptTasks
<1>2. ASSUME SameStarted, UNCHANGED storeVars PROVE LifecycleStep
  BY <1>2 DEF storeVars, Phase, LifecycleStep, SameStarted
<1>3. CASE Crash
  <2>1. ASSUME NEW a \in Attempts PROVE att'[a] = att[a] \/ att'[a] = [att[a] EXCEPT !.pc = "done"]
    BY <1>3 DEF Crash
  <2>2. ASSUME NEW a \in Attempts PROVE att'[a].task = att[a].task
    <3>1. att[a] \in AttemptRecords
      BY <1>0
    <3> QED BY <2>1, <3>1 DEF AttemptRecords
  <2> QED BY <1>2, <1>3, <2>2, KeptTasks DEF Crash
<1>4. ASSUME NEW w \in Workers, RecoverStart(w) PROVE LifecycleStep
  <2>1. UNCHANGED att \/ \E a \in Attempts : att' = [att EXCEPT ![a].pc = "done"]
    BY <1>4 DEF RecoverStart
  <2>2. \A a \in Attempts : att'[a].task = att[a].task
    BY <1>0, <2>1 DEF AttemptRecords
  <2> QED BY <1>2, <1>4, <2>2, KeptTasks DEF RecoverStart
<1>5. ASSUME NEW w \in Workers, RecoverMark(w) PROVE LifecycleStep
  <2>1. SameStarted
    BY <1>1, <1>5 DEF RecoverMark
  <2>2. ASSUME MarkRecovering(rec[w].rt) PROVE Phase' = Phase
    <3>1. \A t \in Tasks : PhaseOf(status'[t]) = PhaseOf(status[t])
      BY <2>2, PhaseTable DEF MarkRecovering
    <3> QED BY <3>1 DEF Phase
  <2> QED BY <1>2, <1>5, <2>1, <2>2 DEF RecoverMark, LifecycleStep, SameStarted
<1>6. ASSUME NEW w \in Workers,
             \/ RecoverLoad(w) \/ RecoverCheck(w) \/ RecoverJournal(w) \/ RecoverSelect(w)
      PROVE  LifecycleStep
  BY <1>1, <1>2, <1>6 DEF RecoverLoad, RecoverCheck, RecoverJournal, RecoverSelect
<1>7. ASSUME NEW w \in Workers, RecoverCount(w) \/ RecoverDLQ(w) \/ RecoverFail(w) PROVE LifecycleStep
  <2>1. rec[w].task \in Tasks /\ UNCHANGED att
    BY <1>0, <1>7 DEF RecoverCount, RecoverDLQ, RecoverFail, RecoveryOK
  <2> QED BY <1>0, <1>1, <1>7, <2>1, CallsAreMoves DEF RecoverCount, RecoverDLQ, RecoverFail
<1>8. ASSUME NEW w \in Workers, RecoverClaim(w) PROVE LifecycleStep
  <2>1. PICK t \in Tasks : t = rec[w].task
    BY <1>0, <1>8 DEF RecoverClaim, RecoveryOK
  <2>2. status[t] # "pending" /\ UNCHANGED att
    BY <1>8, <2>1 DEF RecoverClaim, DispatchInv, ClaimFirst, Unstarted, Unclaimed, Held
  <2> QED BY <1>0, <1>1, <1>8, <2>1, <2>2, CallsAreMoves DEF RecoverClaim
<1>9. ASSUME NEW w \in Workers, RecoverResume(w) PROVE LifecycleStep
  <2>1. PICK t \in Tasks : t = rec[w].task
    BY <1>0, <1>9 DEF RecoverResume, RecoveryOK
  <2>2. ~ Unclaimed(t)
    BY <1>9, <2>1 DEF RecoverResume, Unclaimed, Held
  <2>3. \/ DispatchAsync(t, rec[w].target, runtimeID[t], rec[w].cp, "recover") /\ UNCHANGED storeVars
        \/ (MarkFailedOrRejected(t) \/ UNCHANGED storeVars) /\ UNCHANGED att
    BY <1>9, <2>1 DEF RecoverResume
  <2> QED BY <1>0, <1>1, <2>2, <2>3, CallsAreMoves, LaunchIsStart
<1> QED BY <1>3, <1>4, <1>5, <1>6, <1>7, <1>8, <1>9 DEF Recovery, RecoveryStep

\* Every step of the coordinator is a step of RunLifecycle, or shows nothing.
LEMMA EveryStepIsLifecycle == ControlInv /\ DispatchInv /\ [Next]_vars => LifecycleStep
<1> SUFFICES ASSUME ControlInv, DispatchInv, [Next]_vars PROVE LifecycleStep
  OBVIOUS
<1>1. CASE UNCHANGED vars
  BY <1>1 DEF vars, storeVars, LifecycleStep, Phase, Started
<1>2. CASE Client \/ Requests
  BY <1>2, SubmitIsLifecycle, ApprovalIsLifecycle, AttemptIsLifecycle DEF Client, Requests
<1> QED BY <1>1, <1>2, AttemptIsLifecycle, RecoveryIsLifecycle DEF Next

\* What a client sees of a run only makes the moves of RunLifecycle, for every number
\* of requests, approvals, callbacks, recovery passes, runtimes and crashes: a gated
\* run is active only after its approval, it is started once and never before it is
\* admitted, it succeeds only after it was started, and a terminal phase stays.
THEOREM ImplementsLifecycle == Spec => LifecycleSpec
<1>1. Init => Lifecycle!Init
  <2> SUFFICES ASSUME Init PROVE Lifecycle!Init
    OBVIOUS
  <2>1. \A t \in Tasks : PhaseOf(status[t]) = "absent"
    BY PhaseTable DEF Init, StoreInit
  <2>2. \A a \in Attempts : att[a].task = Nil
    BY DEF Init, UnusedAttempt
  <2> QED BY <2>1, <2>2, StoreConstants DEF Lifecycle!Init
<1>2. LifecycleStep => [Lifecycle!Next]_<<Phase, Started>>
  BY DEF LifecycleStep
<1> QED
  BY <1>1, <1>2, ControlInit, ControlStep, DispatchInit, DispatchStep, EveryStepIsLifecycle, PTL
     DEF Spec, LifecycleSpec, Lifecycle!Spec, Phase, Started
=============================================================================
