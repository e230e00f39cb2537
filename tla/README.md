# Overture: a TLA+ model of runs, evidence and the control plane

Overture turns an approved *action* into a *run* (a row of `task_records`) and a
*proof*. The hard part is the run: several goroutines, several runtimes and a
database that outlives all of them have to agree on who may execute what. Around it
are the components that say what may run, who may report on it and what is proved
afterwards. This directory models both, checks them with TLC and proves their main
safety properties with TLAPS.

Contents: the inventory of the system, the modules and how they correspond to the
code, the runs, the proofs, what the code does not ensure, and what is not modelled.
Line references are relative to the repository's root.

## The system

| Part | State | Operations | Interacts with |
|---|---|---|---|
| Task and checkpoint store (`coordinator/checkpoint_store.go`) | rows of `task_records`, `wal_checkpoints`, `execution_dlq`, `effect_journal` | one conditional statement or transaction each: create, claim, checkpoint, complete, fail, cancel, mark recovering, approval moves | everything below calls it |
| Submission (`Submit` in `coordinator/task_coordinator.go`) | a goroutine per request | insert by idempotency key, select a runtime, decide, claim, dispatch | store, policy, dispatch |
| Policy (`coordinator/execution_governance.go`) | none | approval gate, irreversible forward resume, handoff decision | submission, recovery |
| Approval (`coordinator/task_approval.go`) | a goroutine per request | approve, reject | store, dispatch |
| Dispatch (`dispatchToRuntime`) | a goroutine per dispatch | journal, HTTP call, reply, artifacts, final status | store, runtime, recovery |
| Runtimes (outside the repository) | an execution and its write-ahead log | execute a step, push a checkpoint or a result, die | callbacks, dispatch |
| Callbacks (`api/routes_tasks.go`) | a goroutine per call | checkpoint, complete, failed | store |
| Recovery (`recoverRuntime`) | a goroutine per pass | mark, read, count, decide, claim, redispatch, fail | store, policy, dispatch |
| Cancellation (`handleTaskCancel`) | a goroutine per call | read, cancel, signal | store, runtime |
| Deadline reaper (`reapExpiredDeadlines`) | a ticker | fail expired tasks | store |
| Runtime registry (`api/routes_runtime.go`) | `runtime_instances`, its pending commands | register, heartbeat, deregister; queue, fetch, acknowledge and clear commands | recovery, selection |
| Callback envelopes (`api/runtime_callback_signature.go`) | `runtime_callback_nonces` | validate, reserve a nonce, clean up | callbacks |
| Proof state (`coordinator/checkpoint_store.go`, migration 033) | proof columns, receipts | synchronise, trigger, verify | dispatch |
| Operator reconciliation (`api/operator_reconciliation.go`) | `operator_reconciliation_events` | observe an unknown effect, append a decision | callbacks, dispatch |
| Action definitions, contracts, bindings (`api/routes_actions.go`, `api/routes_contracts.go`) | their tables, idempotency records | create, patch, archive; synchronise; bind; run bound | submission |
| Evidence (`api/routes_evidence.go`, `api/igris_run_proof.go`) | batches, events, links | submit a batch, link it to a run | SDK, proof |
| Inference selection (`internal/runtime_selector.go`) | a breaker per runtime, polled health | forward with fallback | runtimes |
| Python SDK (`sdk/python/src/igris`) | the local journal | guard a call, upload the journal | evidence |

What makes it hard: between any two statements of a goroutine another goroutine, a
runtime or a crash may run, and every value read may be stale when it is used.
Requests, checkpoints and replies are lost, late or out of order. A runtime that is
taken for dead may only be slow. `PROJECT.json` lists these hazards at the lines
where they bite, with the properties that cover them.

## The modules

`TaskStore` has the rows as variables and one action per statement. An action is
the case in which the statement's `WHERE` matches; callers add the case in which it
does not. `StoreSpec` lets anybody call anything at any time.

`RecoveryPolicy` has the pure functions: the cumulative checkpoint of a recovery
(`BuildCumulativeRecoveryCheckpoint`), the approval gate and the handoff decision.

`Coordinator` composes them with the processes:

| Variable | Code | Steps |
|---|---|---|
| `sub` | `Submit`, `SubmitDemoSimulatedFailure` | `SubmitCreate`, `SubmitSelect`, `SubmitClaim`, `SubmitDispatch`, `SubmitDemo` |
| `apr` | `ApproveTask` | `ApproveSelect`, `ApproveClaim`, `ApproveDispatch` |
| `can` | `handleTaskCancel` | `CancelRead`, `CancelApply` |
| `cb` | the callback handlers | `CallbackRead`, `CallbackApply` |
| `att` | `dispatchToRuntime` (`pc`) and the runtime's execution (`exec`, `pos`, `sent`) | `Dispatch...`, `RuntimeStep`, `RuntimeEnd`, `CheckpointLost` |
| `rec` | `recoverRuntime` | `Recover...`, one step for each access to the store |
| `health` | `runtime_instances` | `Heartbeat`, `RecoverStart` |
| `crashes` | the process | `Crash`: the goroutines are gone, rows and executions are not |

A process is a record with a `pc` and the values it has read, and its steps are its
accesses to the store. What a process read in one step it uses in a later one,
possibly stale. An *attempt* is one dispatch; its execution goes on when the
goroutine has given up on it or the coordinator has crashed.

What is abstracted:

- A WAL entry is the step and the attempt that executed it. Two executions of one
  step write different entries, as their `EntryID`s differ. A digest is the set of
  entries it covers.
- Time is a choice: any active runtime may be found stale by any query
  (`MayBeFresh`, `RecoverStart`), so no property depends on the length of a timeout.
- With `StoreFaults` every read and write of the store may fail, and the code takes
  its error path.
- Inputs, permission envelopes, signatures and audit rows appear only through the
  branches their failure takes.

`RunLifecycle` is the abstract specification: what a client may rely on about one
run. `Coordinator!LifecycleSpec` maps the durable statuses to its phases.

`DeadlineReaper` is the reaper over the rows of `TaskStore`. `MCCoordinator` and
`MCDeadlineReaper` give the model values for TLC.

The components around a run have a module each. Again a request is a record that
moves from one access to the store to the next, and a transaction with its
constraints is one step where the database makes it one.

| Module | Code | Its processes and faults |
|---|---|---|
| `Evidence` | `handleEvidenceBatchSubmit`, `verifyEvidenceEvents`, `persistEvidenceBatch` | concurrent uploads of segments in any order, altered ones included; a request may stop at any step |
| `EvidenceLinks` | `insertEvidenceLinkExclusive` and its callers | concurrent link requests for several runs |
| `Reconciliation` | the typed failure, `handleActionReconciliationAppend`, the trigger of migration 072 | operators that race, repeat and disagree |
| `CallbackDelivery` | the envelope checks, `reserveRuntimeCallbackNonce`, the cleanup | duplicated and late deliveries, a handler that stalls between its checks |
| `ProofState` | `SyncTaskProofState`, `UpdateTaskProofStateByExecutionID`, the trigger of migration 033 | two executions of a run, saves, reads and verifications at once, a lost receipt |
| `ContractSync` | `performIdempotentContractSync`, `performContractSyncInTx` | concurrent and repeated requests, rollbacks |
| `BoundRuns` | definitions, bindings, `buildBoundActionRunRequest`, the fingerprint in `Submit` | edits between the read, the binding and the run |
| `RuntimeRegistry` | `Register`, `Deregister`, the command queue | racing registrations; delayed and repeated acknowledgements |
| `RuntimeSelector` | `ForwardExecution`, `CircuitBreaker`, the health poller | overlapping calls that fail late |
| `GuardJournal` | `guard`, `append_event` and the reading of the journal's tail | torn writes and failed appends |
| `JournalSync` | `sync_journal`, `_resume_after_head`, over `GuardJournal` | a journal that grows, a second uploader, lost and delayed answers |

`JournalSync` contains the endpoint only by its answers: accepted, replayed by
content, head mismatch, rejected. The endpoint itself is `Evidence`.

`MCControlPlane` composes these modules. They share no variable, so every behaviour
of the composition is an interleaving of behaviours of the parts, and a state
property of one part depends on that part's steps alone. The variable `focus`,
chosen initially, names the part that moves; the others stay in one fixed initial
state. Nothing is lost by it for these properties, and the state spaces add up
instead of multiplying.

Operators whose comment starts with "Mistake" are wrong variants of the definition
that follows them. Each property was checked to fail when such a variant replaces
the definition, so each depends on what the code does there.

## The runs

| Run | Question | Instance |
|---|---|---|
| `requests` | Can racing requests, approvals, a rejection, a cancel, a recovery and a crash start a run twice, or around its gate? | one gated run, two submitters, two approvers |
| `handover` | Is a run that is handed over complete and safe, with the first runtime's messages late, lost or reordered? | a run of two steps, the last one irreversible, or a streaming run; two runtimes |
| `concurrent_recovery` | Do the loop and a failed dispatch, recovering the same run at once, keep the budget and the run? | one run, two passes, budget 1, three attempts |
| `faults` | Is what recovery hands over still right when any store call fails and the process crashes? | as `handover`, one crash; or a demo run |
| `recovery_liveness` | Does every recovering run leave that status? | two runs on one runtime |
| `control_plane` | Does each component around a run keep its promise under concurrent, repeated, late and abandoned requests? | two of every process that may race |

The properties:

- `InitialDispatchOnce`, `GateBeforeDispatch`, `RejectedNeverDispatched`: who may
  start a run, and how often.
- `LifecycleSpec`: the coordinator implements `RunLifecycle`.
- `NewestRowIsWatermark`, `WatermarkNeverRegresses`, `TerminalIsFinal`: the rows,
  whatever arrives late.
- `ResumeSeedsWholePrefix`: a replacement runtime starts from exactly one entry per
  step, although checkpoints are deltas and may be lost.
- `CompletedMeansExecuted`: a completed run had every step executed by somebody.
- `RecoveryAheadOfIrreversible`, `HandoffDecisionIsCurrent`: a handover starts
  before every irreversible step, also when the row is looked at again at the claim.
- `StreamingNeverResumed`: a streaming run is not handed over.
- `RecoveryBudget`: no more redispatches than `MaxRecoveryAttempts`.
- `RecoveringIsOwned`, `RecoveringResolved`: no run is forgotten while recovering.

Of `control_plane`:

- `VerifiedBatchesFormOneChain`, `OutcomesAnswerAllowedDecisions`,
  `SoundEvidenceNeverRejected`: racing uploads do not fork the chain, and a sound
  segment that comes too early is turned away but never stored as rejected.
- `EvidenceProvesOneRun`: a batch backs one run.
- `AnsweredDecisionsRecorded`, `OnlyUnknownEffectsResolved`, `ResolutionIsFinal`:
  what an operator is told was recorded is recorded, once; a confirmed outcome stays.
- `CallbackAppliedOnce`, `ConsumedNonceRemembered`: a signed callback is applied
  once, although nonces are deleted by age.
- `VerifiedOnOwnReceipt`: a proof's status and its hashes come from one writer.
- `KeyAnswersOneResponse`, `AnswersMatchStoredVersion`: a contract synchronisation is
  idempotent, and the loser of an insertion race reports the winner's version.
- `BoundRunsFollowBinding`, `BoundAnswerIsOwnRun`: a bound run follows its binding
  whatever was edited since, and a reused key never answers with another run.
- `RegisteredKeyIsFinal`, `ClearedNeverOwned`, `NoCommandLost`: a machine's key is
  not replaced, and a late acknowledgement takes no cleared command.
- `BreakerOpensOnStreak`, `OpenBreakerIsProbed`: a breaker opens only on consecutive
  failures and does not stay open although calls may fail late.
- `UnreadableDecisionStopsGuard`, `VerifiedJournalNeverRejected`,
  `ReportedMeansStored`: a torn journal stops the guard, a journal that verifies
  locally is not rejected, and a reported upload is stored.

### Bounds

Two runtimes are the least for a handover, two steps the least for an irreversible
step that has a checkpoint before it, and two attempts the least for an old
execution beside a new one; `concurrent_recovery` has a third, since a second
handover must be possible for the budget to be exceeded. Each execution ends at
most once, and `RuntimeEnds` names how: the ways that matter to the question of the
run. Where an instance has two runs and one submitter, only one of the runs exists
in each behaviour: the run is of either kind. Runtimes are symmetric in the safety
runs; the liveness run uses no symmetry. The bounds that are not in the code are
`MaxAttempts`, `MaxCrashes`, `NumSteps` and `RuntimeEnds`. The runs that stop for a
bound, and runs that are over, have no next step, so deadlock is not checked.

In `control_plane` two requests are the least that race, and a third appears where a
race needs an earlier result: three runs to link, three synchronisations
(`MaxSyncs`), three guarded calls, so that a call follows a torn line and another
follows that. A breaker threshold of 2 is the least at which a success can interrupt
a streak. The clock of `CallbackDelivery` runs to `MaxNow` = 6, beyond the retention
of 3 counted from the latest time an envelope can be consumed. The bounds that are
not in the code are `MaxReports`, `MaxStall`, `MaxNow`, `MaxSyncs`, `MaxClears` and
`MaxLost`; `MaxBatch` stands for the 500 events of `MAX_EVENTS_PER_BATCH`.

### Fairness

`FairSpec` assumes only that a recovery pass that has started goes on
(`RecoveryStep`), which the Go scheduler ensures for a goroutine that waits for
nothing but the database. No fairness is assumed of clients, runtimes or the
network. `LoopFairSpec` adds that the loop's ticker starts passes. The reaper's
specification is fair to its ticker. `SelectorFairness` assumes that calls end (they
have a timeout), that time passes and that requests keep coming; without requests
nothing probes a breaker. `UploadSpec` assumes that the command
is run again and that each run goes on; guarded calls need not end.

### Limits of some properties

`StreamingNeverResumed` and `HandoffDecisionIsCurrent` hold while one recovery pass
runs at a time. With `Workers = {w1, w2}` in `Handover.cfg` both fail: a late
checkpoint moves the run out of `recovering` under the first pass, the second pass
makes it claimable again, and the first pass claims it on what it had read before.
`MarkDispatched` compares the status only.

`VerifiedOnOwnReceipt` does not say that the proof is the latest. A synchronisation
that read no receipt may write `missing` after the trigger has written `verified`
(`coordinator/checkpoint_store.go:2364`), one for an older execution may overwrite a
newer one, and a verification without an expected hash turns `verified` into
`present` (2386). The next read of the run repairs the first.

`CallbackAppliedOnce` rests on `CallbackAssumption`: nonces are kept for at least
twice the freshness window plus the longest stall of a handler. The default of
24 hours against 5 minutes satisfies it with room for any stall of a request. The
floor that the code puts under a configured retention, one freshness window
(`api/runtime_callback_signature.go:263`), does not: a timestamp may lie a window
ahead of the clock, so an envelope stays acceptable for two. The cleanup has no
caller outside its file, so at present nonces are never deleted.

`OutcomesAnswerAllowedDecisions` allows two outcomes of one decision: the verifier
counts outcomes within a batch only (`api/evidence_verify.go:273`).

`AnswersMatchStoredVersion` compares an answer with the stored version. Two new
versions of one action that are synchronised at once are both compared with the
version before them, so the difference between the two is not reported
(`api/routes_contracts.go:243`).

`UnreadableDecisionStopsGuard` allows one call to run on a decision that cannot be
read: the one whose line follows a torn line.

`ReportedMeansStored` is about success. An upload whose snapshot is older than the
server's head reports a divergence although nothing diverged
(`evidence_sync.py:524`).

## Where code and documents disagree

Six runs expect a violation. Each checks a sentence of the repository.

| Run | Sentence | What the code does |
|---|---|---|
| `irreversible_replay` | "irreversible work is never blindly retried" (`README.md:33`) | A runtime that is slow, not dead, goes on to the irreversible step after the handover, and so does its replacement. |
| `journal_race` | "recovery must not replay it" (`database/migrations/074_effect_journal.sql:5`) | The journal is read once, before the claim; a late reply commits the effect in between. |
| `orphaned_by_crash` | the loop "reassigns their in-flight tasks" (`coordinator/task_coordinator.go:510`) | A run that is `recovering` when the process stops is never selected again. |
| `demo_failure` | "creates a durable task record and marks it failed" (`coordinator/task_coordinator.go:336`) | `MarkFailedWithDetails` does not match a pending row. |
| `deadline_reaper` | "fails expired tasks whose deadline has passed" (`coordinator/task_coordinator.go:528`) | The statement sets `updated_at`, which `task_records` does not have. |
| `journal_sync` | "a journal that grew since the last sync uploads only the new events" (`sdk/python/README.md:249`) | If the last upload ended with a batch that was not full, the next run replays the full batches, sends a longer one in place of the short one, gets a head mismatch, and gives up because it is not the first batch (`evidence_sync.py:443`). Running the command again does the same. |

`journal_sync` has no lost answer and no second uploader: the journal alone causes
it. A journal that always fits in one batch is not affected, since a mismatch on the
first batch is resumed.

The same effect as in `demo_failure` befalls a submission that finds no runtime:
its row stays pending.

## The proofs

TLC checks the instances above. The theorems hold for all numbers of tasks,
runtimes, steps, attempts, requests, recovery passes and crashes, with and without
store faults. They assume only the named assumptions on the constants
(`StoreConstants`, `PolicyConstants`, `CoordinatorConstants`). The modules named
`...Proofs` extend the modules they are about.

`CoordinatorProofs` begins with `StoreSpec`, so with any caller:

- `StoreTypeCorrect`; `StoreNewestRow`, by induction with the types: the new
  watermark exceeds that on the row, which exceeds all others;
- `StoreTerminalIsFinal` and `StoreWatermarkNeverRegresses`: no statement names a
  terminal status, and only the checkpoint transaction writes the watermark.

The rest is of `Coordinator!Spec`. `TypeOK` is not inductive: a recovery
that could send an invalid checkpoint would break it. The inductive invariant
`ControlInv` adds what each process holds at each `pc` (`ProcessOK`) and
`NewestRowIsWatermark`. The latter is what makes the largest row of a cumulative
checkpoint exist without an argument about finite sets: it is the checkpoint on the
task row. From `ControlInv`:

- `TypeCorrect`;
- `RecoverySeedsWholePrefix`, with the lemma `CumulativeCheckpoint` on what
  `BuildCumulativeRecoveryCheckpoint` returns;
- `RecoveryStaysAhead`, since a pass past its decision holds a checkpoint that the
  policy allowed;
- `CoordinatorImplementsStore`: every step is a step of `StoreSpec` or leaves the
  rows alone. So `StoreTerminalIsFinal`, `StoreWatermarkNeverRegresses` and
  `StoreNewestRow` hold of the coordinator.

`ExecutionProofs`, of `Coordinator!Spec`, on top of `CoordinatorProofs`:
`CompletionIsEarned`, a completed run had every step executed, under every loss,
handover, crash and store fault. `CompletedMeansExecuted` alone is not inductive: it
does not say why a runtime that was seeded with a checkpoint may skip its steps. The
inductive invariant `WorkInv` follows the entries. Each entry of a stored row, of a
callback in flight, of a checkpoint that a recovery pass holds or that an attempt was
seeded with names a step that the attempt in it really executed for this task
(`Performed`). Executed steps stay executed (`AttemptsAdvance`), so entries can be
late without becoming wrong. An execution at the end of the graph ran what its seed
does not cover, and the seed is a whole prefix, as `RecoverySeedsWholePrefix`
says.

`DispatchProofs`, of `Coordinator!Spec`. The inductive invariant `DispatchInv`
follows the right to dispatch a run. The request that inserted the row has it
(`Undecided`); a claim of the row passes it on, by changing the status its own
`WHERE` names; a dispatch uses it up. Before the claim nobody has anything to do
with the run (`ClaimFirst`), afterwards one process has the right and no attempt
has been made (`OneRight`), and recovery only holds runs that were claimed. Most
steps give nobody a right and are covered by `QuietStep`; the claims by `GrantStep`
and the dispatches by `LaunchStep`. From it:

- `DispatchedOnce`, `GateHolds`, `RejectionHolds`;
- `ImplementsLifecycle`: the coordinator implements `RunLifecycle`. Each call of the
  store moves one task between phases as the table of `RunLifecycle` allows, or leaves
  its phase alone. A first dispatch is a `Start`, since the right to it excludes an
  earlier one.

`RecoveryProofs`, of `Coordinator!Spec`, on top of `DispatchProofs`:

- `RecoveringOwned`: `OwnedInv` says which pass still has the task to do (`Keeps`).
  Only `MarkRecovering` makes a task recovering, and that step puts it on the list of
  its pass. Like the property it excludes crashes and store faults.
- `BudgetHolds`, for any number of concurrent passes and a store that answers: each
  pass between the count and the dispatch holds one unit of the budget, and
  hand-overs and units together exceed neither the counter on the row nor
  `MaxRecoveryAttempts` (`WithinBudget`). The bound alone is not inductive: it does
  not say that a pass about to dispatch was counted.
- `StreamingHolds` and `HandoffHolds` assume `OnePass`, as the run `handover` does.
  What a pass read when it checked a task is true until it claims it (`PassKnows`):
  whatever would change the decision takes the task out of recovery, and then the
  claim fails. A second pass can put it back, so the assumption is needed.

The components around a run are proved for every number of requests, runs, keys,
segments, contracts, commands and calls. Each proof has an inductive invariant that
says what a request in flight knows about the tables at each `pc`, and which part of
that cannot be undone by the others.

- `EvidenceProofs`, uploads. `EvidenceSafety`, `OutcomesHaveDecisions`: `EvidenceInv`
  adds that an upload past its verification holds a segment whose outcomes answer
  events that are stored or in the segment; events are never removed, so this stays
  true until the insert, whose unique slot keeps the chain single. It also gives
  `EventsOfVerifiedBatches`: the stored events are exactly those of verified batches.
- `SoundEvidenceAccepted`, in the same module: a rejection never falls on a piece of
  the journal an unmodified client wrote. The property does not mention what is
  stored, yet depends on it: an outcome in the piece may answer a decision before it.
  `HonestInv` adds that the stored part of the client's journal has no gap (`NoGap`).
  A segment is linked inside and starts at a stored head, and a hash determines its
  event, so storing one event of the journal requires the event before it. A piece
  that passed the comparison with the chain head therefore finds everything before
  it. `EventAssumption` (two events that verify share neither a hash nor, as
  decisions, an id: SHA-256 and `uuid4`) and `ClientAssumption` (what `guard`
  appends) are the assumptions; `JournalLinks` and `OutcomesAnswer` of
  `JournalProofs` are the latter's counterpart, proved of the SDK's model.
- `LinkSafety` (`LinkInv`): the insert looks again. `ProofSafety` (`ProofInv`): every
  value a process carries towards the columns is itself sound, and receipts are only
  added.
- `EvidenceProofs`, reconciliation. `ReconSafety`, `ReconOfUnknownEffects`: `ReconInv`
  relates the answers to the rows and the first row to the typed failure; it includes
  `OneTerminalResolution`, which the trigger ensures. `ReconResolutionFinal`: rows
  are only appended (`TableGrows`), and at most one of them is terminal, so the state
  that is computed from all rows cannot leave a terminal resolution.
- `ContractProofs`. `SyncSafety`, `SyncAnswersAreStored`: `SyncInv` says that the
  holder of a key is alone with it until it commits, and that versions are never
  changed. `BoundSafety`, `BoundAnswersAreOwn`: `BoundInv` carries the binding's
  values through the request into the row.
- `RuntimeProofs`. `KeyFinality`; `QueueSafety`, `QueueLosesNothing`: the clear
  generation that a fetched command carries tells whether it was cleared since.
  `BreakerSafety`: the failure count of a closed breaker never exceeds the streak.
  `CallbackSafety`, `NonceOutlivesCallback`: `CallbackInv` bounds the age of every
  request that may still reserve, and with it the age of a nonce that matters.
- `JournalProofs`, for every number of calls and uploaders and every batch size. The
  journal (`JournalInv`): only the last line can be unreadable, and nothing is
  appended behind it; the lines are one chain of events with different hashes
  (`JournalLinks`); a call that may run has its allowed decision on a line that no
  later append can reach, or is the one call whose decision made the last line
  unreadable (`CallsDecided`). This is `GuardSafety`, that at most one call runs on a
  decision that cannot be read. The stream (`StreamInv`): the endpoint holds the
  events of the first `n` lines for some `n` that never decreases, a batch in flight,
  delayed ones included, is a section of the journal, and what an upload has behind
  it lies within the first `n` lines. `JournalAccepted` follows because a section
  that continues line `n` has its decisions in the first `n` lines or in itself;
  `ReportIsTrue` because an upload ends when it has the last line of its snapshot
  behind it.

They assume `SegmentAssumption`, `EventAssumption`, `ClientAssumption`,
`CallbackAssumption`, `ReconAssumption`, `ProofAssumption`, `SelectorAssumption` and
`BatchAssumption`, all of which TLC evaluates on the instance.

The inductive invariants were checked with TLC before they were proved: `HonestInv`
with a journal of four events and two uploads, `JournalInv` and `StreamInv` with two
calls, two uploaders and a lost batch, and with three calls alone.

So every invariant, action property and refinement of a passing run is also a
theorem. Only model-checked are `RecoveringResolved` and `OpenBreakerIsProbed`, which
are liveness under fairness, and the six sentences that the code contradicts.
Schematic induction is not available to the provers; where an argument needs it (the
last of some rows, a prefix without gaps) it goes through the least element of a set
of naturals (lemmas `Least` and `Greatest`).

## Not modelled

- HTTP middleware, authentication, API keys, rate limits: they filter requests before
  the handlers and change no state of a run.
- Licences and devices (`api/routes_license.go`): independent of runs.
- Permission envelopes and signatures: functions of bytes. Their failures are branches
  of the model.
- Action packs: an installation repeats the creation of a definition, which is in
  `BoundRuns`, once for each action, without a transaction.
- Fleet routes: not mounted. The dispatch queue: written, never read. The rows of
  `circuit_breaker_states`: only reported. The concurrency semaphore of the dispatch:
  the code does not wait for it.
- What deregistration means for recovery: `RuntimeRegistry` has the statement, but a
  runtime that deregisters with runs in flight is never found stale, and `Coordinator`
  has no such state.
- Of the SDK: the REST client, tool wrapping, redaction and contract registration.
- Caches, billing, the agent registry, evaluations, alerts, health, compliance and
  configuration: no part in the state of a run. `attic` is not built.

These parts are most of the repository's lines; the map in `PROJECT.json` covers a
small share of the whole and most of the code that changes the state of a run, its
evidence and its contracts.
