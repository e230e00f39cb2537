SPECIFICATION MCSpec

CONSTANTS
    run1 = run1
    run2 = run2
    run3 = run3
    batch1 = batch1
    batch2 = batch2
    machineKey1 = machineKey1
    call3 = call3
    uploader2 = uploader2

    Uploads = {upload1, upload2}
    Segments <- MCSegments
    ClientJournal <- MCJournal
    IngestKeys = {ingestKey}
    Genesis = Genesis
    NoKey = NoKey

    Linkers = {linker1, linker2}
    LinkRuns = {run1, run2, run3}
    Batches = {batch1, batch2}
    RunIdentity <- MCRunIdentity
    Decisions <- MCDecisions

    Operators = {operator1, operator2}
    RequestIds = {request1, request2}
    Actors = {actor}
    MaxReports = 1
    NoEvent = NoEvent

    Deliveries = {delivery1, delivery2}
    Envelopes = {envelope}
    CbRuntimes = {runtime1, runtime2}
    Freshness = 1
    Retention = 0
    DefaultRetention = 3
    MaxStall = 1
    MaxNow = 6
    Never = Never

    Executions = {execution1, execution2}
    Savers = {saver1, saver2}
    Syncers = {syncer}
    Verifiers = {verifier}
    None = None

    Syncs = {sync1, sync2}
    Contracts = {"strict", "loose"}
    Declared <- MCDeclared
    SyncKeys = {syncKey}
    NoSyncKey = NoSyncKey
    MaxSyncs = 3

    Versions = {version1}
    ApprovalMode <- MCApproval
    Edits <- MCEdits
    Unset = Unset
    Editors = {editor}
    Binders = {binder}
    Runners = {runner1, runner2}
    RunKeys = {runKey}
    Inputs = {input1, input2}

    Registrars = {registrar1, registrar2}
    MachineKeys = {machineKey1, machineKey2}
    NoMachineKey = NoMachineKey
    Commands = {command1, command2}
    MaxClears = 1

    Requests = {infer1, infer2}
    Preference <- MCPreference
    FailureThreshold = 2
    RecoveryTimeout = 2

    GuardedCalls = {call1, call2, call3}
    Uploaders = {uploader1, uploader2}
    MaxBatch = 2
    MaxLost = 1

INVARIANTS
    VerifiedBatchesFormOneChain
    SoundEvidenceNeverRejected
    OutcomesAnswerAllowedDecisions
    EvidenceProvesOneRun
    AnsweredDecisionsRecorded
    OnlyUnknownEffectsResolved
    CallbackAppliedOnce
    
    VerifiedOnOwnReceipt
    KeyAnswersOneResponse
    AnswersMatchStoredVersion
    BoundRunsFollowBinding
    BoundAnswerIsOwnRun
    ClearedNeverOwned
    NoCommandLost
    UnreadableDecisionStopsGuard
    ReportedMeansStored
    VerifiedJournalNeverRejected

PROPERTIES
    ResolutionIsFinal
    RegisteredKeyIsFinal
    BreakerOpensOnStreak
    OpenBreakerIsProbed

CHECK_DEADLOCK FALSE
