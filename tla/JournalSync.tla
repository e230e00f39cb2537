------------------------------ MODULE JournalSync ------------------------------
(***************************************************************************)
(* igris evidence sync (sdk/python/src/igris/evidence_sync.py): the        *)
(* journal of module GuardJournal is uploaded to the evidence stream of    *)
(* its signing key, batch by batch, while guarded calls go on appending.   *)
(* The endpoint handles a batch in one step here; module Evidence has the  *)
(* handler's own interleavings.                                            *)
(***************************************************************************)
EXTENDS GuardJournal

CONSTANTS
    Uploaders,                \* concurrent runs of the command
    MaxBatch,                 \* MAX_EVENTS_PER_BATCH
    MaxLost                   \* bound on transport failures

ASSUME BatchAssumption == MaxBatch \in Nat \ {0} /\ MaxLost \in Nat

VARIABLES
    stream,                   \* the key's verified batches, in chain order
    refused,                  \* its rejected batches
    syncRuns,                 \* the runs of the command
    delayed,                  \* batches whose sender gave up before they arrived
    lost                      \* transport failures so far

streamVars == <<stream, refused>>
uploadVars == <<journalVars, streamVars, syncRuns, delayed, lost>>

Over == [pc |-> "over"]      \* not running, or ended with an error

NoAnswer == [kind |-> "none"]

UploadInit ==
    /\ JournalInit
    /\ stream = <<>>
    /\ refused = {}
    /\ syncRuns = [u \in Uploaders |-> Over]
    /\ delayed = {}
    /\ lost = 0

-----------------------------------------------------------------------------
(* The endpoint                                                            *)

Batched == {stream[i] : i \in 1..Len(stream)}

StoredEvents == UNION {{batch[i] : i \in 1..Len(batch)} : batch \in Batched}

StreamHead ==
    IF stream = <<>> THEN GENESIS_PREVIOUS_HASH
    ELSE LET batch == stream[Len(stream)] IN EventHash(batch[Len(batch)])

\* verifyEvidenceEvents: an outcome answers an allowed decision before it in the
\* batch or stored, and no other outcome of the batch answers the same one.
Transitions(batch) ==
    \A i \in 1..Len(batch) : batch[i].type = "outcome" =>
        /\ \E decision \in StoredEvents \cup {batch[j] : j \in 1..(i - 1)} :
               /\ EventHash(decision) = batch[i].decision_event
               /\ decision.type = "decision" /\ decision.decision = "allowed"
        /\ \A j \in 1..(i - 1) :
               batch[j].type = "outcome" => batch[j].decision_event # batch[i].decision_event

\* A batch the stream does not hold and whose first event extends its head.
Continues(batch) ==
    batch \notin Batched \cup refused /\ batch[1].prev = StreamHead

\* handleEvidenceBatchSubmit: a known batch is replayed.
HandleBatch(batch) ==
    /\ stream' = IF Continues(batch) /\ Transitions(batch) THEN Append(stream, batch)
                 ELSE stream
    /\ refused' = IF Continues(batch) /\ ~ Transitions(batch) THEN refused \cup {batch}
                  ELSE refused

AnswerTo(batch) ==
    IF batch \in Batched \cup refused
    THEN [kind |-> IF batch \in Batched THEN "verified" ELSE "rejected"]
    ELSE IF Continues(batch)
         THEN [kind |-> IF Transitions(batch) THEN "verified" ELSE "rejected"]
         ELSE [kind |-> "mismatch", head |-> StreamHead]

-----------------------------------------------------------------------------
(* sync_journal                                                            *)

SetRun(u, run) == syncRuns' = [syncRuns EXCEPT ![u] = run]

\* Goes on with the rest of the snapshot, or reports once nothing is left.
Continue(u, run) ==
    SetRun(u, IF run.rest = <<>> THEN [pc |-> "reported", events |-> run.events]
              ELSE [run EXCEPT !.pc = "send"])

\* A journal that fails the local verification uploads nothing.  The snapshot
\* is read without the journal's lock: a line half written fails it too.
BeginUpload(u) ==
    /\ syncRuns[u].pc \in {"over", "reported"}
    /\ JournalVerifies
    /\ Continue(u, [pc |-> "send", events |-> Snapshot, rest |-> Snapshot,
                    resynced |-> FALSE, continued |-> FALSE, answer |-> NoAnswer])
    /\ UNCHANGED <<journalVars, streamVars, delayed, lost>>

NextChunk(events) ==
    SubSeq(events, 1, IF Len(events) < MaxBatch THEN Len(events) ELSE MaxBatch)

PostBatch(u) ==
    /\ syncRuns[u].pc = "send"
    /\ LET batch == NextChunk(syncRuns[u].rest)
       IN  /\ HandleBatch(batch)
           /\ SetRun(u, [syncRuns[u] EXCEPT !.pc = "answered", !.answer = AnswerTo(batch)])
    /\ UNCHANGED <<journalVars, delayed, lost>>

\* A timeout or transport failure, before or after the endpoint has handled the
\* batch; one on its way can still arrive.
TransportFails(u) ==
    /\ syncRuns[u].pc \in {"send", "answered"}
    /\ lost < MaxLost
    /\ lost' = lost + 1
    /\ delayed' = IF syncRuns[u].pc = "send"
                  THEN delayed \cup {NextChunk(syncRuns[u].rest)} ELSE delayed
    /\ SetRun(u, Over)
    /\ UNCHANGED <<journalVars, streamVars>>

DelayedBatchArrives(batch) ==
    /\ batch \in delayed
    /\ HandleBatch(batch)
    /\ delayed' = delayed \ {batch}
    /\ UNCHANGED <<journalVars, syncRuns, lost>>

BatchAccepted(u) ==
    /\ syncRuns[u].pc = "answered" /\ syncRuns[u].answer.kind = "verified"
    /\ LET run == syncRuns[u]
       IN  Continue(u, [run EXCEPT
               !.rest = SubSeq(run.rest, Len(NextChunk(run.rest)) + 1, Len(run.rest)),
               !.continued = TRUE, !.answer = NoAnswer])
    /\ UNCHANGED <<journalVars, streamVars, delayed, lost>>

\* Mistake: the event after the stored head is skipped.
SkipAfterHead(events, head) ==
    LET i == CHOOSE i \in 1..Len(events) : EventHash(events[i]) = head
    IN  SubSeq(events, i + 2, Len(events))

ResumeAfterHead(events, head) ==
    LET i == CHOOSE i \in 1..Len(events) : EventHash(events[i]) = head
    IN  SubSeq(events, i + 1, Len(events))

\* The first batch does not extend the stream, whose head is in the snapshot.
Resumable(run) ==
    /\ run.answer.kind = "mismatch"
    /\ ~ run.continued /\ ~ run.resynced
    /\ run.answer.head \in {EventHash(run.events[i]) : i \in 1..Len(run.events)}

Resync(u) ==
    LET run == syncRuns[u]
    IN  /\ run.pc = "answered"
        /\ Resumable(run)
        /\ Continue(u, [run EXCEPT !.rest = ResumeAfterHead(run.events, run.answer.head),
                                   !.resynced = TRUE, !.answer = NoAnswer])
        /\ UNCHANGED <<journalVars, streamVars, delayed, lost>>

\* EvidenceSyncConflictError: a mismatch of a later batch, a second one, or a head
\* that is not in the snapshot; EvidenceSyncValidationError: a rejected batch.
SyncFails(u) ==
    /\ syncRuns[u].pc = "answered" /\ syncRuns[u].answer.kind # "verified"
    /\ ~ Resumable(syncRuns[u])
    /\ SetRun(u, Over)
    /\ UNCHANGED <<journalVars, streamVars, delayed, lost>>

UploadStep(u) ==
    BeginUpload(u) \/ PostBatch(u) \/ BatchAccepted(u) \/ Resync(u) \/ SyncFails(u)

UploadNext ==
    \/ GuardNext /\ UNCHANGED <<streamVars, syncRuns, delayed, lost>>
    \/ \E u \in Uploaders : UploadStep(u) \/ TransportFails(u)
    \/ \E batch \in delayed : DelayedBatchArrives(batch)

\* The command is run again and again, and each run ends: its requests have a
\* timeout.
UploadSpec ==
    /\ UploadInit
    /\ [][UploadNext]_uploadVars
    /\ \A u \in Uploaders : WF_uploadVars(UploadStep(u))

-----------------------------------------------------------------------------

\* A run of the command that reports success has left every event of its
\* snapshot verified on the server, whatever was appended, lost, delayed or
\* uploaded by another run meanwhile (sync_journal's EvidenceSyncReport).
ReportedMeansStored ==
    \A u \in Uploaders : syncRuns[u].pc = "reported" =>
        \A i \in 1..Len(syncRuns[u].events) : syncRuns[u].events[i] \in StoredEvents

\* The endpoint rejects no batch of a journal that verifies locally, although
\* the local verification does not look at decisions and outcomes and calls
\* crash between them: "this indicates tampering in transit or a server-side
\* verifier divergence" (sync_journal).
VerifiedJournalNeverRejected == refused = {}

\* Once the calls are over, running the command again uploads what the journal
\* has gained: "a journal that grew since the last sync uploads only the new
\* events (the server reports its stored chain head and the CLI resumes after
\* it)" (sdk/python/README.md).
RerunsCatchUp ==
    (JournalVerifies /\ \A c \in GuardedCalls : calls[c] = "ended")
        ~> (\A i \in 1..Len(lines) : lines[i][1] \in StoredEvents)
=============================================================================
