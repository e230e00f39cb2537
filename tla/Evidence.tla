-------------------------------- MODULE Evidence --------------------------------
(***************************************************************************)
(* Ingestion of locally signed SDK evidence (api/routes_evidence.go,       *)
(* api/evidence_verify.go, api/evidence_store.go) for one tenant and one   *)
(* signing key.  A segment of the client's journal is uploaded, compared   *)
(* with the stored chain head, verified and stored.  The handler is split  *)
(* at every database access, so uploads interleave between them.           *)
(*                                                                         *)
(* An event is a record: hash and prev (its own and its predecessor's      *)
(* event_hash), type, id, decision ("allowed" or "denied", for a decision),*)
(* ref (the decision an outcome answers), subject (the action, contract    *)
(* and input it speaks of) and intact (its hash and signature verify).     *)
(* The content hash of a segment is the segment itself.                    *)
(***************************************************************************)
EXTENDS Naturals, Sequences

CONSTANTS
    Uploads,     \* concurrent POST /v1/evidence/batches requests
    Segments,    \* the journal segments that clients may submit
    ClientJournal,  \* the events an unmodified client wrote, in order
    IngestKeys,  \* the Idempotency-Key headers they may send
    Genesis,     \* the NULL previous_event_hash
    NoKey        \* no Idempotency-Key header

\* decodeEvidenceSubmission refuses an empty segment; the hash of an event never is
\* the NULL pointer.
ASSUME SegmentAssumption ==
    \A s \in Segments : /\ Len(s) \in Nat \ {0}
                        /\ \A i \in 1..Len(s) : s[i].hash # Genesis

VARIABLES
    evidenceBatches,    \* sdk_evidence_batches: records [content, state]
    evidenceEvents,     \* sdk_evidence_events
    ingestRecords,      \* evidence_ingest_idempotency: key -> segment or NoKey
    uploads             \* the requests in flight

evidenceVars == <<evidenceBatches, evidenceEvents, ingestRecords, uploads>>

NoUpload == [pc |-> "idle"]

FirstPrev(s) == s[1].prev

ChainHead(s) == s[Len(s)].hash

EventsOf(s) == {s[i] : i \in 1..Len(s)}

ClientEvents == EventsOf(ClientJournal) \cup UNION {EventsOf(s) : s \in Segments}

\* An event hash is a SHA-256 and a decision's id a fresh UUID (journal.py, new_event_id):
\* no two events that verify share them.
ASSUME EventAssumption ==
    \A d, e \in ClientEvents :
        d.intact /\ e.intact =>
            /\ d.hash = e.hash => d = e
            /\ d.type = "decision" /\ e.type = "decision" /\ d.id = e.id => d = e

\* What guard() appends: signed events, each linked to the one before, and at most one
\* outcome of a decision, after it and only if it allowed the call (module GuardJournal).
ASSUME ClientAssumption ==
    /\ Len(ClientJournal) \in Nat
    /\ \A i \in 1..Len(ClientJournal) :
          LET e == ClientJournal[i]
              before == 1..(i - 1)
          IN  /\ e.intact /\ e.hash # Genesis
              /\ e.prev = IF i = 1 THEN Genesis ELSE ClientJournal[i - 1].hash
              /\ e.type = "decision" => e.decision \in {"allowed", "denied"}
              /\ e.type = "outcome" =>
                    /\ \E j \in before : /\ ClientJournal[j].type = "decision"
                                         /\ ClientJournal[j].id = e.ref
                                         /\ ClientJournal[j].decision = "allowed"
                    /\ \A j \in before : ~ (/\ ClientJournal[j].type = "outcome"
                                            /\ ClientJournal[j].ref = e.ref)

VerifiedSegments == {b.content : b \in {x \in evidenceBatches : x.state = "verified"}}

StoredSegments == {b.content : b \in evidenceBatches}

\* The heads that no verified batch extends; the query returns one of them.
OpenHeads == {ChainHead(s) : s \in {x \in VerifiedSegments :
                                      \A n \in VerifiedSegments : FirstPrev(n) # ChainHead(x)}}

\* currentEvidenceChainHead; no row means that a genesis segment is expected.
CurrentChainHeads == IF OpenHeads = {} THEN {Genesis} ELSE OpenHeads

EvidenceInit ==
    /\ evidenceBatches = {}
    /\ evidenceEvents = {}
    /\ ingestRecords = [k \in IngestKeys |-> NoKey]
    /\ uploads = [u \in Uploads |-> NoUpload]

Goto(u, pc) == uploads' = [uploads EXCEPT ![u].pc = pc]

EndUpload(u) == uploads' = [uploads EXCEPT ![u] = NoUpload]

EvidenceTablesUnchanged == UNCHANGED <<evidenceBatches, evidenceEvents, ingestRecords>>

\* handleEvidenceBatchSubmit up to the first lookup: the request is well formed and its
\* key is the registered one.
SubmitBatch(u) ==
    /\ uploads[u].pc = "idle"
    /\ \E s \in Segments, k \in IngestKeys \cup {NoKey} :
          uploads' = [uploads EXCEPT ![u] = [pc |-> IF k = NoKey THEN "content" ELSE "idempotency",
                                             segment |-> s, key |-> k, sound |-> FALSE]]
    /\ EvidenceTablesUnchanged

\* The replay of a known Idempotency-Key, or its conflict with another segment; both end
\* the request.
ReadIngestIdempotency(u) ==
    /\ uploads[u].pc = "idempotency"
    /\ IF ingestRecords[uploads[u].key] = NoKey THEN Goto(u, "content") ELSE EndUpload(u)
    /\ EvidenceTablesUnchanged

\* Natural idempotency: evidence that is already stored replays its batch.
ReadBatchByContent(u) ==
    /\ uploads[u].pc = "content"
    /\ Goto(u, IF uploads[u].segment \in StoredSegments THEN "respond" ELSE "head")
    /\ EvidenceTablesUnchanged

\* Mistake: the comparison with the chain head is left to the unique index alone.
ReadChainHeadUnchecked(u) ==
    /\ uploads[u].pc = "head"
    /\ Goto(u, "verify")
    /\ EvidenceTablesUnchanged

\* The segment must continue the current chain head.
ReadChainHead(u) ==
    /\ uploads[u].pc = "head"
    /\ \E expected \in CurrentChainHeads :
          Goto(u, IF FirstPrev(uploads[u].segment) = expected THEN "verify" ELSE "raced")
    /\ EvidenceTablesUnchanged

\* A concurrent identical upload may have committed in between: it is replayed;
\* otherwise the request ends with chain_head_mismatch.
RereadBatchByContent(u) ==
    /\ uploads[u].pc = "raced"
    /\ IF uploads[u].segment \in StoredSegments THEN Goto(u, "respond") ELSE EndUpload(u)
    /\ EvidenceTablesUnchanged

\* The decision that the outcome s[i] refers to: one of its own segment, before it, or a
\* stored one.
DecisionsFor(s, i) ==
    LET own == {s[j] : j \in {k \in 1..(i - 1) : s[k].type = "decision" /\ s[k].id = s[i].ref}}
    IN  IF own # {} THEN own
        ELSE {e \in evidenceEvents : e.type = "decision" /\ e.id = s[i].ref}

\* Mistake: an outcome is accepted without looking up the decision it refers to.
OutcomeIssueUnlooked(s, i) ==
    \E j \in 1..(i - 1) : s[j].type = "outcome" /\ s[j].ref = s[i].ref

\* unknown_decision_reference and invalid_transition.
OutcomeIssue(s, i) ==
    \/ DecisionsFor(s, i) = {}
    \/ \E d \in DecisionsFor(s, i) : d.decision = "denied"
    \/ \E j \in 1..(i - 1) : s[j].type = "outcome" /\ s[j].ref = s[i].ref

\* chain_break, hash_mismatch, bad_signature, invalid_field and the transition issues.
EventIssue(s, i) ==
    \/ i > 1 /\ s[i].prev # s[i - 1].hash
    \/ ~ s[i].intact
    \/ s[i].type = "decision" /\ s[i].decision \notin {"allowed", "denied"}
    \/ s[i].type = "outcome" /\ OutcomeIssue(s, i)

VerifyEvidenceEvents(u) ==
    /\ uploads[u].pc = "verify"
    /\ LET s == uploads[u].segment
       IN  uploads' = [uploads EXCEPT ![u].pc = "persist",
                                      ![u].sound = \A i \in 1..Len(s) : ~ EventIssue(s, i)]
    /\ EvidenceTablesUnchanged

\* persistEvidenceBatch, one transaction.  The content constraint replays the surviving
\* row; the chain slot index refuses a second verified batch at one chain position.
ChainSlotTaken(s) == \E n \in VerifiedSegments : FirstPrev(n) = FirstPrev(s)

\* Mistake: the unique index on the chain slot is missing.
PersistWithoutSlot(u) ==
    LET s == uploads[u].segment
    IN  /\ uploads[u].pc = "persist"
        /\ s \notin StoredSegments
        /\ uploads[u].sound
        /\ evidenceBatches' = evidenceBatches \cup {[content |-> s, state |-> "verified"]}
        /\ evidenceEvents' = evidenceEvents \cup EventsOf(s)
        /\ Goto(u, "respond")
        /\ UNCHANGED ingestRecords

PersistVerified(u) ==
    LET s == uploads[u].segment
    IN  /\ uploads[u].pc = "persist"
        /\ s \notin StoredSegments
        /\ uploads[u].sound
        /\ ~ ChainSlotTaken(s)
        /\ evidenceBatches' = evidenceBatches \cup {[content |-> s, state |-> "verified"]}
        /\ evidenceEvents' = evidenceEvents \cup EventsOf(s)
        /\ Goto(u, "respond")
        /\ UNCHANGED ingestRecords

PersistRejected(u) ==
    LET s == uploads[u].segment
    IN  /\ uploads[u].pc = "persist"
        /\ s \notin StoredSegments
        /\ ~ uploads[u].sound
        /\ evidenceBatches' = evidenceBatches \cup {[content |-> s, state |-> "rejected"]}
        /\ Goto(u, "respond")
        /\ UNCHANGED <<evidenceEvents, ingestRecords>>

\* The two ways the insert is refused: a raced identical batch is replayed, a taken slot
\* ends the request with chain_head_mismatch.
PersistRefused(u) ==
    LET s == uploads[u].segment
    IN  /\ uploads[u].pc = "persist"
        /\ \/ s \in StoredSegments /\ Goto(u, "respond")
           \/ s \notin StoredSegments /\ uploads[u].sound /\ ChainSlotTaken(s) /\ EndUpload(u)
        /\ EvidenceTablesUnchanged

\* respondEvidenceBatch: the idempotency record is inserted, after the batch committed,
\* unless there is one.
RespondEvidenceBatch(u) ==
    /\ uploads[u].pc = "respond"
    /\ LET k == uploads[u].key
       IN  ingestRecords' = IF k # NoKey /\ ingestRecords[k] = NoKey
                            THEN [ingestRecords EXCEPT ![k] = uploads[u].segment]
                            ELSE ingestRecords
    /\ EndUpload(u)
    /\ UNCHANGED <<evidenceBatches, evidenceEvents>>

\* A database error, a cancelled request or a crash between two steps.
AbandonUpload(u) ==
    /\ uploads[u].pc # "idle"
    /\ EndUpload(u)
    /\ EvidenceTablesUnchanged

EvidenceNext ==
    \E u \in Uploads :
        \/ SubmitBatch(u)
        \/ ReadIngestIdempotency(u)
        \/ ReadBatchByContent(u)
        \/ ReadChainHead(u)
        \/ RereadBatchByContent(u)
        \/ VerifyEvidenceEvents(u)
        \/ PersistVerified(u)
        \/ PersistRejected(u)
        \/ PersistRefused(u)
        \/ RespondEvidenceBatch(u)
        \/ AbandonUpload(u)

EvidenceSpec == EvidenceInit /\ [][EvidenceNext]_evidenceVars

-----------------------------------------------------------------------------
\* Fork prevention (evidence_store.go, migration 068): whatever uploads race, the
\* verified batches form one chain.  No two of them extend the same position, and each
\* extends the genesis or the head of another.
VerifiedBatchesFormOneChain ==
    /\ \A s, n \in VerifiedSegments : FirstPrev(s) = FirstPrev(n) => s = n
    /\ \A s \in VerifiedSegments :
          FirstPrev(s) = Genesis \/ \E n \in VerifiedSegments : ChainHead(n) = FirstPrev(s)

\* persistEvidenceBatch: the stored events are those of the verified batches, all of them
\* and no others, although batch and events are separate inserts and uploads race.
EventsOfVerifiedBatches ==
    evidenceEvents = UNION {EventsOf(s) : s \in VerifiedSegments}

\* A piece of the journal that one client wrote in order.
HonestSegment(s) ==
    \E i, j \in 1..Len(ClientJournal) : i <= j /\ s = SubSeq(ClientJournal, i, j)

\* A rejection is stored for ever and replayed by content, so it must never fall on sound
\* evidence (evidence_verify.go, evidenceContentHash: "a stored rejected batch can never
\* block later ingestion of the corrected evidence").  In particular a segment uploaded
\* ahead of the one with the decision it answers is turned away, not rejected.
SoundEvidenceNeverRejected ==
    \A b \in evidenceBatches : b.state = "rejected" => ~ HonestSegment(b.content)

\* Every stored outcome answers a stored decision that allowed it: an outcome is never
\* verified against a decision the server has not itself verified, and a denial is
\* terminal (evidence_verify.go, the transition checks).
OutcomesAnswerAllowedDecisions ==
    \A e \in evidenceEvents :
        e.type = "outcome" =>
            \E d \in evidenceEvents :
                d.type = "decision" /\ d.id = e.ref /\ d.decision = "allowed" /\ d.intact
=============================================================================
