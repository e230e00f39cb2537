----------------------------- MODULE EvidenceProofs -----------------------------
(***************************************************************************)
(* The properties of stored evidence for every set of uploads, segments,   *)
(* keys, link requests and runs.  An upload past the chain head check      *)
(* extends the genesis or a verified head, which no later step takes away; *)
(* an upload found sound has only intact events, whose outcomes answer a   *)
(* decision of their own segment or a stored one.                          *)
(* What is stored of an unmodified client's journal has no gap (NoGap), so *)
(* a piece of it that continues the stored chain finds its decisions.      *)
(* A proof status is computed from a receipt that is never replaced, and   *)
(* written together with the hash it was computed from.                    *)
(* For operator reconciliation the advisory lock is the argument: what a   *)
(* decision found out under the lock (no event of its request, no terminal *)
(* resolution, an observed effect) still holds when it commits, because    *)
(* every other writer of the event table needs the lock too.               *)
(***************************************************************************)
EXTENDS Evidence, EvidenceLinks, ProofState, Reconciliation, SequenceTheorems,
        WellFoundedInduction, TLAPS

Upload == [pc : {"idempotency", "content", "head", "raced", "verify", "persist", "respond"},
           segment : Segments, key : IngestKeys \cup {NoKey}, sound : BOOLEAN]

\* The segment starts at the genesis or at the head of a verified one.
Anchored(s) == FirstPrev(s) = Genesis \/ \E n \in VerifiedSegments : ChainHead(n) = FirstPrev(s)

Answers(d, e) == d.type = "decision" /\ d.id = e.ref /\ d.decision = "allowed" /\ d.intact

\* The event e is what verifyEvidenceEvents accepts when the events of known are.
GoodEvent(e, known) ==
    /\ e.intact
    /\ e.type = "decision" => e.decision \in {"allowed", "denied"}
    /\ e.type = "outcome" => \E d \in known : Answers(d, e)

GoodSegment(s) == \A e \in EventsOf(s) : GoodEvent(e, EventsOf(s) \cup evidenceEvents)

EvidenceInv ==
    /\ uploads \in [Uploads -> {NoUpload} \cup Upload]
    /\ VerifiedBatchesFormOneChain
    /\ EventsOfVerifiedBatches
    /\ \A e \in evidenceEvents : GoodEvent(e, evidenceEvents)
    /\ \A u \in Uploads :
          /\ uploads[u].pc \in {"verify", "persist"} => Anchored(uploads[u].segment)
          /\ uploads[u].pc = "persist" /\ uploads[u].sound => GoodSegment(uploads[u].segment)

-----------------------------------------------------------------------------
(* Extreme elements of sets of numbers                                     *)

\* One index more.
LEMMA OneMore ==
    ASSUME NEW n \in Nat
    PROVE  \A i \in 1..(n + 1) : i \in 1..n \/ i = n + 1
  OBVIOUS

\* A non-empty set of naturals has a least element.
LEMMA Least ==
    ASSUME NEW S, S \subseteq Nat, S # {}
    PROVE  \E x \in S : \A y \in S : x <= y
<1>0. PICK R : R = OpToRel(<, Nat)
  OBVIOUS
<1>1. IsWellFoundedOn(R, Nat)
  BY <1>0, NatLessThanWellFounded
<1>2. PICK x \in S : \A y \in S : ~ (<<y, x>> \in R)
  BY <1>1, WFMin
<1>3. ASSUME NEW y \in S PROVE x <= y
  <2>1. y < x => <<y, x>> \in R
    BY <1>0 DEF OpToRel
  <2>2. ~ (y < x)
    BY <1>2, <2>1
  <2> QED BY <2>2
<1> QED BY <1>3

\* A non-empty bounded set of naturals has a greatest element: its least upper bound.
LEMMA Greatest ==
    ASSUME NEW n \in Nat, NEW S, S \subseteq 0..n, S # {}
    PROVE  \E x \in S : \A y \in S : y <= x
<1> DEFINE U == {k \in Nat : \A j \in S : j <= k}
<1>1. n \in U
  OBVIOUS
<1>2. PICK x \in U : \A y \in U : x <= y
  <2>1. U \subseteq Nat /\ U # {}
    BY <1>1
  <2> HIDE DEF U
  <2> QED BY <2>1, Least
<1>3. x \in Nat /\ \A j \in S : j <= x
  BY <1>2
<1>4. ASSUME x \notin S PROVE FALSE
  <2>1. PICK j \in S : TRUE
    OBVIOUS
  <2>2. j \in Nat /\ j < x
    BY <1>3, <1>4
  <2>3. x - 1 \in Nat /\ \A i \in S : i <= x - 1
    BY <1>3, <1>4, <2>2
  <2>4. x - 1 \in U
    BY <2>3
  <2> QED BY <1>2, <1>3, <2>4
<1> QED BY <1>3, <1>4

-----------------------------------------------------------------------------
(* Uploads                                                                 *)

LEMMA EvidenceInvInit == EvidenceInit => EvidenceInv
<1> SUFFICES ASSUME EvidenceInit PROVE EvidenceInv
    OBVIOUS
<1>1. VerifiedSegments = {}
  BY DEF EvidenceInit, VerifiedSegments
<1>2. \A u \in Uploads : uploads[u].pc = "idle"
  BY DEF EvidenceInit, NoUpload
<1> QED BY <1>1, <1>2 DEF EvidenceInit, EvidenceInv, VerifiedBatchesFormOneChain,
                           EventsOfVerifiedBatches

\* A step of one upload that stores nothing.
LEMMA UploadMove ==
    ASSUME EvidenceInv, NEW u \in Uploads, NEW y \in {NoUpload} \cup Upload,
           uploads' = [uploads EXCEPT ![u] = y],
           UNCHANGED <<evidenceBatches, evidenceEvents>>,
           y.pc \in {"verify", "persist"} => Anchored(y.segment),
           y.pc = "persist" /\ y.sound => GoodSegment(y.segment)
    PROVE  EvidenceInv'
<1>1. VerifiedSegments' = VerifiedSegments
  BY DEF VerifiedSegments
<1>2. /\ \A s : Anchored(s)' <=> Anchored(s)
      /\ \A s : GoodSegment(s)' <=> GoodSegment(s)
      /\ VerifiedBatchesFormOneChain' /\ EventsOfVerifiedBatches'
  BY <1>1 DEF EvidenceInv, Anchored, GoodSegment, VerifiedBatchesFormOneChain,
              EventsOfVerifiedBatches
<1>3. /\ uploads' \in [Uploads -> {NoUpload} \cup Upload]
      /\ uploads'[u] = y
      /\ \A w \in Uploads : w # u => uploads'[w] = uploads[w]
  BY DEF EvidenceInv
<1>4. ASSUME NEW w \in Uploads
      PROVE  (/\ uploads[w].pc \in {"verify", "persist"} => Anchored(uploads[w].segment)
              /\ uploads[w].pc = "persist" /\ uploads[w].sound => GoodSegment(uploads[w].segment))'
  <2> PICK z : z = uploads'[w]
    OBVIOUS
  <2>1. /\ z.pc \in {"verify", "persist"} => Anchored(z.segment)
        /\ z.pc = "persist" /\ z.sound => GoodSegment(z.segment)
    BY <1>3 DEF EvidenceInv
  <2>2. /\ z.pc \in {"verify", "persist"} => Anchored(z.segment)'
        /\ z.pc = "persist" /\ z.sound => GoodSegment(z.segment)'
    BY <1>2, <2>1
  <2> QED BY <2>2 DEF Anchored, GoodSegment
<1> QED BY <1>2, <1>3, <1>4 DEF EvidenceInv

\* An upload that only changes where it is.
LEMMA GotoStep ==
    ASSUME EvidenceInv, NEW u \in Uploads, uploads[u].pc # "idle",
           NEW pc \in {"content", "head", "raced", "verify", "respond"}, Goto(u, pc),
           UNCHANGED <<evidenceBatches, evidenceEvents>>,
           pc = "verify" => Anchored(uploads[u].segment)
    PROVE  EvidenceInv'
<1> PICK y : y = [uploads[u] EXCEPT !.pc = pc]
  OBVIOUS
<1>1. uploads[u] \in Upload
  BY DEF EvidenceInv, NoUpload
<1>2. y \in Upload /\ y.pc = pc /\ y.segment = uploads[u].segment
  BY <1>1 DEF Upload
<1>3. uploads' = [uploads EXCEPT ![u] = y]
  BY DEF Goto
<1> QED BY <1>2, <1>3, UploadMove

LEMMA EndUploadStep ==
    ASSUME EvidenceInv, NEW u \in Uploads, EndUpload(u),
           UNCHANGED <<evidenceBatches, evidenceEvents>>
    PROVE  EvidenceInv'
<1>1. NoUpload.pc = "idle"
  BY DEF NoUpload
<1> QED BY <1>1, UploadMove DEF EndUpload

LEMMA SubmitStep ==
    ASSUME EvidenceInv, NEW u \in Uploads, SubmitBatch(u)
    PROVE  EvidenceInv'
<1>1. PICK s \in Segments, k \in IngestKeys \cup {NoKey} :
          uploads' = [uploads EXCEPT ![u] = [pc |-> IF k = NoKey THEN "content" ELSE "idempotency",
                                             segment |-> s, key |-> k, sound |-> FALSE]]
  BY DEF SubmitBatch
<1> PICK y : y = [pc |-> IF k = NoKey THEN "content" ELSE "idempotency",
                  segment |-> s, key |-> k, sound |-> FALSE]
  OBVIOUS
<1>2. y \in Upload /\ y.pc \notin {"verify", "persist"}
  BY DEF Upload
<1> QED BY <1>1, <1>2, UploadMove DEF SubmitBatch, EvidenceTablesUnchanged

LEMMA ReadChainHeadStep ==
    ASSUME EvidenceInv, NEW u \in Uploads, ReadChainHead(u)
    PROVE  EvidenceInv'
<1>1. PICK expected \in CurrentChainHeads :
          Goto(u, IF FirstPrev(uploads[u].segment) = expected THEN "verify" ELSE "raced")
  BY DEF ReadChainHead
<1>2. FirstPrev(uploads[u].segment) = expected => Anchored(uploads[u].segment)
  BY DEF CurrentChainHeads, OpenHeads, Anchored
<1>3. uploads[u].pc # "idle" /\ UNCHANGED <<evidenceBatches, evidenceEvents>>
  BY DEF ReadChainHead, EvidenceTablesUnchanged
<1>4. CASE FirstPrev(uploads[u].segment) = expected
  BY <1>1, <1>2, <1>3, <1>4, GotoStep
<1>5. CASE FirstPrev(uploads[u].segment) # expected
  BY <1>1, <1>3, <1>5, GotoStep
<1> QED BY <1>4, <1>5

\* verifyEvidenceEvents finds no issue only in a segment of good events.
LEMMA SoundSegment ==
    ASSUME EvidenceInv, NEW s \in Segments, \A i \in 1..Len(s) : ~EventIssue(s, i)
    PROVE  GoodSegment(s)
<1>1. \A i \in 1..Len(s) : s[i].intact
  BY DEF EventIssue
<1>2. \A i \in 1..Len(s) : s[i].type = "decision" => s[i].decision \in {"allowed", "denied"}
  BY DEF EventIssue
<1>3. ASSUME NEW i \in 1..Len(s), s[i].type = "outcome"
      PROVE  \E d \in EventsOf(s) \cup evidenceEvents : Answers(d, s[i])
  <2>1. ~OutcomeIssue(s, i)
    BY <1>3 DEF EventIssue
  <2>2. PICK d \in DecisionsFor(s, i) : d.decision # "denied"
    BY <2>1 DEF OutcomeIssue
  <2>3. CASE \E j \in 1..(i - 1) : d = s[j] /\ s[j].type = "decision" /\ s[j].id = s[i].ref
    <3>1. PICK j \in 1..(i - 1) : d = s[j] /\ s[j].type = "decision" /\ s[j].id = s[i].ref
      BY <2>3
    <3>2. j \in 1..Len(s)
      BY SegmentAssumption
    <3> QED BY <1>1, <1>2, <2>2, <3>1, <3>2 DEF Answers, EventsOf
  <2>4. CASE d \in evidenceEvents /\ d.type = "decision" /\ d.id = s[i].ref
    BY <2>2, <2>4 DEF EvidenceInv, GoodEvent, Answers
  <2> QED BY <2>3, <2>4 DEF DecisionsFor
<1> QED BY <1>1, <1>2, <1>3 DEF GoodSegment, GoodEvent, EventsOf

LEMMA VerifyStep ==
    ASSUME EvidenceInv, NEW u \in Uploads, VerifyEvidenceEvents(u)
    PROVE  EvidenceInv'
<1> PICK s : s = uploads[u].segment
  OBVIOUS
<1> DEFINE sound == \A i \in 1..Len(s) : ~EventIssue(s, i)
           y == [uploads[u] EXCEPT !.pc = "persist", !.sound = sound]
<1>1. uploads[u] \in Upload /\ uploads[u].pc = "verify" /\ s \in Segments
  BY DEF EvidenceInv, NoUpload, VerifyEvidenceEvents, Upload
<1>2. /\ uploads' = [uploads EXCEPT ![u] = y]
      /\ UNCHANGED <<evidenceBatches, evidenceEvents>>
  BY <1>1 DEF VerifyEvidenceEvents, EvidenceTablesUnchanged, EvidenceInv
<1>3. sound \in BOOLEAN
  BY Zenon
<1>4. sound => GoodSegment(s)
  BY <1>1, SoundSegment
<1> HIDE DEF sound
<1>5. y \in Upload /\ y.pc = "persist" /\ y.segment = s /\ y.sound = sound
  BY <1>1, <1>3 DEF Upload
<1> HIDE DEF y
<1>6. Anchored(s)
  BY <1>1 DEF EvidenceInv
<1>7. y.sound => GoodSegment(s)
  BY <1>4, <1>5
<1> QED BY <1>2, <1>5, <1>6, <1>7, UploadMove

\* More verified segments and more stored events keep what an upload relies on.
LEMMA PersistVerifiedStep ==
    ASSUME EvidenceInv, NEW u \in Uploads, PersistVerified(u)
    PROVE  EvidenceInv'
<1> PICK s : s = uploads[u].segment
  OBVIOUS
<1> PICK y : y = [uploads[u] EXCEPT !.pc = "respond"]
  OBVIOUS
<1> PICK batch : batch = [content |-> s, state |-> "verified"]
  OBVIOUS
<1>1. /\ uploads[u].pc = "persist" /\ uploads[u].sound /\ ~ChainSlotTaken(s)
      /\ evidenceBatches' = evidenceBatches \cup {batch}
      /\ evidenceEvents' = evidenceEvents \cup EventsOf(s)
      /\ uploads' = [uploads EXCEPT ![u] = y]
  BY DEF PersistVerified, Goto
<1>2. uploads[u] \in Upload
  BY <1>1 DEF EvidenceInv, NoUpload
<1>3. y \in Upload /\ y.pc = "respond"
  BY <1>2 DEF Upload
<1>4. VerifiedSegments' = VerifiedSegments \cup {s}
  <2>1. batch.content = s /\ batch.state = "verified"
    OBVIOUS
  <2> QED BY <1>1, <2>1 DEF VerifiedSegments
<1>5. Anchored(s) /\ GoodSegment(s)
  BY <1>1 DEF EvidenceInv
<1>6. \A n : Anchored(n) => Anchored(n)'
  BY <1>4 DEF Anchored
<1>7. \A n : GoodSegment(n) => GoodSegment(n)'
  BY <1>1 DEF GoodSegment, GoodEvent
<1>8. VerifiedBatchesFormOneChain'
  <2>1. \A n, m \in VerifiedSegments' : FirstPrev(n) = FirstPrev(m) => n = m
    BY <1>1, <1>4 DEF EvidenceInv, VerifiedBatchesFormOneChain, ChainSlotTaken
  <2>2. \A n \in VerifiedSegments' : Anchored(n)'
    BY <1>4, <1>5, <1>6 DEF EvidenceInv, VerifiedBatchesFormOneChain, Anchored
  <2> QED BY <2>1, <2>2 DEF VerifiedBatchesFormOneChain, Anchored
<1>9. EventsOfVerifiedBatches'
  BY <1>1, <1>4 DEF EvidenceInv, EventsOfVerifiedBatches
<1>10. \A e \in evidenceEvents' : GoodEvent(e, evidenceEvents)'
  <2>1. ASSUME NEW e \in evidenceEvents PROVE GoodEvent(e, evidenceEvents')
    BY <1>1 DEF EvidenceInv, GoodEvent
  <2>2. ASSUME NEW e \in EventsOf(s) PROVE GoodEvent(e, evidenceEvents')
    BY <1>1, <1>5 DEF GoodSegment, GoodEvent
  <2> QED BY <1>1, <2>1, <2>2
<1>11. /\ uploads' \in [Uploads -> {NoUpload} \cup Upload]
       /\ uploads'[u] = y
       /\ \A w \in Uploads : w # u => uploads'[w] = uploads[w]
  BY <1>1, <1>3 DEF EvidenceInv
<1>12. ASSUME NEW w \in Uploads
       PROVE  (/\ uploads[w].pc \in {"verify", "persist"} => Anchored(uploads[w].segment)
               /\ uploads[w].pc = "persist" /\ uploads[w].sound => GoodSegment(uploads[w].segment))'
  <2> PICK z : z = uploads'[w]
    OBVIOUS
  <2>1. /\ z.pc \in {"verify", "persist"} => Anchored(z.segment)
        /\ z.pc = "persist" /\ z.sound => GoodSegment(z.segment)
    BY <1>3, <1>11 DEF EvidenceInv
  <2>2. /\ z.pc \in {"verify", "persist"} => Anchored(z.segment)'
        /\ z.pc = "persist" /\ z.sound => GoodSegment(z.segment)'
    BY <1>6, <1>7, <2>1
  <2> QED BY <2>2 DEF Anchored, GoodSegment
<1> QED BY <1>8, <1>9, <1>10, <1>11, <1>12 DEF EvidenceInv

\* A rejected batch adds no verified segment and no event.
LEMMA PersistRejectedStep ==
    ASSUME EvidenceInv, NEW u \in Uploads, PersistRejected(u)
    PROVE  EvidenceInv'
<1> PICK s : s = uploads[u].segment
  OBVIOUS
<1> PICK y : y = [uploads[u] EXCEPT !.pc = "respond"]
  OBVIOUS
<1> PICK batch : batch = [content |-> s, state |-> "rejected"]
  OBVIOUS
<1>1. /\ uploads[u].pc = "persist"
      /\ evidenceBatches' = evidenceBatches \cup {batch}
      /\ evidenceEvents' = evidenceEvents
      /\ uploads' = [uploads EXCEPT ![u] = y]
  BY DEF PersistRejected, Goto
<1>2. uploads[u] \in Upload
  BY <1>1 DEF EvidenceInv, NoUpload
<1>3. y \in Upload /\ y.pc = "respond"
  BY <1>2 DEF Upload
<1>4. VerifiedSegments' = VerifiedSegments
  <2>1. batch.state = "rejected"
    OBVIOUS
  <2> QED BY <1>1, <2>1 DEF VerifiedSegments
<1>5. /\ \A n : Anchored(n)' <=> Anchored(n)
      /\ \A n : GoodSegment(n)' <=> GoodSegment(n)
  BY <1>1, <1>4 DEF Anchored, GoodSegment
<1>6. VerifiedBatchesFormOneChain' /\ EventsOfVerifiedBatches'
  BY <1>1, <1>4 DEF EvidenceInv, VerifiedBatchesFormOneChain, EventsOfVerifiedBatches
<1>7. /\ uploads' \in [Uploads -> {NoUpload} \cup Upload]
      /\ uploads'[u] = y
      /\ \A w \in Uploads : w # u => uploads'[w] = uploads[w]
  BY <1>1, <1>3 DEF EvidenceInv
<1>8. ASSUME NEW w \in Uploads
      PROVE  (/\ uploads[w].pc \in {"verify", "persist"} => Anchored(uploads[w].segment)
              /\ uploads[w].pc = "persist" /\ uploads[w].sound => GoodSegment(uploads[w].segment))'
  <2> PICK z : z = uploads'[w]
    OBVIOUS
  <2>1. /\ z.pc \in {"verify", "persist"} => Anchored(z.segment)
        /\ z.pc = "persist" /\ z.sound => GoodSegment(z.segment)
    BY <1>3, <1>7 DEF EvidenceInv
  <2>2. /\ z.pc \in {"verify", "persist"} => Anchored(z.segment)'
        /\ z.pc = "persist" /\ z.sound => GoodSegment(z.segment)'
    BY <1>5, <2>1
  <2> QED BY <2>2 DEF Anchored, GoodSegment
<1> QED BY <1>1, <1>6, <1>7, <1>8 DEF EvidenceInv

LEMMA EvidenceInvStep == EvidenceInv /\ [EvidenceNext]_evidenceVars => EvidenceInv'
<1> SUFFICES ASSUME EvidenceInv, [EvidenceNext]_evidenceVars PROVE EvidenceInv'
    OBVIOUS
<1>1. ASSUME NEW u \in Uploads, SubmitBatch(u) PROVE EvidenceInv'
  BY <1>1, SubmitStep
<1>2. ASSUME NEW u \in Uploads, ReadIngestIdempotency(u) PROVE EvidenceInv'
  BY <1>2, GotoStep, EndUploadStep DEF ReadIngestIdempotency, EvidenceTablesUnchanged
<1>3. ASSUME NEW u \in Uploads, ReadBatchByContent(u) PROVE EvidenceInv'
  BY <1>3, GotoStep DEF ReadBatchByContent, EvidenceTablesUnchanged
<1>4. ASSUME NEW u \in Uploads, ReadChainHead(u) PROVE EvidenceInv'
  BY <1>4, ReadChainHeadStep
<1>5. ASSUME NEW u \in Uploads, RereadBatchByContent(u) PROVE EvidenceInv'
  BY <1>5, GotoStep, EndUploadStep DEF RereadBatchByContent, EvidenceTablesUnchanged
<1>6. ASSUME NEW u \in Uploads, VerifyEvidenceEvents(u) PROVE EvidenceInv'
  BY <1>6, VerifyStep
<1>7. ASSUME NEW u \in Uploads, PersistVerified(u) PROVE EvidenceInv'
  BY <1>7, PersistVerifiedStep
<1>8. ASSUME NEW u \in Uploads, PersistRejected(u) PROVE EvidenceInv'
  BY <1>8, PersistRejectedStep
<1>9. ASSUME NEW u \in Uploads, PersistRefused(u) PROVE EvidenceInv'
  BY <1>9, GotoStep, EndUploadStep DEF PersistRefused, EvidenceTablesUnchanged
<1>10. ASSUME NEW u \in Uploads, RespondEvidenceBatch(u) PROVE EvidenceInv'
  BY <1>10, EndUploadStep DEF RespondEvidenceBatch
<1>11. ASSUME NEW u \in Uploads, AbandonUpload(u) PROVE EvidenceInv'
  BY <1>11, EndUploadStep DEF AbandonUpload, EvidenceTablesUnchanged
<1>12. CASE UNCHANGED evidenceVars
  <2>1. UNCHANGED <<evidenceBatches, evidenceEvents, uploads>>
    BY <1>12 DEF evidenceVars
  <2>2. VerifiedSegments' = VerifiedSegments
    BY <2>1 DEF VerifiedSegments
  <2>3. VerifiedBatchesFormOneChain' /\ EventsOfVerifiedBatches'
    BY <2>1, <2>2 DEF EvidenceInv, VerifiedBatchesFormOneChain, EventsOfVerifiedBatches
  <2> QED BY <2>1, <2>2, <2>3 DEF EvidenceInv, Anchored, GoodSegment
<1> QED BY <1>1, <1>2, <1>3, <1>4, <1>5, <1>6, <1>7, <1>8, <1>9, <1>10, <1>11, <1>12
       DEF EvidenceNext

(* Whatever uploads race, fail or repeat, the verified batches form one     *)
(* chain and the stored events are exactly theirs                           *)
(* (handleEvidenceBatchSubmit, persistEvidenceBatch), for every set of      *)
(* uploads and non-empty segments.                                          *)
THEOREM EvidenceSafety ==
    EvidenceSpec => [](VerifiedBatchesFormOneChain /\ EventsOfVerifiedBatches)
<1>1. EvidenceInv => VerifiedBatchesFormOneChain /\ EventsOfVerifiedBatches
  BY DEF EvidenceInv
<1> QED BY <1>1, EvidenceInvInit, EvidenceInvStep, PTL DEF EvidenceSpec

(* Every stored outcome answers a stored decision that allowed it, although *)
(* an upload is verified against rows read before it is persisted           *)
(* (verifyEvidenceEvents, persistEvidenceBatch).                            *)
THEOREM OutcomesHaveDecisions == EvidenceSpec => []OutcomesAnswerAllowedDecisions
<1>1. EvidenceInv => OutcomesAnswerAllowedDecisions
  BY DEF EvidenceInv, GoodEvent, Answers, OutcomesAnswerAllowedDecisions
<1> QED BY <1>1, EvidenceInvInit, EvidenceInvStep, PTL DEF EvidenceSpec

-----------------------------------------------------------------------------
(* Honest segments                                                         *)

\* Each event of the segment continues the one before it.
Linked(s) == \A i \in 2..Len(s) : s[i].prev = s[i - 1].hash

\* What is stored of the client's journal has no gap.
NoGap == \A k \in 2..Len(ClientJournal) :
            ClientJournal[k] \in evidenceEvents => ClientJournal[k - 1] \in evidenceEvents

\* What an upload that was verified knows of its segment.
Judged(y) == y.pc = "persist" => /\ y.sound => Linked(y.segment)
                                 /\ HonestSegment(y.segment) => y.sound

HonestInv ==
    /\ StoredSegments \subseteq Segments
    /\ NoGap
    /\ \A u \in Uploads : Judged(uploads[u])
    /\ SoundEvidenceNeverRejected

\* What ClientAssumption says of one event of the journal.
LEMMA JournalEvent ==
    ASSUME NEW k \in 1..Len(ClientJournal)
    PROVE  LET e == ClientJournal[k]
           IN  /\ e \in ClientEvents /\ e.intact /\ e.hash # Genesis
               /\ k = 1 => e.prev = Genesis
               /\ k > 1 => /\ k - 1 \in 1..Len(ClientJournal)
                           /\ e.prev = ClientJournal[k - 1].hash
               /\ e.type = "decision" => e.decision \in {"allowed", "denied"}
  BY ClientAssumption DEF ClientEvents, EventsOf

\* An outcome of the journal follows the decision it answers and no other outcome of it.
LEMMA JournalOutcome ==
    ASSUME NEW k \in 1..Len(ClientJournal), ClientJournal[k].type = "outcome"
    PROVE  /\ \E j \in 1..(k - 1) : /\ ClientJournal[j].type = "decision"
                                    /\ ClientJournal[j].id = ClientJournal[k].ref
                                    /\ ClientJournal[j].decision = "allowed"
           /\ \A j \in 1..(k - 1) : ~ (/\ ClientJournal[j].type = "outcome"
                                       /\ ClientJournal[j].ref = ClientJournal[k].ref)
  BY ClientAssumption

\* An event that verifies and has the hash of a journal event is that event.
LEMMA SameEvent ==
    ASSUME NEW k \in 1..Len(ClientJournal), NEW e \in ClientEvents, e.intact,
           e.hash = ClientJournal[k].hash
    PROVE  e = ClientJournal[k]
  BY JournalEvent, EventAssumption

LEMMA StoredEvents ==
    ASSUME EvidenceInv, HonestInv
    PROVE  \A e \in evidenceEvents : e \in ClientEvents /\ e.intact
<1>1. VerifiedSegments \subseteq Segments
  BY DEF HonestInv, VerifiedSegments, StoredSegments
<1>2. \A e \in evidenceEvents : e \in ClientEvents
  BY <1>1 DEF EvidenceInv, EventsOfVerifiedBatches, ClientEvents
<1> QED BY <1>2 DEF EvidenceInv, GoodEvent

\* The event before an anchored segment that starts inside the journal is stored.
LEMMA EventBefore ==
    ASSUME EvidenceInv, HonestInv, NEW s, Anchored(s),
           NEW k \in 2..Len(ClientJournal), s[1] = ClientJournal[k]
    PROVE  ClientJournal[k - 1] \in evidenceEvents
<1>0. k \in 1..Len(ClientJournal) /\ k > 1
  BY ClientAssumption
<1>1. k - 1 \in 1..Len(ClientJournal) /\ FirstPrev(s) = ClientJournal[k - 1].hash
  BY <1>0, JournalEvent DEF FirstPrev
<1>2. FirstPrev(s) # Genesis
  BY <1>1, JournalEvent
<1>3. PICK n \in VerifiedSegments : ChainHead(n) = FirstPrev(s)
  BY <1>2 DEF Anchored
<1>4. n \in Segments
  BY <1>3 DEF HonestInv, VerifiedSegments, StoredSegments
<1> PICK e : e = n[Len(n)]
  OBVIOUS
<1>5. Len(n) \in 1..Len(n)
  BY <1>4, SegmentAssumption
<1>6. e \in evidenceEvents
  BY <1>3, <1>5 DEF EvidenceInv, EventsOfVerifiedBatches, EventsOf
<1>7. e.hash = ClientJournal[k - 1].hash
  BY <1>1, <1>3 DEF ChainHead
<1>8. e \in ClientEvents /\ e.intact
  BY <1>6, StoredEvents
<1>9. e = ClientJournal[k - 1]
  BY <1>1, <1>7, <1>8, SameEvent
<1> QED BY <1>6, <1>9

\* With an event of the journal, all before it are stored.
LEMMA PrefixStored ==
    ASSUME NoGap, NEW k \in 1..Len(ClientJournal), ClientJournal[k] \in evidenceEvents,
           NEW m \in 1..k
    PROVE  ClientJournal[m] \in evidenceEvents
<1> DEFINE M == {i \in 1..k : ClientJournal[i] \notin evidenceEvents}
<1> SUFFICES ASSUME M # {} PROVE FALSE
  OBVIOUS
<1>0. k \in Nat
  BY ClientAssumption
<1>1. M \subseteq 0..k
  BY <1>0
<1>2. PICK x \in M : \A y \in M : y <= x
  <2> HIDE DEF M
  <2> QED BY <1>0, <1>1, Greatest
<1>3. x \in 1..k /\ x # k
  BY <1>2
<1>4. x + 1 \in 1..k /\ x + 1 \in 2..Len(ClientJournal) /\ (x + 1) - 1 = x
  BY <1>0, <1>3, ClientAssumption
<1>5. x + 1 \notin M
  BY <1>0, <1>2, <1>3
<1>6. ClientJournal[x + 1] \in evidenceEvents
  BY <1>4, <1>5
<1>7. ClientJournal[x] \in evidenceEvents
  BY <1>4, <1>6 DEF NoGap
<1> QED BY <1>2, <1>7

\* The segment s is the piece of the journal that starts at position a.
PieceAt(s, a) ==
    /\ Len(s) \in Nat \ {0}
    /\ \A i \in 1..Len(s) : /\ a + i - 1 \in 1..Len(ClientJournal)
                            /\ s[i] = ClientJournal[a + i - 1]

LEMMA HonestPiece ==
    ASSUME NEW s, HonestSegment(s)
    PROVE  \E a \in 1..Len(ClientJournal) : PieceAt(s, a)
<1>1. PICK a, b \in 1..Len(ClientJournal) : a <= b /\ s = SubSeq(ClientJournal, a, b)
  BY DEF HonestSegment
<1>2. a \in Int /\ b \in Int
  BY ClientAssumption
<1> DEFINE S == EventsOf(ClientJournal)
<1>3. \A i \in a..b : ClientJournal[i] \in S
  BY <1>2, ClientAssumption DEF EventsOf
<1> HIDE DEF S
<1>4. /\ Len(s) = IF a <= b THEN b - a + 1 ELSE 0
      /\ \A i \in 1..(b - a + 1) : s[i] = ClientJournal[a + i - 1]
  BY <1>1, <1>2, <1>3, SubSeqProperties
<1> QED BY <1>1, <1>2, <1>4, ClientAssumption DEF PieceAt

\* What an outcome of the journal has behind it: its decision, stored or in its segment.
LEMMA HonestOutcome ==
    ASSUME EvidenceInv, HonestInv, NEW s, Anchored(s), NEW a \in 1..Len(ClientJournal),
           PieceAt(s, a), NEW i \in 1..Len(s), s[i].type = "outcome"
    PROVE  ~OutcomeIssue(s, i)
<1> PICK k : k = a + i - 1
  OBVIOUS
<1>1. /\ k \in 1..Len(ClientJournal) /\ s[i] = ClientJournal[k]
      /\ k \in Nat /\ a \in Nat /\ i \in Nat /\ Len(s) \in Nat
  BY ClientAssumption DEF PieceAt
<1>2. PICK j \in 1..(k - 1) : /\ ClientJournal[j].type = "decision"
                              /\ ClientJournal[j].id = s[i].ref
                              /\ ClientJournal[j].decision = "allowed"
  BY <1>1, JournalOutcome
<1>3. j \in 1..Len(ClientJournal) /\ j \in Nat
  BY <1>1, ClientAssumption
<1>4. \A m \in 1..(i - 1) : /\ m \in 1..Len(s) /\ a + m - 1 \in 1..(k - 1)
                            /\ s[m] = ClientJournal[a + m - 1]
  <2>1. \A m \in 1..(i - 1) : m \in 1..Len(s) /\ a + m - 1 \in 1..(k - 1)
    BY <1>1
  <2> QED BY <2>1 DEF PieceAt
<1>5. ASSUME NEW d \in DecisionsFor(s, i) PROVE d = ClientJournal[j]
  <2>1. d.type = "decision" /\ d.id = s[i].ref
    BY DEF DecisionsFor
  <2>2. CASE d \in evidenceEvents
    <3>1. d \in ClientEvents /\ d.intact
      BY <2>2, StoredEvents
    <3> QED BY <1>2, <1>3, <2>1, <3>1, JournalEvent, EventAssumption
  <2>3. CASE \E m \in 1..(i - 1) : d = s[m]
    <3>1. PICK m \in 1..(i - 1) : d = s[m]
      BY <2>3
    <3>2. PICK n \in 1..Len(ClientJournal) : d = ClientJournal[n]
      <4>1. a + m - 1 \in 1..Len(ClientJournal)
        BY <1>4 DEF PieceAt
      <4> QED BY <1>4, <3>1, <4>1
    <3>3. d \in ClientEvents /\ d.intact
      BY <3>2, JournalEvent
    <3> QED BY <1>2, <1>3, <2>1, <3>3, JournalEvent, EventAssumption
  <2> QED BY <2>2, <2>3 DEF DecisionsFor
<1>6. DecisionsFor(s, i) # {}
  <2>1. CASE j >= a
    <3> PICK m : m = j - a + 1
      OBVIOUS
    <3>1. m \in 1..(i - 1) /\ s[m] = ClientJournal[j]
      <4>1. i \in Nat /\ j <= a + i - 2
        BY <1>1, <1>2, <1>3
      <4>2. m \in 1..(i - 1) /\ a + m - 1 = j
        BY <1>1, <1>3, <2>1, <4>1
      <4>3. s[m] = ClientJournal[a + m - 1]
        BY <1>4, <4>2
      <4> QED BY <4>2, <4>3
    <3> QED BY <1>2, <3>1 DEF DecisionsFor
  <2>2. CASE j < a
    <3>1. a \in 2..Len(ClientJournal) /\ a - 1 \in 1..Len(ClientJournal) /\ j \in 1..(a - 1)
      BY <1>1, <1>3, <2>2, ClientAssumption
    <3>2. s[1] = ClientJournal[a]
      <4>1. 1 \in 1..Len(s) /\ a + 1 - 1 = a
        BY <1>1
      <4> QED BY <4>1 DEF PieceAt
    <3>3. ClientJournal[a - 1] \in evidenceEvents
      BY <3>1, <3>2, EventBefore
    <3>4. ClientJournal[j] \in evidenceEvents
      BY <3>1, <3>3, PrefixStored DEF HonestInv
    <3> QED BY <1>2, <3>4 DEF DecisionsFor
  <2> QED BY <1>1, <1>3, <2>1, <2>2
<1>7. ~ \E d \in DecisionsFor(s, i) : d.decision = "denied"
  BY <1>2, <1>5
<1>8. ~ \E m \in 1..(i - 1) : s[m].type = "outcome" /\ s[m].ref = s[i].ref
  <2>1. \A n \in 1..(k - 1) : ~ (ClientJournal[n].type = "outcome" /\ ClientJournal[n].ref = s[i].ref)
    BY <1>1, JournalOutcome
  <2> QED BY <1>4, <2>1
<1> QED BY <1>6, <1>7, <1>8 DEF OutcomeIssue

\* verifyEvidenceEvents finds no issue in a piece of the journal that passed the chain
\* head check.
LEMMA HonestIsSound ==
    ASSUME EvidenceInv, HonestInv, NEW s, HonestSegment(s), Anchored(s)
    PROVE  \A i \in 1..Len(s) : ~EventIssue(s, i)
<1>1. PICK a \in 1..Len(ClientJournal) : PieceAt(s, a)
  BY HonestPiece
<1> SUFFICES ASSUME NEW i \in 1..Len(s) PROVE ~EventIssue(s, i)
  OBVIOUS
<1> PICK k : k = a + i - 1
  OBVIOUS
<1>2. /\ k \in 1..Len(ClientJournal) /\ s[i] = ClientJournal[k]
      /\ k \in Nat /\ a \in Nat /\ i \in Nat /\ Len(s) \in Nat
  BY <1>1, ClientAssumption DEF PieceAt
<1>3. s[i].intact /\ (s[i].type = "decision" => s[i].decision \in {"allowed", "denied"})
  BY <1>2, JournalEvent
<1>4. ASSUME i > 1 PROVE s[i].prev = s[i - 1].hash
  <2>1. i - 1 \in 1..Len(s) /\ a + (i - 1) - 1 = k - 1 /\ k > 1
    BY <1>2, <1>4
  <2>2. s[i - 1] = ClientJournal[k - 1]
    BY <1>1, <2>1 DEF PieceAt
  <2> QED BY <1>2, <2>1, <2>2, JournalEvent
<1>5. s[i].type = "outcome" => ~OutcomeIssue(s, i)
  BY <1>1, HonestOutcome
<1> QED BY <1>3, <1>4, <1>5 DEF EventIssue

\* A step of one upload that stores nothing.
LEMMA HonestMove ==
    ASSUME HonestInv, NEW u \in Uploads, NEW y, uploads \in [Uploads -> {NoUpload} \cup Upload],
           uploads' = [uploads EXCEPT ![u] = y], Judged(y),
           UNCHANGED <<evidenceBatches, evidenceEvents>>
    PROVE  HonestInv'
<1>1. StoredSegments' = StoredSegments /\ NoGap' /\ SoundEvidenceNeverRejected'
  BY DEF HonestInv, StoredSegments, NoGap, SoundEvidenceNeverRejected
<1>2. \A w \in Uploads : uploads'[w] = IF w = u THEN y ELSE uploads[w]
  OBVIOUS
<1>3. \A w \in Uploads : Judged(uploads'[w])
  BY <1>2 DEF HonestInv
<1>4. \A w \in Uploads : Judged(uploads[w])'
  BY <1>3 DEF Judged
<1> QED BY <1>1, <1>4 DEF HonestInv

LEMMA HonestGoto ==
    ASSUME EvidenceInv, HonestInv, NEW u \in Uploads, uploads[u].pc # "idle",
           NEW pc \in {"content", "head", "raced", "verify", "respond"}, Goto(u, pc),
           UNCHANGED <<evidenceBatches, evidenceEvents>>
    PROVE  HonestInv'
<1> PICK y : y = [uploads[u] EXCEPT !.pc = pc]
  OBVIOUS
<1>1. uploads[u] \in Upload
  BY DEF EvidenceInv, NoUpload
<1>2. y.pc = pc
  BY <1>1 DEF Upload
<1>3. Judged(y)
  BY <1>2 DEF Judged
<1> QED BY <1>3, HonestMove DEF Goto, EvidenceInv

LEMMA HonestEnd ==
    ASSUME EvidenceInv, HonestInv, NEW u \in Uploads, EndUpload(u),
           UNCHANGED <<evidenceBatches, evidenceEvents>>
    PROVE  HonestInv'
<1>1. Judged(NoUpload)
  BY DEF Judged, NoUpload
<1> QED BY <1>1, HonestMove DEF EndUpload, EvidenceInv

LEMMA HonestSubmit ==
    ASSUME EvidenceInv, HonestInv, NEW u \in Uploads, SubmitBatch(u)
    PROVE  HonestInv'
<1>1. PICK s \in Segments, k \in IngestKeys \cup {NoKey} :
          uploads' = [uploads EXCEPT ![u] = [pc |-> IF k = NoKey THEN "content" ELSE "idempotency",
                                             segment |-> s, key |-> k, sound |-> FALSE]]
  BY DEF SubmitBatch
<1> PICK y : y = [pc |-> IF k = NoKey THEN "content" ELSE "idempotency",
                  segment |-> s, key |-> k, sound |-> FALSE]
  OBVIOUS
<1>2. y.pc # "persist"
  OBVIOUS
<1>3. Judged(y)
  BY <1>2 DEF Judged
<1> QED BY <1>1, <1>3, HonestMove DEF SubmitBatch, EvidenceTablesUnchanged, EvidenceInv

LEMMA HonestVerify ==
    ASSUME EvidenceInv, HonestInv, NEW u \in Uploads, VerifyEvidenceEvents(u)
    PROVE  HonestInv'
<1> PICK s : s = uploads[u].segment
  OBVIOUS
<1> DEFINE sound == \A i \in 1..Len(s) : ~EventIssue(s, i)
           y == [uploads[u] EXCEPT !.pc = "persist", !.sound = sound]
<1>1. /\ uploads[u] \in Upload /\ uploads[u].pc = "verify" /\ s \in Segments
      /\ uploads \in [Uploads -> {NoUpload} \cup Upload]
  BY DEF EvidenceInv, NoUpload, VerifyEvidenceEvents, Upload
<1>2. /\ uploads' = [uploads EXCEPT ![u] = y]
      /\ UNCHANGED <<evidenceBatches, evidenceEvents>>
  BY <1>1 DEF VerifyEvidenceEvents, EvidenceTablesUnchanged
<1>3. sound => Linked(s)
  <2>1. Len(s) \in Nat
    BY <1>1, SegmentAssumption
  <2> QED BY <2>1 DEF EventIssue, Linked
<1>4. HonestSegment(s) => sound
  <2>1. Anchored(s)
    BY <1>1 DEF EvidenceInv
  <2> QED BY <2>1, HonestIsSound
<1> HIDE DEF sound
<1>5. y.segment = s /\ y.sound = sound
  BY <1>1 DEF Upload
<1> HIDE DEF y
<1>6. Judged(y)
  BY <1>3, <1>4, <1>5 DEF Judged
<1> QED BY <1>1, <1>2, <1>6, HonestMove

\* A verified segment leaves no gap: an event of it continues the one before it in the
\* segment, and the first one a stored event.
LEMMA HonestPersist ==
    ASSUME EvidenceInv, HonestInv, NEW u \in Uploads, PersistVerified(u)
    PROVE  HonestInv'
<1> PICK s : s = uploads[u].segment
  OBVIOUS
<1> PICK y : y = [uploads[u] EXCEPT !.pc = "respond"]
  OBVIOUS
<1> PICK batch : batch = [content |-> s, state |-> "verified"]
  OBVIOUS
<1>1. /\ uploads[u].pc = "persist" /\ uploads[u].sound
      /\ evidenceBatches' = evidenceBatches \cup {batch}
      /\ evidenceEvents' = evidenceEvents \cup EventsOf(s)
      /\ uploads' = [uploads EXCEPT ![u] = y]
      /\ uploads \in [Uploads -> {NoUpload} \cup Upload]
  BY DEF PersistVerified, Goto, EvidenceInv
<1>2. uploads[u] \in Upload /\ s \in Segments
  BY <1>1 DEF NoUpload, Upload
<1>3. Anchored(s) /\ GoodSegment(s) /\ Linked(s)
  BY <1>1 DEF EvidenceInv, HonestInv, Judged
<1>4. Len(s) \in Nat /\ \A i \in 1..Len(s) : s[i] \in ClientEvents /\ s[i].intact /\ s[i].hash # Genesis
  <2>1. Len(s) \in Nat /\ \A i \in 1..Len(s) : s[i].hash # Genesis
    BY <1>2, SegmentAssumption
  <2>2. \A i \in 1..Len(s) : s[i] \in EventsOf(s)
    BY DEF EventsOf
  <2>3. \A e \in EventsOf(s) : e \in ClientEvents /\ e.intact
    BY <1>2, <1>3 DEF ClientEvents, GoodSegment, GoodEvent
  <2> QED BY <2>1, <2>2, <2>3
<1>5. NoGap'
  <2> SUFFICES ASSUME NEW k \in 2..Len(ClientJournal), ClientJournal[k] \in evidenceEvents'
               PROVE  ClientJournal[k - 1] \in evidenceEvents'
    BY DEF NoGap
  <2>0. k \in 1..Len(ClientJournal) /\ k - 1 \in 1..Len(ClientJournal) /\ k > 1
    BY ClientAssumption
  <2>1. CASE ClientJournal[k] \in evidenceEvents
    BY <1>1, <2>1 DEF HonestInv, NoGap
  <2>2. ASSUME NEW i \in 1..Len(s), ClientJournal[k] = s[i]
        PROVE  ClientJournal[k - 1] \in evidenceEvents'
    <3>1. CASE i = 1
      <4>1. ClientJournal[k - 1] \in evidenceEvents
        BY <1>3, <2>2, <3>1, EventBefore
      <4> QED BY <1>1, <4>1
    <3>2. CASE i # 1
      <4>1. i \in 2..Len(s) /\ i - 1 \in 1..Len(s)
        BY <1>4, <3>2
      <4>2. s[i].prev = s[i - 1].hash
        BY <1>3, <4>1 DEF Linked
      <4>3. s[i - 1].hash = ClientJournal[k - 1].hash
        BY <2>0, <2>2, <4>2, JournalEvent
      <4>4. s[i - 1] = ClientJournal[k - 1]
        BY <1>4, <2>0, <4>1, <4>3, SameEvent
      <4> QED BY <1>1, <4>1, <4>4 DEF EventsOf
    <3> QED BY <3>1, <3>2
  <2>3. ClientJournal[k] \in evidenceEvents \/ \E i \in 1..Len(s) : ClientJournal[k] = s[i]
    BY <1>1 DEF EventsOf
  <2> QED BY <2>1, <2>2, <2>3
<1>6. StoredSegments' \subseteq Segments
  BY <1>1, <1>2 DEF HonestInv, StoredSegments
<1>7. SoundEvidenceNeverRejected'
  <2>1. batch.state = "verified"
    OBVIOUS
  <2> QED BY <1>1, <2>1 DEF HonestInv, SoundEvidenceNeverRejected
<1>8. Judged(y)
  <2>1. y.pc = "respond"
    BY <1>2 DEF Upload
  <2> QED BY <2>1 DEF Judged
<1>9. \A w \in Uploads : Judged(uploads[w])'
  BY <1>1, <1>8 DEF HonestInv, Judged
<1> QED BY <1>5, <1>6, <1>7, <1>9 DEF HonestInv

LEMMA HonestReject ==
    ASSUME EvidenceInv, HonestInv, NEW u \in Uploads, PersistRejected(u)
    PROVE  HonestInv'
<1> PICK s : s = uploads[u].segment
  OBVIOUS
<1> PICK y : y = [uploads[u] EXCEPT !.pc = "respond"]
  OBVIOUS
<1> PICK batch : batch = [content |-> s, state |-> "rejected"]
  OBVIOUS
<1>1. /\ uploads[u].pc = "persist" /\ ~uploads[u].sound
      /\ evidenceBatches' = evidenceBatches \cup {batch}
      /\ evidenceEvents' = evidenceEvents
      /\ uploads' = [uploads EXCEPT ![u] = y]
      /\ uploads \in [Uploads -> {NoUpload} \cup Upload]
  BY DEF PersistRejected, Goto, EvidenceInv
<1>2. uploads[u] \in Upload /\ s \in Segments
  BY <1>1 DEF NoUpload, Upload
<1>3. ~HonestSegment(s)
  BY <1>1 DEF HonestInv, Judged
<1>4. NoGap'
  BY <1>1 DEF HonestInv, NoGap
<1>5. StoredSegments' \subseteq Segments
  BY <1>1, <1>2 DEF HonestInv, StoredSegments
<1>6. SoundEvidenceNeverRejected'
  <2>1. batch.content = s
    OBVIOUS
  <2> QED BY <1>1, <1>3, <2>1 DEF HonestInv, SoundEvidenceNeverRejected
<1>7. Judged(y)
  <2>1. y.pc = "respond"
    BY <1>2 DEF Upload
  <2> QED BY <2>1 DEF Judged
<1>8. \A w \in Uploads : Judged(uploads[w])'
  BY <1>1, <1>7 DEF HonestInv, Judged
<1> QED BY <1>4, <1>5, <1>6, <1>8 DEF HonestInv

LEMMA HonestInvInit == EvidenceInit => HonestInv
<1> SUFFICES ASSUME EvidenceInit PROVE HonestInv
    OBVIOUS
<1>1. StoredSegments = {}
  BY DEF EvidenceInit, StoredSegments
<1>2. \A u \in Uploads : Judged(uploads[u])
  BY DEF EvidenceInit, NoUpload, Judged
<1> QED BY <1>1, <1>2 DEF EvidenceInit, HonestInv, NoGap, SoundEvidenceNeverRejected

LEMMA HonestInvStep ==
    EvidenceInv /\ HonestInv /\ [EvidenceNext]_evidenceVars => HonestInv'
<1> SUFFICES ASSUME EvidenceInv, HonestInv, [EvidenceNext]_evidenceVars PROVE HonestInv'
    OBVIOUS
<1>1. ASSUME NEW u \in Uploads, SubmitBatch(u) PROVE HonestInv'
  BY <1>1, HonestSubmit
<1>2. ASSUME NEW u \in Uploads, ReadIngestIdempotency(u) PROVE HonestInv'
  BY <1>2, HonestGoto, HonestEnd DEF ReadIngestIdempotency, EvidenceTablesUnchanged
<1>3. ASSUME NEW u \in Uploads, ReadBatchByContent(u) PROVE HonestInv'
  BY <1>3, HonestGoto DEF ReadBatchByContent, EvidenceTablesUnchanged
<1>4. ASSUME NEW u \in Uploads, ReadChainHead(u) PROVE HonestInv'
  <2>1. \E pc \in {"verify", "raced"} : Goto(u, pc)
    BY <1>4 DEF ReadChainHead
  <2> QED BY <1>4, <2>1, HonestGoto DEF ReadChainHead, EvidenceTablesUnchanged
<1>5. ASSUME NEW u \in Uploads, RereadBatchByContent(u) PROVE HonestInv'
  BY <1>5, HonestGoto, HonestEnd DEF RereadBatchByContent, EvidenceTablesUnchanged
<1>6. ASSUME NEW u \in Uploads, VerifyEvidenceEvents(u) PROVE HonestInv'
  BY <1>6, HonestVerify
<1>7. ASSUME NEW u \in Uploads, PersistVerified(u) PROVE HonestInv'
  BY <1>7, HonestPersist
<1>8. ASSUME NEW u \in Uploads, PersistRejected(u) PROVE HonestInv'
  BY <1>8, HonestReject
<1>9. ASSUME NEW u \in Uploads, PersistRefused(u) PROVE HonestInv'
  BY <1>9, HonestGoto, HonestEnd DEF PersistRefused, EvidenceTablesUnchanged
<1>10. ASSUME NEW u \in Uploads, RespondEvidenceBatch(u) PROVE HonestInv'
  BY <1>10, HonestEnd DEF RespondEvidenceBatch
<1>11. ASSUME NEW u \in Uploads, AbandonUpload(u) PROVE HonestInv'
  BY <1>11, HonestEnd DEF AbandonUpload, EvidenceTablesUnchanged
<1>12. CASE UNCHANGED evidenceVars
  <2>1. UNCHANGED <<evidenceBatches, evidenceEvents, uploads>>
    BY <1>12 DEF evidenceVars
  <2> QED BY <2>1 DEF HonestInv, StoredSegments, NoGap, Judged, SoundEvidenceNeverRejected
<1> QED BY <1>1, <1>2, <1>3, <1>4, <1>5, <1>6, <1>7, <1>8, <1>9, <1>10, <1>11, <1>12
       DEF EvidenceNext

(* A rejection, which is stored for ever and replayed by content, never     *)
(* falls on a piece of the journal that one client wrote in order, whatever *)
(* other segments are uploaded, raced or repeated around it                 *)
(* (handleEvidenceBatchSubmit, verifyEvidenceEvents).                       *)
THEOREM SoundEvidenceAccepted == EvidenceSpec => []SoundEvidenceNeverRejected
<1>1. EvidenceInv /\ HonestInv => SoundEvidenceNeverRejected
  BY DEF HonestInv
<1> QED BY <1>1, EvidenceInvInit, EvidenceInvStep, HonestInvInit, HonestInvStep, PTL
       DEF EvidenceSpec

-----------------------------------------------------------------------------
(* Links                                                                   *)

LinkRow == [run : LinkRuns, batch : Batches]

LinkInv ==
    /\ links \in Seq(LinkRow)
    /\ \A l \in Linkers : linkers[l].pc = "eligible" =>
          linkers[l].run \in LinkRuns /\ linkers[l].batch \in Batches
    /\ linkers = [l \in Linkers |-> linkers[l]]
    /\ EvidenceProvesOneRun

LEMMA LinkInvStep == LinkInv /\ [LinkNext]_linkVars => LinkInv'
<1> SUFFICES ASSUME LinkInv, [LinkNext]_linkVars PROVE LinkInv'
    OBVIOUS
<1>1. ASSUME UNCHANGED links PROVE EvidenceProvesOneRun' /\ links' \in Seq(LinkRow)
  BY <1>1 DEF LinkInv, EvidenceProvesOneRun, LinkRows
<1>2. ASSUME NEW b \in Batches, NEW state, StoreBatch(b, state) PROVE LinkInv'
  BY <1>1, <1>2 DEF StoreBatch, LinkInv
<1>3. ASSUME NEW l \in Linkers, NEW run \in LinkRuns, NEW b \in Batches,
             EvaluateEligibility(l, run, b)
      PROVE  LinkInv'
  BY <1>1, <1>3 DEF EvaluateEligibility, LinkInv
<1>4. ASSUME NEW l \in Linkers, linkers' = [linkers EXCEPT ![l] = NoLink]
      PROVE  /\ \A m \in Linkers : linkers'[m].pc = "eligible" =>
                   linkers'[m].run \in LinkRuns /\ linkers'[m].batch \in Batches
             /\ linkers' = [m \in Linkers |-> linkers'[m]]
  BY <1>4 DEF LinkInv, NoLink
<1>5. ASSUME NEW l \in Linkers, InsertLink(l) PROVE LinkInv'
  <2> PICK link : link = [run |-> linkers[l].run, batch |-> linkers[l].batch]
    OBVIOUS
  <2>1. /\ linkers' = [linkers EXCEPT ![l] = NoLink]
        /\ links' = IF LinkedElsewhere(link.batch, link.run) \/ link \in LinkRows
                    THEN links ELSE Append(links, link)
    BY <1>5 DEF InsertLink
  <2>2. link \in LinkRow
    BY <1>5 DEF InsertLink, LinkInv, LinkRow
  <2>3. CASE links' = links
    BY <1>1, <1>4, <2>1, <2>3 DEF LinkInv
  <2>4. CASE ~LinkedElsewhere(link.batch, link.run) /\ links' = Append(links, link)
    <3>1. links \in Seq(LinkRow)
      BY DEF LinkInv
    <3>2. /\ links' \in Seq(LinkRow) /\ Len(links') = Len(links) + 1 /\ Len(links) \in Nat
          /\ \A i \in 1..Len(links) : links'[i] = links[i]
          /\ links'[Len(links) + 1] = link
      <4>1. Len(links) \in Nat
        BY <3>1
      <4>2. /\ Append(links, link) \in Seq(LinkRow)
            /\ Len(Append(links, link)) = Len(links) + 1
            /\ \A i \in 1..Len(links) : Append(links, link)[i] = links[i]
            /\ Append(links, link)[Len(links) + 1] = link
        BY <2>2, <3>1, AppendProperties
      <4> QED BY <2>4, <4>1, <4>2, Zenon
    <3>3. LinkRows' = LinkRows \cup {link}
      BY <3>2 DEF LinkRows
    <3>4. EvidenceProvesOneRun'
      BY <2>4, <3>3 DEF LinkInv, EvidenceProvesOneRun, LinkedElsewhere
    <3> QED BY <1>4, <2>1, <3>2, <3>4 DEF LinkInv
  <2> QED BY <2>1, <2>3, <2>4
<1>6. ASSUME NEW l \in Linkers, AbortLink(l) PROVE LinkInv'
  BY <1>1, <1>4, <1>6 DEF AbortLink, LinkInv
<1>7. CASE UNCHANGED linkVars
  BY <1>1, <1>7 DEF linkVars, LinkInv
<1> QED BY <1>2, <1>3, <1>5, <1>6, <1>7 DEF LinkNext

(* One evidence batch proves at most one run, however link requests that    *)
(* all found it eligible interleave (insertEvidenceLinkExclusive), for      *)
(* every set of requests, runs and batches.                                 *)
THEOREM LinkSafety == LinkSpec => []EvidenceProvesOneRun
<1>1. LinkInit => LinkInv
  BY DEF LinkInit, LinkInv, NoLink, EvidenceProvesOneRun, LinkRows
<1>2. LinkInv => EvidenceProvesOneRun
  BY DEF LinkInv
<1> QED BY <1>1, <1>2, LinkInvStep, PTL DEF LinkSpec

-----------------------------------------------------------------------------
(* Proof state                                                             *)

\* The hash h was read from, and still is, the receipt of execution e.
Receipt(h, e) == e \in Executions /\ h = ReceiptHash(e) /\ lineage[e] = h

\* A status is joined to the hashes it was computed from.
SoundProof(p) ==
    /\ p = [exec |-> p.exec, expected |-> p.expected, stored |-> p.stored, status |-> p.status]
    /\ p.exec \in Executions \cup {None}
    /\ p.status \in {"verified", "mismatch"} => Receipt(p.stored, p.exec)
    /\ p.status = "verified" => p.stored = p.expected
    /\ p.status = "mismatch" => p.stored # p.expected

\* What a request in flight carries was read from a receipt that does not change.
SaverOK(y) == y.pc = "lineage" => y.exec \in Executions
SyncerOK(y) == /\ y.pc # "idle" => y.exec \in Executions
               /\ y.pc = "write" => y.stored = None \/ Receipt(y.stored, y.exec)
VerifierOK(y) == y.pc = "update" => Receipt(y.stored, y.exec)

LineageOK ==
    /\ lineage = [e \in Executions |-> lineage[e]]
    /\ \A e \in Executions : lineage[e] \in {None, ReceiptHash(e)}

ProofInv ==
    /\ LineageOK
    /\ SoundProof(proof)
    /\ savers = [s \in Savers |-> savers[s]] /\ \A s \in Savers : SaverOK(savers[s])
    /\ syncers = [s \in Syncers |-> syncers[s]] /\ \A s \in Syncers : SyncerOK(syncers[s])
    /\ verifiers = [v \in Verifiers |-> verifiers[v]] /\ \A v \in Verifiers : VerifierOK(verifiers[v])

\* A receipt is written once and never replaced by another.
LEMMA ReceiptsStay ==
    ASSUME LineageOK, UNCHANGED lineage \/ \E e \in Executions : lineage' = [lineage EXCEPT ![e] = ReceiptHash(e)]
    PROVE  LineageOK' /\ \A h, e : Receipt(h, e) => Receipt(h, e)'
  BY DEF LineageOK, Receipt

\* What stays sound when receipts stay.
LEMMA SoundStays ==
    ASSUME \A h, e : Receipt(h, e) => Receipt(h, e)'
    PROVE  /\ \A y : SyncerOK(y) => SyncerOK(y)'
           /\ \A y : VerifierOK(y) => VerifierOK(y)'
           /\ \A p : SoundProof(p) => SoundProof(p)'
  BY DEF SyncerOK, VerifierOK, SoundProof

\* The proof columns after a status is computed from a receipt.
LEMMA ComputedProof ==
    ASSUME NEW e, NEW h, NEW x, Receipt(h, e)
    PROVE  SoundProof([exec |-> e, expected |-> x, stored |-> h, status |-> StatusOf(x, h)])
  BY DEF SoundProof, StatusOf, Receipt

LEMMA ProofInvInit == ProofInit => ProofInv
<1> SUFFICES ASSUME ProofInit PROVE ProofInv
    OBVIOUS
<1>1. LineageOK
  BY DEF ProofInit, LineageOK
<1>2. SoundProof(proof)
  BY ProofAssumption DEF ProofInit, SoundProof
<1> QED BY <1>1, <1>2 DEF ProofInit, ProofInv, Resting, SaverOK, SyncerOK, VerifierOK

\* A step that writes a sound proof, at most one receipt and one request.
LEMMA ProofStep ==
    ASSUME ProofInv,
           UNCHANGED lineage \/ \E e \in Executions : lineage' = [lineage EXCEPT ![e] = ReceiptHash(e)],
           SoundProof(proof) => SoundProof(proof)',
           \/ UNCHANGED savers
           \/ \E s \in Savers : \E y : savers' = [savers EXCEPT ![s] = y] /\ SaverOK(y),
           \/ UNCHANGED syncers
           \/ \E s \in Syncers : \E y : syncers' = [syncers EXCEPT ![s] = y] /\ SyncerOK(y),
           \/ UNCHANGED verifiers
           \/ \E v \in Verifiers : \E y : verifiers' = [verifiers EXCEPT ![v] = y] /\ VerifierOK(y)
    PROVE  ProofInv'
<1>1. LineageOK' /\ \A h, e : Receipt(h, e) => Receipt(h, e)'
  BY ReceiptsStay DEF ProofInv
<1>2. /\ \A y : SyncerOK(y) => SyncerOK(y)'
      /\ \A y : VerifierOK(y) => VerifierOK(y)'
  BY <1>1, SoundStays
<1>3. /\ savers' = [s \in Savers |-> savers'[s]]
      /\ \A s \in Savers : SaverOK(savers'[s])
  BY DEF ProofInv
<1>4. /\ syncers' = [s \in Syncers |-> syncers'[s]]
      /\ \A s \in Syncers : SyncerOK(syncers'[s])
  BY DEF ProofInv
<1>5. /\ verifiers' = [v \in Verifiers |-> verifiers'[v]]
      /\ \A v \in Verifiers : VerifierOK(verifiers'[v])
  BY DEF ProofInv
<1>6. /\ \A s \in Savers : SaverOK(savers[s])'
      /\ \A s \in Syncers : SyncerOK(syncers[s])'
      /\ \A v \in Verifiers : VerifierOK(verifiers[v])'
  BY <1>2, <1>3, <1>4, <1>5 DEF SaverOK, SyncerOK, VerifierOK, Receipt
<1> QED BY <1>1, <1>3, <1>4, <1>5, <1>6 DEF ProofInv

LEMMA ProofInvStep == ProofInv /\ [ProofNext]_proofVars => ProofInv'
<1> SUFFICES ASSUME ProofInv, [ProofNext]_proofVars PROVE ProofInv'
    OBVIOUS
<1>1. SaverOK(Resting) /\ SyncerOK(Resting) /\ VerifierOK(Resting)
  BY DEF Resting, SaverOK, SyncerOK, VerifierOK
<1>2. LineageOK /\ SoundProof(proof)
  BY DEF ProofInv
<1>3. ASSUME UNCHANGED <<proof, lineage>> PROVE SoundProof(proof) => SoundProof(proof)'
  BY <1>3 DEF SoundProof, Receipt
<1>4. ASSUME NEW s \in Savers, NEW e \in Executions, SaveExecutionArtifacts(s, e) PROVE ProofInv'
  <2>1. SoundProof(proof)'
    BY <1>4 DEF SaveExecutionArtifacts, SoundProof
  <2>2. \E y : savers' = [savers EXCEPT ![s] = y] /\ SaverOK(y)
    <3> PICK y : y = [pc |-> "lineage", exec |-> e]
      OBVIOUS
    <3>1. SaverOK(y)
      BY DEF SaverOK
    <3> QED BY <1>4, <3>1 DEF SaveExecutionArtifacts
  <2> QED BY <1>4, <2>1, <2>2, ProofStep DEF SaveExecutionArtifacts
<1>5. ASSUME NEW s \in Savers, SaveExecutionLineage(s) PROVE ProofInv'
  <2> PICK e : e = savers[s].exec
    OBVIOUS
  <2>1. /\ e \in Executions
        /\ lineage' = [lineage EXCEPT ![e] = ReceiptHash(e)]
        /\ proof' = TriggeredProof(e, ReceiptHash(e))
    BY <1>5 DEF SaveExecutionLineage, ProofInv, SaverOK
  <2>2. (\A h, x : Receipt(h, x) => Receipt(h, x)') /\ Receipt(ReceiptHash(e), e)'
    BY <1>2, <2>1, ReceiptsStay DEF Receipt, LineageOK
  <2>3. SoundProof(proof)'
    <3>1. CASE proof' = proof
      BY <1>2, <2>2, <3>1, SoundStays DEF SoundProof
    <3>2. CASE proof.exec = e /\ proof' = [proof EXCEPT !.stored = ReceiptHash(e),
                                                !.status = StatusOf(proof.expected, ReceiptHash(e))]
      <4>1. proof' = [exec |-> e, expected |-> proof.expected, stored |-> ReceiptHash(e),
                      status |-> StatusOf(proof.expected, ReceiptHash(e))]
        BY <1>2, <3>2 DEF SoundProof
      <4> PICK st : st = StatusOf(proof.expected, ReceiptHash(e))
        OBVIOUS
      <4>2. /\ st = "verified" => ReceiptHash(e) = proof.expected
            /\ st = "mismatch" => ReceiptHash(e) # proof.expected
        BY DEF StatusOf
      <4>3. /\ proof'.exec = e /\ proof'.expected = proof.expected
            /\ proof'.stored = ReceiptHash(e) /\ proof'.status = st
            /\ proof' = [exec |-> proof'.exec, expected |-> proof'.expected,
                         stored |-> proof'.stored, status |-> proof'.status]
        BY <4>1
      <4> QED BY <2>1, <2>2, <4>2, <4>3 DEF SoundProof
    <3> QED BY <2>1, <3>1, <3>2 DEF TriggeredProof
  <2> QED BY <1>1, <1>5, <2>1, <2>3, ProofStep DEF SaveExecutionLineage
<1>6. ASSUME NEW s \in Savers, LoseReceipt(s) PROVE ProofInv'
  BY <1>1, <1>3, <1>6, ProofStep DEF LoseReceipt
<1>7. ASSUME NEW s \in Syncers, NEW forced \in BOOLEAN, BeginSync(s, forced) PROVE ProofInv'
  <2>1. \E y : syncers' = [syncers EXCEPT ![s] = y] /\ SyncerOK(y)
    <3> PICK y : y = [pc |-> "receipt", exec |-> proof.exec, expected |-> proof.expected]
      OBVIOUS
    <3>1. SyncerOK(y)
      BY <1>2, <1>7 DEF BeginSync, SyncerOK, SoundProof
    <3> QED BY <1>7, <3>1 DEF BeginSync
  <2> QED BY <1>3, <1>7, <2>1, ProofStep DEF BeginSync
<1>8. ASSUME NEW s \in Syncers, ReadReceipt(s) PROVE ProofInv'
  <2>1. syncers[s].exec \in Executions
    BY <1>8 DEF ReadReceipt, ProofInv, SyncerOK
  <2>2. \E y : syncers' = [syncers EXCEPT ![s] = y] /\ SyncerOK(y)
    <3> PICK y : y = [pc |-> "write", exec |-> syncers[s].exec,
                      expected |-> syncers[s].expected, stored |-> lineage[syncers[s].exec]]
      OBVIOUS
    <3>1. SyncerOK(y)
      BY <1>2, <2>1 DEF SyncerOK, Receipt, LineageOK
    <3> QED BY <1>8, <3>1 DEF ReadReceipt
  <2> QED BY <1>3, <1>8, <2>2, ProofStep DEF ReadReceipt
<1>9. ASSUME NEW s \in Syncers, WriteProofState(s) PROVE ProofInv'
  <2> PICK y : y = syncers[s]
    OBVIOUS
  <2>1. /\ y.exec \in Executions
        /\ y.stored = None \/ Receipt(y.stored, y.exec)
        /\ proof' = [exec |-> y.exec, expected |-> y.expected, stored |-> y.stored,
                     status |-> IF y.stored = None THEN "missing" ELSE StatusOf(y.expected, y.stored)]
    BY <1>9 DEF WriteProofState, ProofInv, SyncerOK
  <2>2. SoundProof(proof')
    <3>1. CASE y.stored = None
      BY <2>1, <3>1 DEF SoundProof
    <3>2. CASE y.stored # None
      BY <2>1, <3>2, ComputedProof
    <3> QED BY <3>1, <3>2
  <2>3. SoundProof(proof)'
    BY <1>9, <2>2 DEF WriteProofState, SoundProof, Receipt
  <2> QED BY <1>1, <1>9, <2>3, ProofStep DEF WriteProofState
<1>10. ASSUME NEW s \in Syncers, AbandonSync(s) PROVE ProofInv'
  BY <1>1, <1>3, <1>10, ProofStep DEF AbandonSync
<1>11. ASSUME NEW v \in Verifiers, FetchReceipt(v) PROVE ProofInv'
  <2>1. \E y : verifiers' = [verifiers EXCEPT ![v] = y] /\ VerifierOK(y)
    BY <1>2, <1>11 DEF FetchReceipt, VerifierOK, Receipt, LineageOK
  <2> QED BY <1>3, <1>11, <2>1, ProofStep DEF FetchReceipt
<1>12. ASSUME NEW v \in Verifiers, UpdateByExecutionID(v) PROVE ProofInv'
  <2> PICK w : w = verifiers[v]
    OBVIOUS
  <2>1. /\ Receipt(w.stored, w.exec)
        /\ proof' = IF proof.exec = w.exec
                    THEN [proof EXCEPT !.expected = IF w.comparison = None THEN @ ELSE w.comparison,
                                       !.stored = w.stored,
                                       !.status = StatusOf(w.comparison, w.stored)]
                    ELSE proof
    BY <1>12 DEF UpdateByExecutionID, ProofInv, VerifierOK
  <2>2. SoundProof(proof')
    <3>1. CASE proof.exec # w.exec
      BY <1>2, <2>1, <3>1
    <3>2. CASE proof.exec = w.exec
      <4>1. proof' = [exec |-> w.exec,
                      expected |-> IF w.comparison = None THEN proof.expected ELSE w.comparison,
                      stored |-> w.stored, status |-> StatusOf(w.comparison, w.stored)]
        BY <1>2, <2>1, <3>2 DEF SoundProof
      <4> QED BY <2>1, <4>1 DEF SoundProof, StatusOf, Receipt
    <3> QED BY <3>1, <3>2
  <2>3. SoundProof(proof)'
    BY <1>12, <2>2 DEF UpdateByExecutionID, SoundProof, Receipt
  <2> QED BY <1>1, <1>12, <2>3, ProofStep DEF UpdateByExecutionID
<1>13. CASE UNCHANGED proofVars
  BY <1>3, <1>13, ProofStep DEF proofVars
<1> QED BY <1>4, <1>5, <1>6, <1>7, <1>8, <1>9, <1>10, <1>11, <1>12, <1>13 DEF ProofNext

(* No interleaving of the coordinator, the trigger, reads and verifications *)
(* joins a status to the hashes of another writer (SyncTaskProofState,      *)
(* UpdateTaskProofStateByExecutionID), for every set of executions.         *)
THEOREM ProofSafety == ProofSpec => []VerifiedOnOwnReceipt
<1>1. ProofInv => VerifiedOnOwnReceipt
  BY DEF ProofInv, SoundProof, Receipt, VerifiedOnOwnReceipt
<1> QED BY <1>1, ProofInvInit, ProofInvStep, PTL DEF ProofSpec

-----------------------------------------------------------------------------
(* Operator reconciliation                                                 *)

Decision == [pc : {"lock", "request", "terminal", "insert", "commit"}, id : RequestIds,
             actor : Actors, resolution : Resolutions]

Resolution == [type : {"operator_resolution"}, id : RequestIds, actor : Actors,
               resolution : Resolutions]

ReconTypeOK ==
    /\ reconEvents \in Seq({Observation} \cup Resolution)
    /\ operators \in [Operators -> {NoDecision} \cup Decision]

Locked(o) == operators[o].pc \in {"request", "terminal", "insert", "commit"}

LockInv == \A o \in Operators : Locked(o) => reconLock = o

\* What the transaction verified before its commit.
CommitInv ==
    \A o \in Operators :
        operators[o].pc = "commit" =>
            EffectObserved /\ ~HasTerminal /\ EventOfRequest(operators[o].id) = {}

ObservedInv ==
    /\ ReconRows # {} => EffectObserved
    /\ EffectObserved => reconRun.status = "failed" /\ reconRun.typed
    /\ Len(reconEvents) # 0 => reconEvents[1] = Observation

\* A request id is recorded once.
OneEventPerRequest ==
    \A i, j \in 1..Len(reconEvents) :
        reconEvents[i].id = reconEvents[j].id /\ reconEvents[i].id # NoEvent => i = j

(* A run has at most one terminal resolution: the fact that makes the       *)
(* reported outcome final.                                                  *)
OneTerminalResolution ==
    \A i, j \in 1..Len(reconEvents) :
        /\ TerminalResolution(reconEvents[i].resolution)
        /\ TerminalResolution(reconEvents[j].resolution)
        => i = j

AnswersInv ==
    \A a \in decisionAnswers :
        /\ a.id \in RequestIds
        /\ \E e \in ReconRows : e.type = "operator_resolution" /\ AnswerOf(e) = a

ReconInv ==
    /\ ReconTypeOK
    /\ LockInv
    /\ CommitInv
    /\ ObservedInv
    /\ OneEventPerRequest
    /\ OneTerminalResolution
    /\ AnswersInv

-----------------------------------------------------------------------------

LEMMA ReconInvInit == ReconInit => ReconInv
<1> SUFFICES ASSUME ReconInit PROVE ReconInv
    OBVIOUS
<1>1. ReconTypeOK /\ LockInv /\ CommitInv
  BY DEF ReconInit, ReconTypeOK, LockInv, Locked, CommitInv, NoDecision
<1>2. ReconRows = {} /\ Len(reconEvents) = 0
  BY DEF ReconInit, ReconRows
<1>3. ObservedInv
  BY <1>2 DEF ObservedInv, EffectObserved
<1>4. OneEventPerRequest /\ OneTerminalResolution
  BY <1>2 DEF OneEventPerRequest, OneTerminalResolution
<1>5. AnswersInv
  BY DEF ReconInit, AnswersInv
<1> QED BY <1>1, <1>3, <1>4, <1>5 DEF ReconInv

\* What a row of the table can be.
LEMMA RowShapes ==
    ASSUME ReconTypeOK
    PROVE  /\ \A i \in 1..Len(reconEvents) : reconEvents[i] \in {Observation} \cup Resolution
           /\ \A e \in ReconRows : e \in {Observation} \cup Resolution
           /\ Observation.id = NoEvent /\ Observation.resolution = NoEvent
           /\ Observation.type = "unresolved_effect_observed"
           /\ ~TerminalResolution(NoEvent)
<1>1. \A i \in 1..Len(reconEvents) : reconEvents[i] \in {Observation} \cup Resolution
  BY DEF ReconTypeOK
<1>2. ~TerminalResolution(NoEvent)
  BY ReconAssumption DEF TerminalResolution
<1> QED BY <1>1, <1>2 DEF ReconRows, Observation

\* The table after an insert.
LEMMA AppendRows ==
    ASSUME ReconTypeOK, NEW e \in {Observation} \cup Resolution,
           reconEvents' = Append(reconEvents, e)
    PROVE  /\ reconEvents' \in Seq({Observation} \cup Resolution)
           /\ Len(reconEvents') = Len(reconEvents) + 1
           /\ \A i \in 1..Len(reconEvents) : reconEvents'[i] = reconEvents[i]
           /\ reconEvents'[Len(reconEvents) + 1] = e
           /\ Len(reconEvents) \in Nat
           /\ ReconRows' = ReconRows \cup {e}
<1>1. /\ reconEvents' \in Seq({Observation} \cup Resolution)
      /\ Len(reconEvents') = Len(reconEvents) + 1
      /\ \A i \in 1..Len(reconEvents) : reconEvents'[i] = reconEvents[i]
      /\ reconEvents'[Len(reconEvents) + 1] = e
      /\ Len(reconEvents) \in Nat
  BY DEF ReconTypeOK
<1>2. ReconRows' = ReconRows \cup {e}
  <2>1. 1..Len(reconEvents') = (1..Len(reconEvents)) \cup {Len(reconEvents) + 1}
    BY <1>1
  <2> QED BY <1>1, <2>1 DEF ReconRows
<1> QED BY <1>1, <1>2

\* A step that leaves the table alone, moves one decision and answers with nothing
\* that is not recorded.
LEMMA DecisionStep ==
    ASSUME ReconInv, NEW o \in Operators, NEW d \in {NoDecision} \cup Decision,
           operators' = [operators EXCEPT ![o] = d],
           UNCHANGED <<reconEvents, reconRun>>,
           \A c \in Operators : c # o /\ Locked(c) => reconLock' = c,
           d.pc \in {"request", "terminal", "insert", "commit"} => reconLock' = o,
           d.pc = "commit" => EffectObserved /\ ~HasTerminal /\ EventOfRequest(d.id) = {},
           \A a \in decisionAnswers' \ decisionAnswers :
               a.id \in RequestIds
               /\ \E e \in ReconRows : e.type = "operator_resolution" /\ AnswerOf(e) = a
    PROVE  ReconInv'
<1>1. /\ operators'[o] = d
      /\ \A c \in Operators : c # o => operators'[c] = operators[c]
      /\ operators' \in [Operators -> {NoDecision} \cup Decision]
  BY DEF ReconInv, ReconTypeOK
<1>2. ReconTypeOK'
  BY <1>1 DEF ReconInv, ReconTypeOK
<1>3. LockInv'
  BY <1>1 DEF ReconInv, LockInv, Locked
<1>4. /\ ReconRows' = ReconRows /\ (EffectObserved' <=> EffectObserved)
      /\ (HasTerminal' <=> HasTerminal)
      /\ \A id : EventOfRequest(id)' = EventOfRequest(id)
  BY DEF ReconRows, EffectObserved, HasTerminal, EventOfRequest
<1>5. CommitInv'
  BY <1>1, <1>4 DEF ReconInv, CommitInv
<1>6. ObservedInv' /\ OneEventPerRequest' /\ OneTerminalResolution'
  BY <1>4 DEF ReconInv, ObservedInv, OneEventPerRequest, OneTerminalResolution
<1>7. AnswersInv'
  BY <1>4 DEF ReconInv, AnswersInv
<1> QED BY <1>2, <1>3, <1>5, <1>6, <1>7 DEF ReconInv

\* A step of the run or of the reporter that leaves the table and the decisions alone.
LEMMA RunStep ==
    ASSUME ReconInv, UNCHANGED <<reconEvents, operators, reconLock, decisionAnswers>>,
           \/ UNCHANGED reconRun
           \/ reconRun.status = "live"
    PROVE  ReconInv'
<1>1. /\ ReconRows' = ReconRows /\ (EffectObserved' <=> EffectObserved)
      /\ (HasTerminal' <=> HasTerminal)
      /\ \A id : EventOfRequest(id)' = EventOfRequest(id)
  BY DEF ReconRows, EffectObserved, HasTerminal, EventOfRequest
<1>2. ReconTypeOK' /\ LockInv' /\ OneEventPerRequest' /\ OneTerminalResolution'
  BY DEF ReconInv, ReconTypeOK, LockInv, Locked, OneEventPerRequest, OneTerminalResolution
<1>3. CommitInv' /\ AnswersInv'
  BY <1>1 DEF ReconInv, CommitInv, AnswersInv
<1>4. ObservedInv'
  BY <1>1 DEF ReconInv, ObservedInv
<1> QED BY <1>2, <1>3, <1>4 DEF ReconInv

\* The observation is the first row: nothing was observed of a live run.
LEMMA ObservationStep ==
    ASSUME ReconInv, CommitTypedFailure
    PROVE  ReconInv'
<1>1. ~EffectObserved /\ ReconRows = {}
  BY DEF ReconInv, ObservedInv, CommitTypedFailure
<1>2. reconEvents' = Append(reconEvents, Observation)
  BY <1>1 DEF CommitTypedFailure
<1>3. ReconTypeOK
  BY DEF ReconInv
<1>4. /\ reconEvents' \in Seq({Observation} \cup Resolution)
      /\ Len(reconEvents') = Len(reconEvents) + 1
      /\ ReconRows' = ReconRows \cup {Observation}
      /\ Len(reconEvents) \in Nat
      /\ reconEvents'[Len(reconEvents) + 1] = Observation
  BY <1>2, <1>3, AppendRows
<1>5. Len(reconEvents) = 0
  <2>1. 1 \in 1..Len(reconEvents) => reconEvents[1] \in ReconRows
    BY DEF ReconRows
  <2> QED BY <1>1, <1>4, <2>1
<1>6. ReconTypeOK' /\ LockInv'
  BY <1>4 DEF ReconInv, ReconTypeOK, LockInv, Locked, CommitTypedFailure
<1>7. CommitInv'
  <2>1. \A o \in Operators : ~Locked(o)
    BY ReconAssumption DEF ReconInv, LockInv, CommitTypedFailure
  <2> QED BY <2>1 DEF CommitInv, Locked, CommitTypedFailure
<1>8. ObservedInv'
  BY <1>1, <1>3, <1>4, <1>5, RowShapes DEF ObservedInv, EffectObserved, CommitTypedFailure
<1>9. OneEventPerRequest' /\ OneTerminalResolution'
  BY <1>4, <1>5 DEF OneEventPerRequest, OneTerminalResolution
<1>10. AnswersInv'
  BY <1>4 DEF ReconInv, AnswersInv, CommitTypedFailure
<1> QED BY <1>6, <1>7, <1>8, <1>9, <1>10 DEF ReconInv

LEMMA CommitStep ==
    ASSUME ReconInv, NEW o \in Operators, CommitDecision(o)
    PROVE  ReconInv'
<1> DEFINE d == operators[o]
           e == [type |-> "operator_resolution", id |-> d.id, actor |-> d.actor,
                 resolution |-> d.resolution]
           n == Len(reconEvents)
<1>1. /\ d \in Decision /\ d.pc = "commit"
      /\ EffectObserved /\ ~HasTerminal /\ EventOfRequest(d.id) = {}
  <2>1. d.pc = "commit"
    BY DEF CommitDecision
  <2>2. d \in Decision
    BY <2>1 DEF ReconInv, ReconTypeOK, NoDecision
  <2>3. EffectObserved /\ ~HasTerminal /\ EventOfRequest(d.id) = {}
    BY <2>1 DEF ReconInv, CommitInv
  <2> QED BY <2>1, <2>2, <2>3
<1>2. e \in Resolution
  BY <1>1 DEF Decision, Resolution
<1>3. /\ reconEvents' \in Seq({Observation} \cup Resolution)
      /\ Len(reconEvents') = n + 1
      /\ \A i \in 1..n : reconEvents'[i] = reconEvents[i]
      /\ reconEvents'[n + 1] = e
      /\ n \in Nat
      /\ ReconRows' = ReconRows \cup {e}
  BY <1>2, AppendRows DEF ReconInv, CommitDecision
<1>4. /\ operators' = [operators EXCEPT ![o] = NoDecision]
      /\ operators'[o].pc = "idle"
      /\ \A c \in Operators : c # o => operators'[c] = operators[c]
  BY DEF ReconInv, ReconTypeOK, CommitDecision, EndDecision, NoDecision
<1>5. ReconTypeOK'
  BY <1>3, <1>4 DEF ReconInv, ReconTypeOK, CommitDecision
<1>6. \A c \in Operators : ~Locked(c)'
  BY <1>1, <1>4 DEF ReconInv, LockInv, Locked
<1>7. LockInv' /\ CommitInv'
  BY <1>6 DEF LockInv, CommitInv, Locked
<1>8. ObservedInv'
  <2>1. EffectObserved'
    BY <1>1, <1>3 DEF EffectObserved
  <2>2. UNCHANGED reconRun
    BY DEF CommitDecision
  <2>3. n # 0 /\ 1 \in 1..n
    <3>1. PICK i \in 1..n : TRUE
      BY <1>1 DEF EffectObserved, ReconRows
    <3>2. n \in Nat
      BY <1>3
    <3> QED BY <3>1, <3>2
  <2>4. reconEvents[1] = Observation
    BY <2>3 DEF ReconInv, ObservedInv
  <2>5. reconEvents'[1] = Observation
    BY <1>3, <2>3, <2>4
  <2> QED BY <1>1, <2>1, <2>2, <2>5 DEF ReconInv, ObservedInv
<1>9. \A i \in 1..n : reconEvents[i] \in ReconRows
  BY DEF ReconRows
<1>10. OneEventPerRequest'
  <2>1. \A i \in 1..n : reconEvents[i].id # d.id
    <3>1. d.id # NoEvent
      BY <1>1, ReconAssumption DEF Decision
    <3>2. \A r \in ReconRows : r.id = d.id => r.type = "operator_resolution"
      BY <3>1, RowShapes DEF ReconInv, Resolution
    <3> QED BY <1>1, <1>9, <3>2 DEF EventOfRequest
  <2>2. e.id = d.id
    OBVIOUS
  <2>3. \A i \in 1..(n + 1) : i \in 1..n \/ i = n + 1
    BY <1>3, OneMore
  <2> HIDE DEF n, e, d
  <2> QED BY <1>3, <2>1, <2>2, <2>3 DEF ReconInv, OneEventPerRequest, n
<1>11. OneTerminalResolution'
  <2>1. \A i \in 1..n : ~TerminalResolution(reconEvents[i].resolution)
    BY <1>1, <1>9 DEF HasTerminal
  <2>2. \A i \in 1..(n + 1) : i \in 1..n \/ i = n + 1
    BY <1>3, OneMore
  <2> HIDE DEF n, e, d
  <2> QED BY <1>3, <2>1, <2>2 DEF OneTerminalResolution
<1>12. AnswersInv'
  <2>1. \A a \in decisionAnswers' : a \in decisionAnswers \/ a = AnswerOf(d)
    BY DEF CommitDecision, EndDecision
  <2>2. AnswerOf(e) = AnswerOf(d) /\ e.type = "operator_resolution"
    BY DEF AnswerOf
  <2>3. AnswerOf(d).id \in RequestIds
    BY <1>1 DEF AnswerOf, Decision
  <2> HIDE DEF e, d
  <2> QED BY <1>3, <2>1, <2>2, <2>3 DEF ReconInv, AnswersInv
<1> QED BY <1>5, <1>7, <1>8, <1>10, <1>11, <1>12 DEF ReconInv

\* The steps of a decision before its commit, and its rollback.
LEMMA OperatorStep ==
    ASSUME ReconInv, NEW o \in Operators,
           \/ SubmitDecision(o) \/ LockRun(o) \/ LoadRequestEvent(o)
           \/ LoadTerminalResolution(o) \/ InsertResolution(o) \/ RollbackDecision(o)
    PROVE  ReconInv'
<1> DEFINE d == operators[o]
<1> USE DEF DecisionTablesUnchanged
<1>1. /\ d \in {NoDecision} \cup Decision
      /\ NoDecision.pc = "idle"
      /\ \A c \in Operators : Locked(c) => reconLock = c
  BY DEF ReconInv, ReconTypeOK, LockInv, NoDecision
<1>2. ASSUME NEW p \in {"request", "terminal", "insert", "commit"}, d.pc # "idle"
      PROVE  /\ [d EXCEPT !.pc = p] \in Decision
             /\ [d EXCEPT !.pc = p].pc = p
             /\ [d EXCEPT !.pc = p].id = d.id
  BY <1>1, <1>2 DEF Decision
<1>3. CASE SubmitDecision(o)
  <2>1. PICK id \in RequestIds, a \in Actors, r \in Resolutions :
            operators' = [operators EXCEPT ![o] =
                             [pc |-> "lock", id |-> id, actor |-> a, resolution |-> r]]
    BY <1>3 DEF SubmitDecision
  <2>2. [pc |-> "lock", id |-> id, actor |-> a, resolution |-> r] \in Decision
    BY DEF Decision
  <2> QED BY <1>1, <1>3, <2>1, <2>2, DecisionStep DEF SubmitDecision
<1>4. CASE LockRun(o)
  <2>1. /\ operators' = [operators EXCEPT ![o] = [d EXCEPT !.pc = "request"]]
        /\ d.pc = "lock" /\ reconLock' = o
        /\ UNCHANGED <<reconEvents, reconRun, decisionAnswers>>
    BY <1>4 DEF LockRun
  <2>2. \A c \in Operators : ~Locked(c)
    BY <1>1, <1>4, ReconAssumption DEF LockRun
  <2> QED BY <1>2, <2>1, <2>2, DecisionStep
<1>5. CASE LoadRequestEvent(o)
  <2>1. d.pc = "request" /\ reconLock = o /\ d \in Decision
    BY <1>1, <1>5 DEF LoadRequestEvent, Locked
  <2>2. \A c \in Operators : c # o => ~Locked(c)
    BY <1>1, <2>1
  <2>3. CASE EventOfRequest(d.id) = {}
    <3>1. /\ operators' = [operators EXCEPT ![o] = [d EXCEPT !.pc = "terminal"]]
          /\ UNCHANGED <<reconEvents, reconRun, reconLock, decisionAnswers>>
      BY <1>5, <2>3 DEF LoadRequestEvent
    <3> QED BY <1>2, <2>1, <2>2, <3>1, DecisionStep
  <2>4. CASE EventOfRequest(d.id) # {}
    <3>1. PICK e \in EventOfRequest(d.id) :
              EndDecision(o, IF ReconciliationRequestMatches(e, d) THEN {AnswerOf(d)} ELSE {})
      BY <1>5, <2>4 DEF LoadRequestEvent
    <3>2. /\ operators' = [operators EXCEPT ![o] = NoDecision]
          /\ UNCHANGED <<reconEvents, reconRun>>
      BY <1>5, <3>1 DEF LoadRequestEvent, EndDecision
    <3>3. \A a \in decisionAnswers' \ decisionAnswers :
              a.id \in RequestIds
              /\ \E x \in ReconRows : x.type = "operator_resolution" /\ AnswerOf(x) = a
      <4>1. \A a \in decisionAnswers' \ decisionAnswers :
                a = AnswerOf(d) /\ ReconciliationRequestMatches(e, d)
        BY <3>1 DEF EndDecision
      <4>2. ReconciliationRequestMatches(e, d) => AnswerOf(e) = AnswerOf(d)
        BY <3>1 DEF ReconciliationRequestMatches, AnswerOf, EventOfRequest
      <4>3. e \in ReconRows /\ e.type = "operator_resolution"
        BY <3>1 DEF EventOfRequest
      <4>4. AnswerOf(d).id \in RequestIds
        BY <2>1 DEF AnswerOf, Decision
      <4> QED BY <4>1, <4>2, <4>3, <4>4
    <3> QED BY <1>1, <2>2, <3>2, <3>3, DecisionStep
  <2> QED BY <2>3, <2>4
<1>6. CASE LoadTerminalResolution(o)
  <2>1. d.pc = "terminal" /\ reconLock = o
    BY <1>1, <1>6 DEF LoadTerminalResolution, Locked
  <2>2. \A c \in Operators : c # o => ~Locked(c)
    BY <1>1, <2>1
  <2>3. \/ /\ operators' = [operators EXCEPT ![o] = [d EXCEPT !.pc = "insert"]]
           /\ UNCHANGED reconLock
        \/ operators' = [operators EXCEPT ![o] = NoDecision]
    BY <1>6 DEF LoadTerminalResolution, EndDecision
  <2>4. UNCHANGED <<reconEvents, reconRun, decisionAnswers>>
    BY <1>6 DEF LoadTerminalResolution, EndDecision
  <2> QED BY <1>1, <1>2, <2>1, <2>2, <2>3, <2>4, DecisionStep
<1>7. CASE InsertResolution(o)
  <2>1. d.pc = "insert" /\ reconLock = o
    BY <1>1, <1>7 DEF InsertResolution, Locked
  <2>2. \A c \in Operators : c # o => ~Locked(c)
    BY <1>1, <2>1
  <2>3. \/ /\ operators' = [operators EXCEPT ![o] = [d EXCEPT !.pc = "commit"]]
           /\ EffectObserved /\ ~HasTerminal /\ EventOfRequest(d.id) = {}
           /\ UNCHANGED reconLock
        \/ operators' = [operators EXCEPT ![o] = NoDecision]
    BY <1>7 DEF InsertResolution, EndDecision
  <2>4. UNCHANGED <<reconEvents, reconRun, decisionAnswers>>
    BY <1>7 DEF InsertResolution, EndDecision
  <2>5. CASE operators' = [operators EXCEPT ![o] = NoDecision]
    BY <1>1, <2>2, <2>4, <2>5, DecisionStep
  <2>6. CASE /\ operators' = [operators EXCEPT ![o] = [d EXCEPT !.pc = "commit"]]
             /\ EffectObserved /\ ~HasTerminal /\ EventOfRequest(d.id) = {}
             /\ UNCHANGED reconLock
    <3> DEFINE g == [d EXCEPT !.pc = "commit"]
    <3>1. g \in Decision /\ g.pc = "commit" /\ g.id = d.id
      BY <1>2, <2>1
    <3> HIDE DEF g
    <3>2. operators' = [operators EXCEPT ![o] = g]
      BY <2>6 DEF g
    <3>3. EffectObserved /\ ~HasTerminal /\ EventOfRequest(g.id) = {}
      BY <2>6, <3>1
    <3> QED BY <2>1, <2>2, <2>4, <2>6, <3>1, <3>2, <3>3, DecisionStep
  <2> QED BY <2>3, <2>5, <2>6
<1>8. CASE RollbackDecision(o)
  BY <1>1, <1>8, DecisionStep DEF RollbackDecision
<1> QED BY <1>3, <1>4, <1>5, <1>6, <1>7, <1>8

LEMMA ReconInvStep == ReconInv /\ [ReconNext]_reconVars => ReconInv'
<1> SUFFICES ASSUME ReconInv, [ReconNext]_reconVars PROVE ReconInv'
    OBVIOUS
<1>1. CASE \/ ReportTypedFailure \/ TypedFailureRejected \/ TypedFailureAborts
           \/ MarkFailedRecord \/ RunEndsOtherwise \/ UNCHANGED reconVars
  <2>1. UNCHANGED <<reconEvents, operators, reconLock, decisionAnswers>>
    BY <1>1 DEF ReportTypedFailure, TypedFailureRejected, TypedFailureAborts, MarkFailedRecord,
                RunEndsOtherwise, reconVars
  <2>2. \/ UNCHANGED reconRun
        \/ reconRun.status = "live"
    BY <1>1 DEF ReportTypedFailure, TypedFailureRejected, TypedFailureAborts, MarkFailedRecord,
                RunEndsOtherwise, reconVars
  <2> QED BY <2>1, <2>2, RunStep
<1> QED BY <1>1, ObservationStep, CommitStep, OperatorStep DEF ReconNext

(* However operators retry, race or disagree, an answered decision is in    *)
(* the table exactly once, and a run has at most one terminal resolution    *)
(* (handleActionReconciliationAppend, migration 072).                       *)
THEOREM ReconSafety == ReconSpec => [](AnsweredDecisionsRecorded /\ OneTerminalResolution)
<1>1. ReconInv => AnsweredDecisionsRecorded
  <2> SUFFICES ASSUME ReconInv, NEW a \in decisionAnswers
               PROVE  /\ \E e \in ReconRows : e.type = "operator_resolution" /\ AnswerOf(e) = a
                      /\ \A i, j \in 1..Len(reconEvents) :
                            reconEvents[i].id = a.id /\ reconEvents[j].id = a.id => i = j
      BY DEF AnsweredDecisionsRecorded
  <2>1. a.id \in RequestIds /\ a.id # NoEvent
    BY ReconAssumption DEF ReconInv, AnswersInv
  <2> QED BY <2>1 DEF ReconInv, AnswersInv, OneEventPerRequest
<1>2. ReconInv => OneTerminalResolution
  BY DEF ReconInv
<1> QED BY <1>1, <1>2, ReconInvInit, ReconInvStep, PTL DEF ReconSpec

(* A decision concerns only a run that failed with an effect of unknown     *)
(* outcome, and comes after the observation of that effect.                 *)
THEOREM ReconOfUnknownEffects == ReconSpec => []OnlyUnknownEffectsResolved
<1>1. ReconInv => OnlyUnknownEffectsResolved
  <2> SUFFICES ASSUME ReconInv, NEW e \in ReconRows
               PROVE  /\ reconRun.status = "failed" /\ reconRun.typed
                      /\ reconEvents[1].type = "unresolved_effect_observed"
      BY DEF OnlyUnknownEffectsResolved
  <2>1. EffectObserved
    BY DEF ReconInv, ObservedInv
  <2>2. reconRun.status = "failed" /\ reconRun.typed
    BY <2>1, Zenon DEF ReconInv, ObservedInv
  <2>3. Len(reconEvents) # 0
    BY DEF ReconInv, ReconTypeOK, ReconRows
  <2>4. reconEvents[1].type = "unresolved_effect_observed"
    BY <2>3, RowShapes DEF ReconInv, ObservedInv
  <2> QED BY <2>2, <2>4
<1> QED BY <1>1, ReconInvInit, ReconInvStep, PTL DEF ReconSpec

\* The rows CurrentState reports from.
Decided == {i \in 1..Len(reconEvents) : reconEvents[i].type = "operator_resolution"}

Terminal == {i \in Decided : TerminalResolution(reconEvents[i].resolution)}

\* The last of a non-empty set of rows is one of them.
LEMMA LastRow ==
    ASSUME ReconTypeOK, NEW rows, rows \subseteq 1..Len(reconEvents), rows # {}
    PROVE  \E i \in rows : LastResolution(rows) = reconEvents[i].resolution
<1>1. Len(reconEvents) \in Nat /\ rows \subseteq 0..Len(reconEvents)
  BY DEF ReconTypeOK
<1>2. \E i \in rows : \A j \in rows : j <= i
  BY <1>1, Greatest
<1> QED BY <1>2 DEF LastResolution

\* The reported state by the rows of the table.
StateByRows ==
    /\ ~EffectObserved <=> CurrentState = "not_required"
    /\ EffectObserved /\ Terminal # {} => CurrentState = LastResolution(Terminal)
    /\ CurrentState \in {"confirmed_succeeded", "confirmed_failed"} =>
          EffectObserved /\ Terminal # {}

\* The rows determine the reported state.
LEMMA ReportedState == ReconInv => StateByRows
<1> SUFFICES ASSUME ReconInv PROVE StateByRows
    OBVIOUS
<1>1. Terminal \subseteq Decided /\ Decided \subseteq 1..Len(reconEvents)
  BY DEF Terminal, Decided
<1>2. \A i \in Decided : reconEvents[i].resolution \in Resolutions
  BY RowShapes DEF ReconInv, Decided, Resolution
<1>3. ReconTypeOK /\ Terminal \subseteq 1..Len(reconEvents)
  BY <1>1 DEF ReconInv
<1>4. Terminal # {} => LastResolution(Terminal) \in Resolutions
  BY <1>1, <1>2, <1>3, LastRow
<1>5. Decided # {} /\ Terminal = {} => LastResolution(Decided) = "remains_unknown"
  <2> SUFFICES ASSUME Decided # {}, Terminal = {} PROVE LastResolution(Decided) = "remains_unknown"
      OBVIOUS
  <2>1. PICK i \in Decided : LastResolution(Decided) = reconEvents[i].resolution
    BY <1>1, <1>3, LastRow
  <2> QED BY <1>2, <2>1 DEF Terminal, TerminalResolution, Resolutions
<1>6. CurrentState = CASE ~ EffectObserved -> "not_required"
                       [] EffectObserved /\ Terminal # {} -> LastResolution(Terminal)
                       [] EffectObserved /\ Terminal = {} /\ Decided # {} -> LastResolution(Decided)
                       [] OTHER -> "reconciliation_required"
  BY DEF CurrentState, Terminal, Decided
<1> QED BY <1>4, <1>5, <1>6 DEF Resolutions, StateByRows

\* Only rows are added: those that are there keep their place and their content.
LEMMA TableGrows ==
    ASSUME ReconInv, [ReconNext]_reconVars
    PROVE  \/ reconEvents' = reconEvents
           \/ \E e \in {Observation} \cup Resolution : reconEvents' = Append(reconEvents, e)
<1>1. CASE CommitTypedFailure
  BY <1>1 DEF CommitTypedFailure
<1>2. ASSUME NEW o \in Operators, CommitDecision(o)
      PROVE  \E e \in Resolution : reconEvents' = Append(reconEvents, e)
  <2>1. operators[o].pc = "commit"
    BY <1>2 DEF CommitDecision
  <2>2. operators[o] \in Decision
    BY <2>1 DEF ReconInv, ReconTypeOK, NoDecision
  <2> QED BY <1>2, <2>2 DEF CommitDecision, Decision, Resolution
<1>3. CASE \/ ReportTypedFailure \/ TypedFailureRejected \/ TypedFailureAborts
           \/ MarkFailedRecord \/ RunEndsOtherwise \/ UNCHANGED reconVars
  BY <1>3 DEF ReportTypedFailure, TypedFailureRejected, TypedFailureAborts, MarkFailedRecord,
              RunEndsOtherwise, reconVars
<1>4. ASSUME NEW o \in Operators,
             \/ SubmitDecision(o) \/ LockRun(o) \/ LoadRequestEvent(o)
             \/ LoadTerminalResolution(o) \/ InsertResolution(o) \/ RollbackDecision(o)
      PROVE  reconEvents' = reconEvents
  BY <1>4 DEF SubmitDecision, LockRun, LoadRequestEvent, LoadTerminalResolution,
              InsertResolution, RollbackDecision, DecisionTablesUnchanged
<1> QED BY <1>1, <1>2, <1>3, <1>4 DEF ReconNext

\* The reported state of one step to the next.
LEMMA ReportedStays ==
    ASSUME ReconInv, [ReconNext]_reconVars
    PROVE  /\ CurrentState \in {"confirmed_succeeded", "confirmed_failed"} =>
                 CurrentState' = CurrentState
           /\ CurrentState # "not_required" => CurrentState' # "not_required"
<1>1. ReconInv' /\ ReconTypeOK
  BY ReconInvStep DEF ReconInv
<1>2. /\ Len(reconEvents) \in Nat /\ Len(reconEvents') \in Nat
      /\ Len(reconEvents) <= Len(reconEvents')
      /\ \A i \in 1..Len(reconEvents) : reconEvents'[i] = reconEvents[i]
  BY <1>1, TableGrows, AppendRows DEF ReconTypeOK
<1>3. EffectObserved => EffectObserved'
  <2>1. ReconRows \subseteq ReconRows'
    <3> SUFFICES ASSUME NEW i \in 1..Len(reconEvents) PROVE reconEvents[i] \in ReconRows'
        BY DEF ReconRows
    <3>1. i \in 1..Len(reconEvents') /\ reconEvents'[i] = reconEvents[i]
      BY <1>2
    <3> QED BY <3>1 DEF ReconRows
  <2> QED BY <2>1 DEF EffectObserved
<1>4. StateByRows /\ StateByRows'
  BY <1>1, ReportedState, PTL
<1>5. Terminal # {} => Terminal' = Terminal /\ LastResolution(Terminal)' = LastResolution(Terminal)
  <2> SUFFICES ASSUME NEW k \in Terminal
               PROVE  Terminal' = Terminal /\ LastResolution(Terminal)' = LastResolution(Terminal)
      OBVIOUS
  <2>1. k \in 1..Len(reconEvents) /\ k \in Terminal'
    <3>1. k \in 1..Len(reconEvents)
      BY DEF Terminal, Decided
    <3>2. k \in 1..Len(reconEvents') /\ reconEvents'[k] = reconEvents[k]
      <4>1. reconEvents'[k] = reconEvents[k]
        BY <1>2, <3>1, Zenon
      <4>2. \A m, n \in Nat : m <= n => \A i \in 1..m : i \in 1..n
        OBVIOUS
      <4> QED BY <1>2, <3>1, <4>1, <4>2, Zenon
    <3> QED BY <3>1, <3>2 DEF Terminal, Decided
  <2>2. Terminal = {k}
    BY DEF ReconInv, OneTerminalResolution, Terminal, Decided
  <2>3. Terminal' = {k}
    BY <1>1, <2>1 DEF ReconInv, OneTerminalResolution, Terminal, Decided
  <2>4. (CHOOSE i \in {k} : \A j \in {k} : j <= i) = k
    BY <2>1
  <2>5. LastResolution(Terminal) = reconEvents[k].resolution
    BY <2>2, <2>4 DEF LastResolution
  <2>6. LastResolution(Terminal)' = reconEvents'[k].resolution
    BY <2>3, <2>4 DEF LastResolution
  <2> QED BY <1>2, <2>1, <2>2, <2>3, <2>5, <2>6
<1> QED BY <1>3, <1>4, <1>5 DEF StateByRows

(* A confirmed outcome is final and an opened reconciliation never          *)
(* disappears, for every number of operators, requests and failure reports  *)
(* (loadOperatorReconciliationState).                                       *)
THEOREM ReconResolutionFinal == ReconSpec => ResolutionIsFinal
<1>1. ReconInv /\ [ReconNext]_reconVars =>
         [/\ CurrentState \in {"confirmed_succeeded", "confirmed_failed"} => CurrentState' = CurrentState
          /\ CurrentState # "not_required" => CurrentState' # "not_required"]_reconVars
  BY ReportedStays
<1> QED BY <1>1, ReconInvInit, ReconInvStep, PTL DEF ReconSpec, ResolutionIsFinal
=============================================================================
