------------------------------- MODULE ProofState -------------------------------
(***************************************************************************)
(* The cached proof state of one task (the proof_* columns of              *)
(* task_records) and the receipts of its executions (execution_lineage).   *)
(* Writers: the coordinator, which saves a result's artifacts and then its *)
(* receipt; the trigger of migration 033; SyncTaskProofState, called by    *)
(* reads of the task; and POST /proof/receipts/verify.  None of them       *)
(* carries a version, so reads and writes of different writers interleave. *)
(***************************************************************************)
EXTENDS Naturals

CONSTANTS
    Executions,      \* execution ids of the task's runs, in the order they happen
    Savers,          \* dispatches whose result is being saved
    Syncers,         \* concurrent reads of the task that reconcile its proof
    Verifiers,       \* concurrent receipt verifications
    None             \* NULL

\* The hash of a receipt is that of its execution.
ReceiptHash(e) == <<"receipt", e>>

\* A hash that no receipt has.
OtherHash == <<"other">>

ASSUME ProofAssumption ==
    /\ None \notin Executions
    /\ None \notin {"verified", "mismatch"}
    /\ \A e \in Executions : None # ReceiptHash(e)

VARIABLES
    proof,           \* proof_execution_id, proof_expected_hash, proof_stored_hash, proof_status
    proofTrigger,    \* the trigger on execution_lineage is installed
    lineage,         \* execution_lineage: execution -> receipt_hash or None
    savers, syncers, verifiers    \* the requests in flight

proofVars == <<proof, proofTrigger, lineage, savers, syncers, verifiers>>

Resting == [pc |-> "idle"]

ProofInit ==
    /\ proof = [exec |-> None, expected |-> None, stored |-> None, status |-> None]
    /\ proofTrigger \in BOOLEAN
    /\ lineage = [e \in Executions |-> None]
    /\ savers = [s \in Savers |-> Resting]
    /\ syncers = [s \in Syncers |-> Resting]
    /\ verifiers = [v \in Verifiers |-> Resting]

\* buildTaskProofState for a receipt that was found; the trigger computes the same.
StatusOf(expected, stored) ==
    IF expected = None THEN "present"
    ELSE IF stored = expected THEN "verified" ELSE "mismatch"

-----------------------------------------------------------------------------
(* The coordinator saves the result of a dispatch. *)

\* SaveExecutionArtifacts, one transaction: the proof of the new execution is pending.
SaveExecutionArtifacts(s, e) ==
    /\ savers[s].pc = "idle"
    /\ proof' = [exec |-> e, expected |-> ReceiptHash(e), stored |-> None, status |-> "pending"]
    /\ savers' = [savers EXCEPT ![s] = [pc |-> "lineage", exec |-> e]]
    /\ UNCHANGED <<proofTrigger, lineage, syncers, verifiers>>

\* sync_task_record_proof_state_from_lineage.
TriggeredProof(e, hash) ==
    IF proofTrigger /\ proof.exec = e
    THEN [proof EXCEPT !.stored = hash, !.status = StatusOf(proof.expected, hash)]
    ELSE proof

\* SaveExecutionLineage upserts the receipt, with its trigger.  Without the trigger the
\* coordinator synchronises the proof itself, through the steps of a read.
SaveExecutionLineage(s) ==
    LET e == savers[s].exec
    IN  /\ savers[s].pc = "lineage"
        /\ lineage' = [lineage EXCEPT ![e] = ReceiptHash(e)]
        /\ proof' = TriggeredProof(e, ReceiptHash(e))
        /\ savers' = [savers EXCEPT ![s] = Resting]
        /\ UNCHANGED <<proofTrigger, syncers, verifiers>>

\* The write fails or the coordinator stops: the receipt is not saved.
LoseReceipt(s) ==
    /\ savers[s].pc = "lineage"
    /\ savers' = [savers EXCEPT ![s] = Resting]
    /\ UNCHANGED <<proof, proofTrigger, lineage, syncers, verifiers>>

-----------------------------------------------------------------------------
(* SyncTaskProofState: read the proof columns, read the receipt, write all. *)

\* TaskProofNeedsReadReconciliation, TaskProofNeedsRefresh: a verified, present or
\* mismatching proof is left alone.
NeedsReadReconciliation == proof.status \in {None, "pending", "missing"}

\* A read of the task, or POST .../proof/verify and the coordinator without the trigger,
\* which synchronise unconditionally.
BeginSync(s, forced) ==
    /\ syncers[s].pc = "idle"
    /\ proof.exec # None
    /\ forced \/ NeedsReadReconciliation
    /\ syncers' = [syncers EXCEPT ![s] = [pc |-> "receipt", exec |-> proof.exec,
                                          expected |-> proof.expected]]
    /\ UNCHANGED <<proof, proofTrigger, lineage, savers, verifiers>>

ReadReceipt(s) ==
    /\ syncers[s].pc = "receipt"
    /\ syncers' = [syncers EXCEPT ![s] = [pc |-> "write", exec |-> syncers[s].exec,
                                          expected |-> syncers[s].expected,
                                          stored |-> lineage[syncers[s].exec]]]
    /\ UNCHANGED <<proof, proofTrigger, lineage, savers, verifiers>>

\* Mistake: the status is written and the hash it was computed from is not.
WriteStatusOnly(s) ==
    LET y == syncers[s]
    IN  /\ y.pc = "write"
        /\ proof' = [proof EXCEPT !.status = IF y.stored = None THEN "missing"
                                             ELSE StatusOf(y.expected, y.stored)]
        /\ syncers' = [syncers EXCEPT ![s] = Resting]
        /\ UNCHANGED <<proofTrigger, lineage, savers, verifiers>>

\* updateTaskProofState: every proof column, whatever happened since they were read.
WriteProofState(s) ==
    LET y == syncers[s]
    IN  /\ y.pc = "write"
        /\ proof' = [exec |-> y.exec, expected |-> y.expected, stored |-> y.stored,
                     status |-> IF y.stored = None THEN "missing" ELSE StatusOf(y.expected, y.stored)]
        /\ syncers' = [syncers EXCEPT ![s] = Resting]
        /\ UNCHANGED <<proofTrigger, lineage, savers, verifiers>>

AbandonSync(s) ==
    /\ syncers[s].pc # "idle"
    /\ syncers' = [syncers EXCEPT ![s] = Resting]
    /\ UNCHANGED <<proof, proofTrigger, lineage, savers, verifiers>>

-----------------------------------------------------------------------------
(* POST /proof/receipts/verify. *)

\* VerifyReceipt reads the stored receipt; the request may name a hash to compare with.
FetchReceipt(v) ==
    /\ verifiers[v].pc = "idle"
    /\ \E e \in {x \in Executions : lineage[x] # None},
          hash \in {None, OtherHash} \cup {ReceiptHash(x) : x \in Executions} :
          verifiers' = [verifiers EXCEPT ![v] = [pc |-> "update", exec |-> e, comparison |-> hash,
                                                 stored |-> lineage[e]]]
    /\ UNCHANGED <<proof, proofTrigger, lineage, savers, syncers>>

\* UpdateTaskProofStateByExecutionID: only a task whose proof is of this execution; a
\* missing comparison hash keeps the expected one but not the status computed with it.
UpdateByExecutionID(v) ==
    LET w == verifiers[v]
    IN  /\ w.pc = "update"
        /\ proof' = IF proof.exec = w.exec
                    THEN [proof EXCEPT !.expected = IF w.comparison = None THEN @ ELSE w.comparison,
                                       !.stored = w.stored,
                                       !.status = StatusOf(w.comparison, w.stored)]
                    ELSE proof
        /\ verifiers' = [verifiers EXCEPT ![v] = Resting]
        /\ UNCHANGED <<proofTrigger, lineage, savers, syncers>>

ProofNext ==
    \/ \E s \in Savers :
          \/ \E e \in Executions : SaveExecutionArtifacts(s, e)
          \/ SaveExecutionLineage(s)
          \/ LoseReceipt(s)
    \/ \E s \in Syncers :
          \/ \E forced \in BOOLEAN : BeginSync(s, forced)
          \/ ReadReceipt(s)
          \/ WriteProofState(s)
          \/ AbandonSync(s)
    \/ \E v \in Verifiers : FetchReceipt(v) \/ UpdateByExecutionID(v)

ProofSpec == ProofInit /\ [][ProofNext]_proofVars

-----------------------------------------------------------------------------
\* A proof is reported verified only on the stored receipt of its own execution, whose
\* hash is the expected one, and a mismatch only on two hashes that differ, whichever
\* writers interleave: no writer joins its status to the hashes of another.
VerifiedOnOwnReceipt ==
    /\ proof.status = "verified" => /\ proof.stored = proof.expected
                                    /\ proof.stored = lineage[proof.exec]
    /\ proof.status = "mismatch" => /\ proof.stored # proof.expected
                                    /\ proof.stored = lineage[proof.exec]
=============================================================================
