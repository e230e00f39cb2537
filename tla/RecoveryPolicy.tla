---------------------------- MODULE RecoveryPolicy ----------------------------
(***************************************************************************)
(* What the coordinator computes before it lets a run go to a runtime: the *)
(* checkpoint a recovery resumes from (BuildCumulativeRecoveryCheckpoint)  *)
(* and the built-in execution governance policy (evaluateActionPolicy,     *)
(* RecoveryHandoffAllowed in coordinator/execution_governance.go).  Pure   *)
(* functions of the rows that were read.                                   *)
(***************************************************************************)
EXTENDS TaskStore

CONSTANTS
    Irreversible,  \* [Tasks -> SUBSET Steps]: steps whose effect cannot be undone
    HumanGated,    \* tasks whose definition or contract requires an approval
    Streaming,     \* tasks of class streaming_non_resumable
    Invalid        \* ErrInvalidCumulativeCheckpoint

ASSUME PolicyConstants ==
    /\ Irreversible \in [Tasks -> SUBSET Steps]
    /\ HumanGated \subseteq Tasks
    /\ Streaming \subseteq Tasks
    /\ Invalid \notin Checkpoints \cup {Nil}

\* Mistake: deltas that never arrived are not missed.
BuildCumulativeRecoveryCheckpointWithGaps(rows) ==
    LET latest == CHOOSE cp \in rows : \A other \in rows : other.last <= cp.last
        merged == UNION {cp.entries : cp \in rows}
        conflict == \E e, f \in merged : e.step = f.step /\ e # f
    IN  IF rows = {} THEN Nil
        ELSE IF conflict \/ ~ TaskCheckpointWatermarkConsistent(latest) THEN Invalid
        ELSE [latest EXCEPT !.entries = {e \in merged : e.step <= latest.last}]

\* Runtimes send deltas.  The union of the rows has to be one entry for each step
\* up to the largest watermark, or the recovery is refused.
BuildCumulativeRecoveryCheckpoint(rows) ==
    LET latest == CHOOSE cp \in rows : \A other \in rows : other.last <= cp.last
        merged == UNION {cp.entries : cp \in rows}
        conflict == \E e, f \in merged : e.step = f.step /\ e # f
        missing == \E s \in 0 .. latest.last : \A e \in merged : e.step # s
    IN  IF rows = {} THEN Nil
        ELSE IF conflict \/ ~ TaskCheckpointWatermarkConsistent(latest) \/ missing THEN Invalid
        ELSE [latest EXCEPT !.entries = {e \in merged : e.step <= latest.last}]

\* The task row was read after the checkpoint rows and may be ahead of them.
MergeTaskCheckpoint(cp, onRow) ==
    IF cp # Invalid /\ onRow # Nil /\ TaskCheckpointAdvances(cp, onRow)
    THEN BuildCumulativeRecoveryCheckpoint({cp, onRow} \ {Nil})
    ELSE cp

TaskHasIrreversibleAction(t) == Irreversible[t] # {}

\* Mistake: an irreversible step at the watermark counts as still ahead.
RecoveryForwardResumeSafeAtWatermark(t, cp) ==
    TaskHasIrreversibleAction(t) => cp # Nil /\ \A s \in Irreversible[t] : s >= cp.last

\* The checkpoint precedes every irreversible step.
RecoveryForwardResumeSafe(t, cp) ==
    TaskHasIrreversibleAction(t) => cp # Nil /\ \A s \in Irreversible[t] : s > cp.last

\* Mistake: the first approval covers every later recovery.
EvaluateActionPolicyApprovedOnce(t, cp, recoveryAttempt) ==
    IF recoveryAttempt /\ (cp = Nil \/ ~ RecoveryForwardResumeSafe(t, cp)) THEN "denied"
    ELSE IF t \in HumanGated /\ ~ recoveryAttempt THEN "approval_required"
    ELSE "allowed"

EvaluateActionPolicy(t, cp, recoveryAttempt) ==
    IF recoveryAttempt /\ (cp = Nil \/ ~ RecoveryForwardResumeSafe(t, cp)) THEN "denied"
    ELSE IF t \in HumanGated THEN "approval_required"
    ELSE "allowed"

\* Irreversible work is pinned to its runtime unless it is all still ahead; a
\* handoff that the policy allows is therefore never of a pinned checkpoint.
RecoveryHandoffAllowed(t, cp) ==
    /\ EvaluateActionPolicy(t, cp, TRUE) = "allowed"
    /\ RecoveryForwardResumeSafe(t, cp)
=============================================================================
