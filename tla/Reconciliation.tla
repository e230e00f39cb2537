----------------------------- MODULE Reconciliation -----------------------------
(***************************************************************************)
(* The reconciliation of one contract-bound run whose external effect is   *)
(* unknown: the runtime's typed failure report that opens it               *)
(* (CheckpointStore.MarkFailedWithDetails) and the operators' decisions    *)
(* (api/operator_reconciliation.go), over the append-only table of         *)
(* migration 072.  A decision is one transaction under an advisory lock    *)
(* per run; it is split at its statements, may fail at any of them, and    *)
(* may be retried with the same request id.                                *)
(***************************************************************************)
EXTENDS Naturals, Sequences

CONSTANTS
    Operators,        \* concurrent decision requests
    RequestIds,       \* the operator_request_id values they send
    Actors,           \* the operators' identities
    MaxReports,       \* how often the runtime reports the failure
    NoEvent           \* no event, no lock holder

ASSUME ReconAssumption ==
    NoEvent \notin Operators \cup RequestIds
                  \cup {"confirmed_succeeded", "confirmed_failed", "remains_unknown"}

VARIABLES
    reconRun,         \* task_records: status, and typed: failure_details ask for reconciliation
    reconEvents,      \* contract_bound_action_reconciliation_events, in append order
    reconLock,        \* the holder of the run's advisory lock
    operators,        \* the decision requests in flight
    reporter,         \* the runtime's report in flight: pc, and reports made so far
    decisionAnswers   \* what operators were told: a history variable

reconVars == <<reconRun, reconEvents, reconLock, operators, reporter, decisionAnswers>>

Resolutions == {"confirmed_succeeded", "confirmed_failed", "remains_unknown"}

NoDecision == [pc |-> "idle"]

\* Mistake: a confirmed failure is left out of the terminal resolutions.
TerminalSuccessOnly(resolution) == resolution = "confirmed_succeeded"

\* The terminal resolutions of the handler's query, the trigger and the unique index.
TerminalResolution(resolution) == resolution \in {"confirmed_succeeded", "confirmed_failed"}

ReconRows == {reconEvents[i] : i \in 1..Len(reconEvents)}

\* Mistake: any failed run counts as observed.
FailedRun == reconRun.status = "failed"

\* The unresolved effect was observed: the EXISTS of the insert and of the trigger.
EffectObserved == \E e \in ReconRows : e.type = "unresolved_effect_observed"

HasTerminal == \E e \in ReconRows : TerminalResolution(e.resolution)

EventOfRequest(id) == {e \in ReconRows : e.type = "operator_resolution" /\ e.id = id}

ReconInit ==
    /\ reconRun = [status |-> "live", typed |-> FALSE]
    /\ reconEvents = <<>>
    /\ reconLock = NoEvent
    /\ operators = [o \in Operators |-> NoDecision]
    /\ reporter = [pc |-> "idle", reports |-> 0]
    /\ decisionAnswers = {}

-----------------------------------------------------------------------------
(* The runtime's typed failure, MarkFailedWithDetails. *)

ReportTypedFailure ==
    /\ reporter.pc = "idle"
    /\ reporter.reports < MaxReports
    /\ reporter' = [pc |-> "begin", reports |-> reporter.reports + 1]
    /\ UNCHANGED <<reconRun, reconEvents, reconLock, operators, decisionAnswers>>

Observation == [type |-> "unresolved_effect_observed", id |-> NoEvent, actor |-> NoEvent,
                resolution |-> NoEvent]

\* The transaction: the run fails and the observation is appended, once, or neither.
\* The trigger takes the advisory lock.  A commit that reports an error may have happened.
CommitTypedFailure ==
    /\ reporter.pc = "begin"
    /\ reconRun.status = "live"
    /\ reconLock = NoEvent
    /\ reconRun' = [status |-> "failed", typed |-> TRUE]
    /\ reconEvents' = IF EffectObserved THEN reconEvents ELSE Append(reconEvents, Observation)
    /\ \E pc \in {"idle", "ensure"} : reporter' = [reporter EXCEPT !.pc = pc]
    /\ UNCHANGED <<reconLock, operators, decisionAnswers>>

TypedFailureRejected ==
    /\ reporter.pc = "begin"
    /\ reconRun.status # "live"
    /\ reporter' = [reporter EXCEPT !.pc = "idle"]
    /\ UNCHANGED <<reconRun, reconEvents, reconLock, operators, decisionAnswers>>

\* Begin, the insert or the commit fails without effect.
TypedFailureAborts ==
    /\ reporter.pc = "begin"
    /\ reporter' = [reporter EXCEPT !.pc = "ensure"]
    /\ UNCHANGED <<reconRun, reconEvents, reconLock, operators, decisionAnswers>>

\* markFailedRecord: the run fails all the same, without an observation.  It changes
\* nothing when the run is no longer live, and may itself fail.
MarkFailedRecord ==
    /\ reporter.pc = "ensure"
    /\ reporter' = [reporter EXCEPT !.pc = "idle"]
    /\ \/ reconRun.status = "live" /\ reconRun' = [status |-> "failed", typed |-> TRUE]
       \/ UNCHANGED reconRun
    /\ UNCHANGED <<reconEvents, reconLock, operators, decisionAnswers>>

\* Another writer ends the run: completion, cancellation or an untyped failure.
RunEndsOtherwise ==
    /\ reconRun.status = "live"
    /\ \E s \in {"failed", "completed"} : reconRun' = [status |-> s, typed |-> FALSE]
    /\ UNCHANGED <<reconEvents, reconLock, operators, reporter, decisionAnswers>>

-----------------------------------------------------------------------------
(* An operator's decision, handleActionReconciliationAppend. *)

DecisionTablesUnchanged == UNCHANGED <<reconRun, reconEvents, reporter>>

SubmitDecision(o) ==
    /\ operators[o].pc = "idle"
    /\ \E id \in RequestIds, a \in Actors, r \in Resolutions :
          operators' = [operators EXCEPT ![o] =
                           [pc |-> "lock", id |-> id, actor |-> a, resolution |-> r]]
    /\ DecisionTablesUnchanged /\ UNCHANGED <<reconLock, decisionAnswers>>

LockRun(o) ==
    /\ operators[o].pc = "lock"
    /\ reconLock = NoEvent
    /\ reconLock' = o
    /\ operators' = [operators EXCEPT ![o].pc = "request"]
    /\ DecisionTablesUnchanged /\ UNCHANGED decisionAnswers

\* The transaction ends and releases the lock; the request is answered.
EndDecision(o, answers) ==
    /\ operators' = [operators EXCEPT ![o] = NoDecision]
    /\ reconLock' = NoEvent
    /\ decisionAnswers' = decisionAnswers \cup answers

AnswerOf(e) == [id |-> e.id, actor |-> e.actor, resolution |-> e.resolution]

\* Mistake: a known request id is answered without comparing what was decided.
MatchesById(e, d) == TRUE

\* reconciliationRequestMatches: the same actor decided the same.
ReconciliationRequestMatches(e, d) == e.actor = d.actor /\ e.resolution = d.resolution

\* A known request id replays the stored event, or conflicts with it.
LoadRequestEvent(o) ==
    LET d == operators[o]
    IN  /\ d.pc = "request"
        /\ DecisionTablesUnchanged
        /\ IF EventOfRequest(d.id) = {}
           THEN /\ operators' = [operators EXCEPT ![o].pc = "terminal"]
                /\ UNCHANGED <<reconLock, decisionAnswers>>
           ELSE \E e \in EventOfRequest(d.id) :
                   EndDecision(o, IF ReconciliationRequestMatches(e, d) THEN {AnswerOf(d)} ELSE {})

\* resolution_conflict when the run already has a terminal resolution.
LoadTerminalResolution(o) ==
    /\ operators[o].pc = "terminal"
    /\ DecisionTablesUnchanged
    /\ IF HasTerminal
       THEN EndDecision(o, {})
       ELSE /\ operators' = [operators EXCEPT ![o].pc = "insert"]
            /\ UNCHANGED <<reconLock, decisionAnswers>>

\* The insert selects the run only when the effect was observed, and the trigger and the
\* unique indexes check again: otherwise reconciliation_not_required or a conflict.
InsertResolution(o) ==
    LET d == operators[o]
    IN  /\ d.pc = "insert"
        /\ DecisionTablesUnchanged
        /\ IF EffectObserved /\ ~ HasTerminal /\ EventOfRequest(d.id) = {}
           THEN /\ operators' = [operators EXCEPT ![o].pc = "commit"]
                /\ UNCHANGED <<reconLock, decisionAnswers>>
           ELSE EndDecision(o, {})

\* The commit makes the event visible; the answer may still be lost on its way.
CommitDecision(o) ==
    LET d == operators[o]
    IN  /\ d.pc = "commit"
        /\ reconEvents' = Append(reconEvents, [type |-> "operator_resolution", id |-> d.id,
                                               actor |-> d.actor, resolution |-> d.resolution])
        /\ \E answers \in {{}, {AnswerOf(d)}} : EndDecision(o, answers)
        /\ UNCHANGED <<reconRun, reporter>>

\* A statement fails, the client goes away or the server stops: the transaction is rolled
\* back and the lock released.
RollbackDecision(o) ==
    /\ operators[o].pc # "idle"
    /\ operators' = [operators EXCEPT ![o] = NoDecision]
    /\ reconLock' = IF reconLock = o THEN NoEvent ELSE reconLock
    /\ DecisionTablesUnchanged /\ UNCHANGED decisionAnswers

ReconNext ==
    \/ ReportTypedFailure
    \/ CommitTypedFailure
    \/ TypedFailureRejected
    \/ TypedFailureAborts
    \/ MarkFailedRecord
    \/ RunEndsOtherwise
    \/ \E o \in Operators :
          \/ SubmitDecision(o)
          \/ LockRun(o)
          \/ LoadRequestEvent(o)
          \/ LoadTerminalResolution(o)
          \/ InsertResolution(o)
          \/ CommitDecision(o)
          \/ RollbackDecision(o)

ReconSpec == ReconInit /\ [][ReconNext]_reconVars

-----------------------------------------------------------------------------
\* The resolution of the last of some rows of the table.
LastResolution(rows) ==
    reconEvents[CHOOSE i \in rows : \A j \in rows : j <= i].resolution

\* loadOperatorReconciliationState: what the API and the proof of the run report.
CurrentState ==
    LET decided == {i \in 1..Len(reconEvents) : reconEvents[i].type = "operator_resolution"}
        terminal == {i \in decided : TerminalResolution(reconEvents[i].resolution)}
    IN  CASE ~ EffectObserved -> "not_required"
          [] EffectObserved /\ terminal # {} -> LastResolution(terminal)
          [] EffectObserved /\ terminal = {} /\ decided # {} -> LastResolution(decided)
          [] OTHER -> "reconciliation_required"

\* A confirmed outcome is final: once the run is reported as confirmed succeeded or
\* confirmed failed it is reported so for ever, whatever operators decide, retry or race,
\* and a reconciliation once opened never disappears.
ResolutionIsFinal ==
    [][/\ CurrentState \in {"confirmed_succeeded", "confirmed_failed"} => CurrentState' = CurrentState
       /\ CurrentState # "not_required" => CurrentState' # "not_required"]_reconVars

\* An operator who is told that a decision was recorded finds it recorded, by that actor
\* with that resolution and exactly once, although a request may be repeated after a lost
\* answer, by someone else or with another resolution.
AnsweredDecisionsRecorded ==
    \A a \in decisionAnswers :
        /\ \E e \in ReconRows : e.type = "operator_resolution" /\ AnswerOf(e) = a
        /\ \A i, j \in 1..Len(reconEvents) :
              reconEvents[i].id = a.id /\ reconEvents[j].id = a.id => i = j

\* Operators decide only about a run that ended failed with a typed unknown effect: no
\* decision can precede the observation, and no run that completed is ever resolved
\* (migration 072, enforce_reconciliation_event_append).
OnlyUnknownEffectsResolved ==
    (\E e \in ReconRows : e.type = "operator_resolution") =>
        /\ reconRun.status = "failed" /\ reconRun.typed
        /\ reconEvents[1].type = "unresolved_effect_observed"
=============================================================================
