---------------------------- MODULE CallbackDelivery ----------------------------
(***************************************************************************)
(* The delivery of a runtime's callbacks (checkpoint, complete, failed) to *)
(* the control plane: api/runtime_callback_signature.go and the three      *)
(* handlers of api/routes_tasks.go.  The network may deliver an envelope   *)
(* late and more than once.  A handler reads the task, checks the          *)
(* envelope, reserves its nonce and only then changes the task, in         *)
(* separate database accesses; a cleanup deletes old nonces.  An envelope  *)
(* stands for its nonce: the runtime signs every nonce once.               *)
(***************************************************************************)
EXTENDS Integers

CONSTANTS
    Deliveries,      \* concurrent callback requests
    Envelopes,       \* the envelopes (nonces) that runtimes may sign
    CbRuntimes,      \* the runtimes the task may be assigned to
    Freshness,       \* runtimeCallbackFreshness
    Retention,       \* the retention the cleanup is started with
    DefaultRetention,    \* runtimeCallbackNonceRetention
    MaxStall,        \* longest time from the timestamp check to the reservation
    MaxNow,          \* bound on the clock
    Never            \* no time, no row, no runtime

\* The retention in effect: the default when none is configured, and never shorter than
\* the freshness window.
EffectiveRetention ==
    IF Retention <= 0 THEN DefaultRetention
    ELSE IF Retention < Freshness THEN Freshness ELSE Retention

\* A row outlives every time at which its envelope may pass the timestamp check and
\* reach the reservation: the clocks differ by at most Freshness in each direction.
\* The default of 24 hours against 5 minutes satisfies it; the floor alone does not.
ASSUME CallbackAssumption ==
    /\ Freshness \in Nat /\ Retention \in Int /\ DefaultRetention \in Nat
    /\ MaxStall \in Nat /\ MaxNow \in Nat /\ Never \notin Int
    /\ EffectiveRetention >= 2 * Freshness + MaxStall

VARIABLES
    cbNow,           \* the clock of the control plane and its database
    cbTask,          \* task_records: live (the status allows a mutation), runtime or Never
    cbSigned,        \* envelope -> its timestamp and runtime, or Never
    nonceRows,       \* runtime_callback_nonces: envelope -> accepted_at, or Never
    deliveries,      \* the callback requests in flight
    cbApplied        \* envelope -> how often it changed the task: a history variable

cbVars == <<cbNow, cbTask, cbSigned, nonceRows, deliveries, cbApplied>>

NoDelivery == [pc |-> "idle"]

CallbackInit ==
    /\ cbNow = 0
    /\ \E r \in CbRuntimes \cup {Never} : cbTask = [live |-> TRUE, runtime |-> r]
    /\ cbSigned = [e \in Envelopes |-> Never]
    /\ nonceRows = [e \in Envelopes |-> Never]
    /\ deliveries = [d \in Deliveries |-> NoDelivery]
    /\ cbApplied = [e \in Envelopes |-> 0]

\* A runtime signs an envelope by its own clock.
SignCallback(e) ==
    /\ cbSigned[e] = Never
    /\ \E r \in CbRuntimes, skew \in {-1, 0, 1} :
          cbSigned' = [cbSigned EXCEPT ![e] = [ts |-> cbNow + skew * Freshness, runtime |-> r]]
    /\ UNCHANGED <<cbNow, cbTask, nonceRows, deliveries, cbApplied>>

\* The network delivers a signed envelope, perhaps again.
DeliverCallback(d) ==
    /\ deliveries[d].pc = "idle"
    /\ \E e \in {x \in Envelopes : cbSigned[x] # Never} :
          deliveries' = [deliveries EXCEPT ![d] = [pc |-> "task", env |-> e]]
    /\ UNCHANGED <<cbNow, cbTask, cbSigned, nonceRows, cbApplied>>

\* GetTask; what it returns is used for the rest of the request.
ReadCallbackTask(d) ==
    /\ deliveries[d].pc = "task"
    /\ deliveries' = [deliveries EXCEPT ![d] =
                         [pc |-> "validate", env |-> deliveries[d].env,
                          live |-> cbTask.live, runtime |-> cbTask.runtime]]
    /\ UNCHANGED <<cbNow, cbTask, cbSigned, nonceRows, cbApplied>>

FinishDelivery(d) == deliveries' = [deliveries EXCEPT ![d] = NoDelivery]

\* validateRuntimeCallbackTimestamp: neither too old nor too far ahead.
FreshTimestamp(ts) == ts + Freshness >= cbNow /\ ts <= cbNow + Freshness

\* runtimeCallbackMatchesTask: a task without a runtime accepts any.
MatchesTask(runtime, assigned) == assigned = Never \/ runtime = assigned

\* validateRuntimeCallback up to the signature: the envelope is by the runtime the task
\* was read with, and fresh.  A task that was read as ended validates the envelope too.
ValidateCallback(d) ==
    LET h == deliveries[d]
    IN  /\ h.pc = "validate"
        /\ IF MatchesTask(cbSigned[h.env].runtime, h.runtime) /\ FreshTimestamp(cbSigned[h.env].ts)
           THEN deliveries' = [deliveries EXCEPT ![d] =
                                  [pc |-> "reserve", env |-> h.env, live |-> h.live, checked |-> cbNow]]
           ELSE FinishDelivery(d)
        /\ UNCHANGED <<cbNow, cbTask, cbSigned, nonceRows, cbApplied>>

\* Mistake: an existing row does not stop the request.
ReserveNonceUpsert(d) ==
    LET h == deliveries[d]
    IN  /\ h.pc = "reserve"
        /\ nonceRows' = [nonceRows EXCEPT ![h.env] = cbNow]
        /\ IF h.live
           THEN deliveries' = [deliveries EXCEPT ![d] = [pc |-> "apply", env |-> h.env]]
           ELSE FinishDelivery(d)
        /\ UNCHANGED <<cbNow, cbTask, cbSigned, cbApplied>>

\* reserveRuntimeCallbackNonce: INSERT ... ON CONFLICT DO NOTHING.  No inserted row means
\* a repeated delivery.  A task read as ended stops here, its nonce spent.
ReserveNonce(d) ==
    LET h == deliveries[d]
    IN  /\ h.pc = "reserve"
        /\ nonceRows' = IF nonceRows[h.env] = Never
                        THEN [nonceRows EXCEPT ![h.env] = cbNow] ELSE nonceRows
        /\ IF nonceRows[h.env] = Never /\ h.live
           THEN deliveries' = [deliveries EXCEPT ![d] = [pc |-> "apply", env |-> h.env]]
           ELSE FinishDelivery(d)
        /\ UNCHANGED <<cbNow, cbTask, cbSigned, cbApplied>>

\* HandleCheckpoint, HandleComplete or HandleFailedWithDetails: a conditional update that
\* is refused on a task that has ended; complete and failed end it.
ApplyCallback(d) ==
    LET e == deliveries[d].env
    IN  /\ deliveries[d].pc = "apply"
        /\ IF cbTask.live
           THEN /\ cbApplied' = [cbApplied EXCEPT ![e] = @ + 1]
                /\ \E live \in BOOLEAN : cbTask' = [cbTask EXCEPT !.live = live]
           ELSE UNCHANGED <<cbApplied, cbTask>>
        /\ FinishDelivery(d)
        /\ UNCHANGED <<cbNow, cbSigned, nonceRows>>

\* A database error, a missing key, a body that does not parse or names another runtime,
\* or a stopped server: the request ends where it stands.
AbandonDelivery(d) ==
    /\ deliveries[d].pc # "idle"
    /\ FinishDelivery(d)
    /\ UNCHANGED <<cbNow, cbTask, cbSigned, nonceRows, cbApplied>>

\* Recovery gives the task to another runtime.
ReassignTask ==
    /\ cbTask.live
    /\ \E r \in CbRuntimes : cbTask' = [cbTask EXCEPT !.runtime = r]
    /\ UNCHANGED <<cbNow, cbSigned, nonceRows, deliveries, cbApplied>>

\* Mistake: rows are deleted once they are older than the freshness window.
CleanupByFreshness ==
    /\ nonceRows' = [e \in Envelopes |->
                        IF nonceRows[e] # Never /\ nonceRows[e] + Freshness < cbNow
                        THEN Never ELSE nonceRows[e]]
    /\ UNCHANGED <<cbNow, cbTask, cbSigned, deliveries, cbApplied>>

\* CleanupExpiredRuntimeCallbackNonces.
CleanupExpiredNonces ==
    /\ nonceRows' = [e \in Envelopes |->
                        IF nonceRows[e] # Never /\ nonceRows[e] + EffectiveRetention < cbNow
                        THEN Never ELSE nonceRows[e]]
    /\ UNCHANGED <<cbNow, cbTask, cbSigned, deliveries, cbApplied>>

\* Time passes.  No request stalls for longer than MaxStall between the check of its
\* timestamp and the reservation of its nonce.
CallbackTick ==
    /\ cbNow < MaxNow
    /\ \A d \in Deliveries : deliveries[d].pc = "reserve" => cbNow < deliveries[d].checked + MaxStall
    /\ cbNow' = cbNow + 1
    /\ UNCHANGED <<cbTask, cbSigned, nonceRows, deliveries, cbApplied>>

CallbackNext ==
    \/ \E e \in Envelopes : SignCallback(e)
    \/ \E d \in Deliveries :
          \/ DeliverCallback(d)
          \/ ReadCallbackTask(d)
          \/ ValidateCallback(d)
          \/ ReserveNonce(d)
          \/ ApplyCallback(d)
          \/ AbandonDelivery(d)
    \/ ReassignTask
    \/ CleanupExpiredNonces
    \/ CallbackTick

CallbackSpec == CallbackInit /\ [][CallbackNext]_cbVars

-----------------------------------------------------------------------------
\* A signed callback changes the task at most once, however often and however late the
\* network delivers it, whichever handlers run at the same time, and although its nonce is
\* deleted in the end (reserveRuntimeCallbackNonce before the mutation, and the retention
\* of CleanupExpiredRuntimeCallbackNonces).
CallbackAppliedOnce == \A e \in Envelopes : cbApplied[e] <= 1

\* The envelope may already have changed the task, or is about to.
Consumed(e) ==
    \/ cbApplied[e] = 1
    \/ \E d \in Deliveries : deliveries[d].pc = "apply" /\ deliveries[d].env = e

\* While an envelope that was consumed may still pass the timestamp check and reach the
\* reservation, its row is there: the cleanup never forgets it too early.
ConsumedNonceRemembered ==
    \A e \in Envelopes :
        Consumed(e) => \/ nonceRows[e] # Never
                       \/ cbNow > cbSigned[e].ts + Freshness + MaxStall
=============================================================================
