----------------------------- MODULE RuntimeSelector -----------------------------
(***************************************************************************)
(* The runtime selector of /v1/infer (internal/runtime_selector.go) and    *)
(* the circuit breaker it keeps for every runtime                          *)
(* (circuitbreaker/circuit_breaker.go).  A request walks the healthy       *)
(* runtimes in order of preference, skips the ones whose breaker is open,  *)
(* and records how each call ended; requests overlap, and a call admitted  *)
(* by a closed breaker may end long after it opened.  The row of           *)
(* circuit_breaker_states is written for dashboards and never read back    *)
(* here, so it is left out.                                                *)
(***************************************************************************)
EXTENDS Sequences, Naturals

CONSTANTS
    Requests,          \* requests of /v1/infer that overlap
    Preference,        \* the runtimes, edge first: ListHealthy's order
    FailureThreshold,  \* Config.FailureThreshold
    RecoveryTimeout    \* Config.RecoveryTimeout, in ticks

ASSUME SelectorAssumption ==
    /\ FailureThreshold \in Nat \ {0}
    /\ RecoveryTimeout \in Nat \ {0}

VARIABLES
    breakers,          \* one per runtime; sinceFailure is the age of lastFailureTime of an open one
    healthy,           \* runtime_instances.is_healthy, by runtime
    requests,          \* requests in flight: the runtimes still to try
    failureStreak      \* failures a closed breaker recorded since its last success: a history variable

selectorVars == <<breakers, healthy, requests, failureStreak>>

Runtimes == {Preference[i] : i \in 1..Len(Preference)}

NoRequest == [pc |-> "idle"]

SelectorInit ==
    /\ breakers = [r \in Runtimes |-> [state |-> "closed", failureCount |-> 0,
                                       successCount |-> 0, sinceFailure |-> RecoveryTimeout]]
    /\ healthy = [r \in Runtimes |-> TRUE]
    /\ requests = [q \in Requests |-> NoRequest]
    /\ failureStreak = [r \in Runtimes |-> 0]

-----------------------------------------------------------------------------
(* The circuit breaker; each operation holds its mutex                     *)

Recovered(b) == b.state = "open" /\ b.sinceFailure >= RecoveryTimeout

\* What Allow answers.
Allowed(b) == b.state # "open" \/ Recovered(b)

\* Mistake: a refused request counts as one more failure of the runtime.
AllowRestartsTimeout(b) ==
    IF Recovered(b)
    THEN [b EXCEPT !.state = "half-open", !.successCount = 0, !.failureCount = 0]
    ELSE IF b.state = "open" THEN [b EXCEPT !.sinceFailure = 0] ELSE b

\* What Allow leaves behind: an open breaker whose timeout has passed is half-open.
Allow(b) ==
    IF Recovered(b)
    THEN [b EXCEPT !.state = "half-open", !.successCount = 0, !.failureCount = 0]
    ELSE b

\* Mistake: a success of a closed breaker does not clear the failures counted so far.
RecordSuccessKeepsFailures(b) ==
    LET closes == b.state = "half-open" /\ b.successCount + 1 >= 2
    IN  IF b.state = "half-open"
        THEN [b EXCEPT !.state = IF closes THEN "closed" ELSE @,
                       !.successCount = IF closes THEN 0 ELSE @ + 1,
                       !.failureCount = IF closes THEN 0 ELSE @]
        ELSE b

RecordSuccess(b) ==
    LET closes == b.state = "half-open" /\ b.successCount + 1 >= 2
    IN  CASE b.state = "closed" -> [b EXCEPT !.failureCount = 0]
          [] b.state = "half-open" ->
                 [b EXCEPT !.state = IF closes THEN "closed" ELSE @,
                           !.successCount = IF closes THEN 0 ELSE @ + 1,
                           !.failureCount = IF closes THEN 0 ELSE @]
          [] OTHER -> b

\* A failure restarts the timeout, also of a breaker that is open already.
\* (lastFailureTime is read only while the breaker is open, so the age of a
\* failure that leaves it closed is not kept.)
RecordFailure(b) ==
    LET opens == b.state # "closed" \/ b.failureCount + 1 >= FailureThreshold
        counted == [b EXCEPT !.state = IF opens THEN "open" ELSE @,
                             !.sinceFailure = IF opens THEN 0 ELSE @]
    IN  CASE b.state = "closed" -> [counted EXCEPT !.failureCount = @ + 1]
          [] b.state = "half-open" -> [counted EXCEPT !.failureCount = 0, !.successCount = 0]
          [] OTHER -> counted

-----------------------------------------------------------------------------
(* A request                                                               *)

\* ForwardExecution and OpenStreamingExecution list the healthy runtimes once.
BeginRequest(q) ==
    /\ requests[q] = NoRequest
    /\ requests' = [requests EXCEPT ![q] =
           [pc |-> "try", rest |-> SelectSeq(Preference, LAMBDA r : healthy[r])]]
    /\ UNCHANGED <<breakers, healthy, failureStreak>>

\* IsProviderAvailable of the next runtime: call it, or skip it.
TryRuntime(q) ==
    /\ requests[q].pc = "try" /\ requests[q].rest # <<>>
    /\ LET r == Head(requests[q].rest)
       IN  /\ breakers' = [breakers EXCEPT ![r] = Allow(@)]
           /\ requests' = [requests EXCEPT ![q] =
                  IF Allowed(breakers[r]) THEN [@ EXCEPT !.pc = "call"]
                  ELSE [@ EXCEPT !.rest = Tail(@)]]
    /\ UNCHANGED <<healthy, failureStreak>>

\* The call succeeded: RecordSuccess, and the request is answered.
CallSucceeds(q) ==
    /\ requests[q].pc = "call"
    /\ LET r == Head(requests[q].rest)
       IN  /\ breakers' = [breakers EXCEPT ![r] = RecordSuccess(@)]
           /\ failureStreak' = [failureStreak EXCEPT ![r] =
                                    IF breakers'[r].state = "closed" THEN 0 ELSE @]
    /\ requests' = [requests EXCEPT ![q] = NoRequest]
    /\ UNCHANGED healthy

\* The call failed: RecordFailure.
CallFails(q) ==
    /\ requests[q].pc = "call"
    /\ LET r == Head(requests[q].rest)
       IN  /\ breakers' = [breakers EXCEPT ![r] = RecordFailure(@)]
           /\ failureStreak' = [failureStreak EXCEPT ![r] =
                                    IF breakers[r].state = "closed" THEN @ + 1 ELSE @]
    /\ requests' = [requests EXCEPT ![q].pc = "failed"]
    /\ UNCHANGED healthy

\* To choose which row to persist the selector asks IsProviderAvailable again,
\* which may itself move the breaker; then the next runtime is tried.
PersistFailure(q) ==
    /\ requests[q].pc = "failed"
    /\ breakers' = [breakers EXCEPT ![Head(requests[q].rest)] = Allow(@)]
    /\ requests' = [requests EXCEPT ![q] = [pc |-> "try", rest |-> Tail(@.rest)]]
    /\ UNCHANGED <<healthy, failureStreak>>

\* No runtime is left: the request falls back to direct provider routing.
NoRuntimeAvailable(q) ==
    /\ requests[q].pc = "try" /\ requests[q].rest = <<>>
    /\ requests' = [requests EXCEPT ![q] = NoRequest]
    /\ UNCHANGED <<breakers, healthy, failureStreak>>

-----------------------------------------------------------------------------
(* The health poller and the clock                                         *)

\* pollHealth writes what /v1/health of a runtime answered; a registration or a
\* heartbeat makes the row healthy too.
UpdateHealth(r) ==
    /\ healthy' = [healthy EXCEPT ![r] = ~@]
    /\ UNCHANGED <<breakers, requests, failureStreak>>

\* One tick; an age beyond the recovery timeout is not told apart.
SelectorTick ==
    /\ \E r \in Runtimes : breakers[r].sinceFailure < RecoveryTimeout
    /\ breakers' = [r \in Runtimes |->
           [breakers[r] EXCEPT !.sinceFailure = IF @ < RecoveryTimeout THEN @ + 1 ELSE @]]
    /\ UNCHANGED <<healthy, requests, failureStreak>>

RequestStep(q) ==
    \/ BeginRequest(q)
    \/ TryRuntime(q)
    \/ CallSucceeds(q)
    \/ CallFails(q)
    \/ PersistFailure(q)
    \/ NoRuntimeAvailable(q)

SelectorNext ==
    \/ \E q \in Requests : RequestStep(q)
    \/ \E r \in Runtimes : UpdateHealth(r)
    \/ SelectorTick

\* Requests keep coming and every call ends, by its answer or by its timeout or
\* the cancellation of its context; time passes.  How a call ends, and what the
\* poller finds, is not constrained.
SelectorFairness ==
    /\ \A q \in Requests : WF_selectorVars(RequestStep(q))
    /\ WF_selectorVars(SelectorTick)

SelectorSpec == SelectorInit /\ [][SelectorNext]_selectorVars /\ SelectorFairness

-----------------------------------------------------------------------------

\* A breaker leaves "closed" only for "open", and only when FailureThreshold calls
\* in a row were recorded as failures: an old failure, before a success, never
\* counts towards opening it, however the requests overlap (RecordSuccess,
\* RecordFailure).
BreakerOpensOnStreak ==
    [][\A r \in Runtimes :
          (breakers[r].state = "closed" /\ breakers'[r].state # "closed") =>
              breakers'[r].state = "open" /\ failureStreak'[r] >= FailureThreshold]_selectorVars

\* An open breaker does not shut its runtime out for ever: the preferred runtime,
\* while the poller reports it healthy, is tried again, although calls admitted
\* before it opened may fail late and restart the timeout (Allow, RecordFailure).
OpenBreakerIsProbed ==
    breakers[Preference[1]].state = "open"
        ~> (breakers[Preference[1]].state # "open" \/ ~healthy[Preference[1]])
=============================================================================
