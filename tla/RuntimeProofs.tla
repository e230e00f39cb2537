----------------------------- MODULE RuntimeProofs -----------------------------
(***************************************************************************)
(* The properties of the registry and of the circuit breakers for every    *)
(* set of requests, keys, commands and runtimes, and any number of clears. *)
(* A registered key is final because only a row that does not exist, or    *)
(* has no key, takes one.  The queue's properties rest on the clear        *)
(* generation: a response or a request of the current generation names no  *)
(* cleared command.  A closed breaker's failureCount is its streak.        *)
(*                                                                         *)
(* Then the callbacks of the runtimes: one changes its task at most once,  *)
(* for every set of requests and envelopes, any clock and any retention    *)
(* that CallbackAssumption admits.                                         *)
(***************************************************************************)
EXTENDS RuntimeRegistry, RuntimeSelector, CallbackDelivery, TLAPS

RegistrationInv ==
    /\ instance \in [exists : BOOLEAN, key : MachineKeys \cup {NoMachineKey},
                     status : {"none", "active", "deregistered"}]
    /\ registrars \in [Registrars -> {NoRegistration}
                                     \cup [pc : {"insert", "update"}, key : MachineKeys]]
    /\ ~instance.exists => instance.key = NoMachineKey
    /\ \A r \in Registrars : registrars[r].pc = "update" => instance.exists

\* The commands an acknowledgement has granted to the runtime.
Granted == UNION ackResponses

QueueTypeOK ==
    /\ clearGeneration \in Nat
    /\ fetched \subseteq [commands : SUBSET queuedEver, generation : 0..clearGeneration]
    /\ ackRequests \subseteq [keys : SUBSET queuedEver, generation : 0..clearGeneration]
    /\ pendingCommands \subseteq queuedEver
    /\ clearedEver \subseteq queuedEver
    /\ Granted \subseteq queuedEver

\* A command is in at most one place, and what is known of the current clear
\* generation was not cleared.
QueueInv ==
    /\ QueueTypeOK
    /\ owned \subseteq Granted
    /\ Granted \cap clearedEver = {}
    /\ Granted \cap pendingCommands = {}
    /\ pendingCommands \cap clearedEver = {}
    /\ \A f \in fetched : f.generation = clearGeneration => f.commands \cap clearedEver = {}
    /\ \A a \in ackRequests : a.generation = clearGeneration => a.keys \cap clearedEver = {}
    /\ NoCommandLost

-----------------------------------------------------------------------------
(* Registration                                                            *)

LEMMA RegistrationInvInit == RegistryInit => RegistrationInv
<1> SUFFICES ASSUME RegistryInit PROVE RegistrationInv
    OBVIOUS
<1>1. /\ instance \in [exists : BOOLEAN, key : MachineKeys \cup {NoMachineKey},
                        status : {"none", "active", "deregistered"}]
      /\ ~instance.exists => instance.key = NoMachineKey
  <2>1. CASE instance = [exists |-> FALSE, key |-> NoMachineKey, status |-> "none"]
    BY <2>1
  <2>2. ASSUME NEW key \in MachineKeys \cup {NoMachineKey},
               instance = [exists |-> TRUE, key |-> key, status |-> "active"]
        PROVE  <1>1!:
    BY <2>2
  <2> QED BY <2>1, <2>2 DEF RegistryInit
<1>2. registrars = [r \in Registrars |-> NoRegistration]
  BY DEF RegistryInit
<1> QED BY <1>1, <1>2 DEF RegistrationInv, NoRegistration

\* Every step keeps the invariant and a key that is set.
LEMMA RegistrationStep ==
    RegistrationInv /\ [RegistryNext]_registryVars =>
        RegistrationInv' /\ (instance.key # NoMachineKey => instance'.key = instance.key)
<1> SUFFICES ASSUME RegistrationInv, [RegistryNext]_registryVars
             PROVE  RegistrationInv' /\ (instance.key # NoMachineKey => instance'.key = instance.key)
    OBVIOUS
<1> USE DEF RegistrationInv, NoRegistration
<1>1. ASSUME NEW r \in Registrars, NEW key \in MachineKeys, BeginRegister(r, key)
      PROVE  RegistrationInv' /\ instance' = instance
  BY <1>1 DEF BeginRegister, queueVars
<1>2. ASSUME NEW r \in Registrars, InsertInstance(r)
      PROVE  RegistrationInv' /\ (instance.key # NoMachineKey => instance'.key = instance.key)
  BY <1>2 DEF InsertInstance, EndRegister
<1>3. ASSUME NEW r \in Registrars, UpdateInstance(r)
      PROVE  RegistrationInv' /\ (instance.key # NoMachineKey => instance'.key = instance.key)
  <2>1. registrars[r] \in [pc : {"insert", "update"}, key : MachineKeys]
    BY <1>3 DEF UpdateInstance
  <2>2. registrars' \in [Registrars -> {NoRegistration}
                                       \cup [pc : {"insert", "update"}, key : MachineKeys]]
    BY <1>3 DEF UpdateInstance, EndRegister
  <2>3. instance'.exists = instance.exists
    BY <1>3 DEF UpdateInstance
  <2>4. instance'.key = IF instance.key = NoMachineKey THEN registrars[r].key ELSE instance.key
    BY <1>3 DEF UpdateInstance
  <2>5. instance' \in [exists : BOOLEAN, key : MachineKeys \cup {NoMachineKey},
                       status : {"none", "active", "deregistered"}]
    BY <1>3, <2>1 DEF UpdateInstance
  <2>6. instance.exists
    BY <1>3 DEF UpdateInstance
  <2> QED BY <2>2, <2>3, <2>4, <2>5, <2>6
<1>4. ASSUME NEW r \in Registrars, AbandonRegister(r)
      PROVE  RegistrationInv' /\ instance' = instance
  BY <1>4 DEF AbandonRegister, EndRegister
<1>5. ASSUME Heartbeat \/ Deregister
      PROVE  RegistrationInv' /\ instance'.key = instance.key
  BY <1>5 DEF Heartbeat, Deregister
<1>6. ASSUME CommandNext \/ UNCHANGED registryVars
      PROVE  RegistrationInv' /\ instance' = instance
  <2>1. UNCHANGED <<instance, registrars>>
    BY <1>6 DEF CommandNext, registryVars, QueueCommand, ClearCommands, FetchCommands, SendAck,
                AckPendingCommands, ReceiveOwnership
  <2> QED BY <2>1
<1> QED BY <1>1, <1>2, <1>3, <1>4, <1>5, <1>6 DEF RegistryNext, RegistrationNext

(* No registration replaces the key of a machine, also not one that read   *)
(* the row before another registration set it (Register's key CASE).       *)
THEOREM KeyFinality == RegistrySpec => RegisteredKeyIsFinal
<1>1. RegistrationInv /\ [RegistryNext]_registryVars =>
          [instance.key # NoMachineKey => instance'.key = instance.key]_registryVars
  BY RegistrationStep
<1>2. RegistrationInv /\ [RegistryNext]_registryVars => RegistrationInv'
  BY RegistrationStep
<1> QED BY <1>1, <1>2, RegistrationInvInit, PTL DEF RegistrySpec, RegisteredKeyIsFinal

-----------------------------------------------------------------------------
(* The command queue                                                       *)

LEMMA QueueInvInit == RegistryInit => QueueInv
BY DEF RegistryInit, QueueInv, QueueTypeOK, Granted, NoCommandLost

LEMMA QueueCommandStep ==
    ASSUME QueueInv, NEW c \in Commands, QueueCommand(c)
    PROVE  QueueInv'
<1>1. QueueTypeOK'
  BY DEF QueueInv, QueueTypeOK, QueueCommand, Granted
<1> QED BY <1>1 DEF QueueInv, QueueTypeOK, QueueCommand, Granted, NoCommandLost

LEMMA ClearCommandsStep ==
    ASSUME QueueInv, ClearCommands
    PROVE  QueueInv'
<1>1. QueueTypeOK'
  BY DEF QueueInv, QueueTypeOK, ClearCommands, Granted
<1>2. \A f \in fetched \cup ackRequests : f.generation # clearGeneration'
  BY DEF QueueInv, QueueTypeOK, ClearCommands
<1> QED BY <1>1, <1>2 DEF QueueInv, QueueTypeOK, ClearCommands, Granted, NoCommandLost

LEMMA FetchCommandsStep ==
    ASSUME QueueInv, FetchCommands
    PROVE  QueueInv'
<1>1. QueueTypeOK'
  BY DEF QueueInv, QueueTypeOK, FetchCommands, Granted
<1> QED BY <1>1 DEF QueueInv, QueueTypeOK, FetchCommands, Granted, NoCommandLost

LEMMA SendAckStep ==
    ASSUME QueueInv, NEW response \in fetched, NEW keys \in SUBSET response.commands,
           SendAck(response, keys)
    PROVE  QueueInv'
<1>1. response \in [commands : SUBSET queuedEver, generation : 0..clearGeneration]
  BY DEF QueueInv, QueueTypeOK
<1>2. QueueTypeOK'
  BY <1>1 DEF QueueInv, QueueTypeOK, SendAck, Granted
<1> QED BY <1>1, <1>2 DEF QueueInv, SendAck, Granted, NoCommandLost

\* The only step that grants commands: those of a request of the current generation.
LEMMA AckStep ==
    ASSUME QueueInv, NEW request \in ackRequests, AckPendingCommands(request)
    PROVE  QueueInv'
<1>1. /\ request.keys \subseteq queuedEver
      /\ request.keys \cap clearedEver = {}
  BY DEF QueueInv, QueueTypeOK, AckPendingCommands
<1>2. Granted' = Granted \cup request.keys
  BY DEF AckPendingCommands, Granted
<1>3. QueueTypeOK'
  BY <1>1, <1>2 DEF QueueInv, QueueTypeOK, AckPendingCommands
<1>4. NoCommandLost'
  BY <1>2 DEF QueueInv, NoCommandLost, AckPendingCommands, Granted
<1> QED BY <1>1, <1>2, <1>3, <1>4 DEF QueueInv, AckPendingCommands

LEMMA ReceiveOwnershipStep ==
    ASSUME QueueInv, NEW keys \in ackResponses, ReceiveOwnership(keys)
    PROVE  QueueInv'
<1>1. QueueTypeOK'
  BY DEF QueueInv, QueueTypeOK, ReceiveOwnership, Granted
<1> QED BY <1>1 DEF QueueInv, ReceiveOwnership, Granted, NoCommandLost

LEMMA QueueInvStep == QueueInv /\ [RegistryNext]_registryVars => QueueInv'
<1> SUFFICES ASSUME QueueInv, [RegistryNext]_registryVars PROVE QueueInv'
    OBVIOUS
<1>1. ASSUME RegistrationNext \/ UNCHANGED registryVars PROVE QueueInv'
  <2>1. UNCHANGED queueVars
    BY <1>1 DEF RegistrationNext, registryVars, queueVars, BeginRegister, InsertInstance,
                UpdateInstance, AbandonRegister, Heartbeat, Deregister
  <2> QED BY <2>1 DEF QueueInv, QueueTypeOK, queueVars, Granted, NoCommandLost
<1>2. ASSUME CommandNext PROVE QueueInv'
  BY <1>2, QueueCommandStep, ClearCommandsStep, FetchCommandsStep, SendAckStep, AckStep,
     ReceiveOwnershipStep DEF CommandNext
<1> QED BY <1>1, <1>2 DEF RegistryNext

(* However acknowledgements and their answers are delayed or repeated, the  *)
(* runtime never comes to own a command that an operator cleared            *)
(* (AckPendingCommands).                                                    *)
THEOREM QueueSafety == RegistrySpec => []ClearedNeverOwned
<1>1. QueueInv => ClearedNeverOwned
  BY DEF QueueInv, ClearedNeverOwned
<1> QED BY <1>1, QueueInvInit, QueueInvStep, PTL DEF RegistrySpec

(* No command leaves the queue except cleared by an operator or granted to  *)
(* the runtime, whatever answers are lost or repeated.                      *)
THEOREM QueueLosesNothing == RegistrySpec => []NoCommandLost
<1>1. QueueInv => NoCommandLost
  BY DEF QueueInv
<1> QED BY <1>1, QueueInvInit, QueueInvStep, PTL DEF RegistrySpec

-----------------------------------------------------------------------------
(* The circuit breakers                                                    *)

Breaker == [state : {"closed", "open", "half-open"}, failureCount : Nat,
            successCount : Nat, sinceFailure : Nat]

SelectorInv ==
    /\ breakers \in [Runtimes -> Breaker]
    /\ failureStreak \in [Runtimes -> Nat]
    /\ \A r \in Runtimes : breakers[r].state = "closed" =>
          breakers[r].failureCount = failureStreak[r]

\* What BreakerOpensOnStreak asks of a step, for one runtime.
OpensOnStreak(r) ==
    (breakers[r].state = "closed" /\ breakers'[r].state # "closed") =>
        breakers'[r].state = "open" /\ failureStreak'[r] >= FailureThreshold

LEMMA AllowLemma ==
    ASSUME NEW b \in Breaker
    PROVE  /\ Allow(b) \in Breaker
           /\ (b.state = "closed" <=> Allow(b).state = "closed")
           /\ Allow(b).state = "closed" => Allow(b).failureCount = b.failureCount
BY DEF Breaker, Allow, Recovered

LEMMA RecordSuccessLemma ==
    ASSUME NEW b \in Breaker
    PROVE  /\ RecordSuccess(b) \in Breaker
           /\ b.state = "closed" => RecordSuccess(b).state = "closed"
           /\ RecordSuccess(b).state = "closed" => RecordSuccess(b).failureCount = 0
<1>1. CASE b.state = "closed"
  BY <1>1 DEF Breaker, RecordSuccess
<1>2. CASE b.state = "half-open"
  <2>1. CASE b.successCount + 1 >= 2
    <3>1. RecordSuccess(b) = [state |-> "closed", failureCount |-> 0, successCount |-> 0,
                                sinceFailure |-> b.sinceFailure]
      BY <1>2, <2>1 DEF Breaker, RecordSuccess
    <3> QED BY <1>2, <3>1 DEF Breaker
  <2>2. CASE ~(b.successCount + 1 >= 2)
    <3>1. RecordSuccess(b) = [b EXCEPT !.successCount = @ + 1]
      BY <1>2, <2>2 DEF Breaker, RecordSuccess
    <3> QED BY <1>2, <3>1 DEF Breaker
  <2> QED BY <2>1, <2>2
<1>3. CASE b.state = "open"
  BY <1>3 DEF Breaker, RecordSuccess
<1> QED BY <1>1, <1>2, <1>3 DEF Breaker

LEMMA RecordFailureLemma ==
    ASSUME NEW b \in Breaker
    PROVE  /\ RecordFailure(b) \in Breaker
           /\ RecordFailure(b).state = "closed" => b.state = "closed"
           /\ b.state = "closed" =>
                 /\ RecordFailure(b).failureCount = b.failureCount + 1
                 /\ \/ RecordFailure(b).state = "closed"
                    \/ /\ RecordFailure(b).state = "open"
                       /\ b.failureCount + 1 >= FailureThreshold
<1>1. CASE b.state = "closed"
  <2>1. CASE b.failureCount + 1 >= FailureThreshold
    <3>1. RecordFailure(b) = [state |-> "open", failureCount |-> b.failureCount + 1,
                                successCount |-> b.successCount, sinceFailure |-> 0]
      BY <1>1, <2>1 DEF Breaker, RecordFailure
    <3> QED BY <1>1, <2>1, <3>1 DEF Breaker
  <2>2. CASE ~(b.failureCount + 1 >= FailureThreshold)
    <3>1. RecordFailure(b) = [b EXCEPT !.failureCount = @ + 1]
      BY <1>1, <2>2 DEF Breaker, RecordFailure
    <3> QED BY <1>1, <3>1 DEF Breaker
  <2> QED BY <2>1, <2>2
<1>2. CASE b.state = "half-open"
  BY <1>2 DEF Breaker, RecordFailure
<1>3. CASE b.state = "open"
  BY <1>3 DEF Breaker, RecordFailure
<1> QED BY <1>1, <1>2, <1>3 DEF Breaker

\* The step leaves the breaker of r alone or is an operation of the circuit breaker.
BreakerOperation(r) ==
    \/ breakers'[r] = breakers[r] /\ failureStreak'[r] = failureStreak[r]
    \/ breakers'[r] = Allow(breakers[r]) /\ failureStreak'[r] = failureStreak[r]
    \/ /\ breakers'[r] = RecordSuccess(breakers[r])
       /\ failureStreak'[r] = IF breakers'[r].state = "closed" THEN 0 ELSE failureStreak[r]
    \/ /\ breakers'[r] = RecordFailure(breakers[r])
       /\ failureStreak'[r] = IF breakers[r].state = "closed" THEN failureStreak[r] + 1
                              ELSE failureStreak[r]

LEMMA BreakerStep ==
    ASSUME SelectorInv, NEW r \in Runtimes, BreakerOperation(r)
    PROVE  /\ breakers'[r] \in Breaker /\ failureStreak'[r] \in Nat
           /\ breakers'[r].state = "closed" => breakers'[r].failureCount = failureStreak'[r]
           /\ OpensOnStreak(r)
<1>1. breakers[r] \in Breaker /\ failureStreak[r] \in Nat
  BY DEF SelectorInv
<1>2. breakers[r].state = "closed" => breakers[r].failureCount = failureStreak[r]
  BY DEF SelectorInv
<1>3. CASE breakers'[r] = breakers[r] /\ failureStreak'[r] = failureStreak[r]
  BY <1>1, <1>2, <1>3 DEF OpensOnStreak
<1>4. CASE breakers'[r] = Allow(breakers[r]) /\ failureStreak'[r] = failureStreak[r]
  BY <1>1, <1>2, <1>4, AllowLemma DEF OpensOnStreak
<1>5. CASE /\ breakers'[r] = RecordSuccess(breakers[r])
           /\ failureStreak'[r] = IF breakers'[r].state = "closed" THEN 0 ELSE failureStreak[r]
  BY <1>1, <1>2, <1>5, RecordSuccessLemma DEF OpensOnStreak
<1>6. CASE /\ breakers'[r] = RecordFailure(breakers[r])
           /\ failureStreak'[r] = IF breakers[r].state = "closed" THEN failureStreak[r] + 1
                                  ELSE failureStreak[r]
  BY <1>1, <1>2, <1>6, RecordFailureLemma DEF OpensOnStreak
<1> QED BY <1>3, <1>4, <1>5, <1>6 DEF BreakerOperation

LEMMA SelectorInvInit == SelectorInit => SelectorInv
BY SelectorAssumption DEF SelectorInit, SelectorInv, Breaker

\* The breaker and the streak of a runtime after a step.
LEMMA SelectorStep ==
    SelectorInv /\ [SelectorNext]_selectorVars =>
        SelectorInv' /\ \A r \in Runtimes : OpensOnStreak(r)
<1> SUFFICES ASSUME SelectorInv, [SelectorNext]_selectorVars
             PROVE  SelectorInv' /\ \A r \in Runtimes : OpensOnStreak(r)
    OBVIOUS
<1>1. CASE SelectorTick
  <2>1. \A r \in Runtimes : breakers'[r] \in Breaker /\ breakers'[r].state = breakers[r].state
                             /\ breakers'[r].failureCount = breakers[r].failureCount
    BY <1>1 DEF SelectorTick, SelectorInv, Breaker
  <2>2. breakers' \in [Runtimes -> Breaker] /\ failureStreak' = failureStreak
    BY <1>1, <2>1 DEF SelectorTick
  <2> QED BY <2>1, <2>2 DEF SelectorInv, OpensOnStreak
<1>2. ASSUME ~SelectorTick PROVE SelectorInv' /\ \A r \in Runtimes : OpensOnStreak(r)
  <2>1. /\ breakers' = [r \in Runtimes |-> breakers'[r]]
        /\ failureStreak' = [r \in Runtimes |-> failureStreak'[r]]
    BY <1>2 DEF SelectorNext, SelectorInv, selectorVars, RequestStep, BeginRequest, TryRuntime,
                CallSucceeds, CallFails, PersistFailure, NoRuntimeAvailable, UpdateHealth
  <2>2. ASSUME NEW r \in Runtimes PROVE BreakerOperation(r)
    <3>1. CASE UNCHANGED <<breakers, failureStreak>>
      BY <3>1 DEF BreakerOperation
    <3>2. ASSUME NEW q \in Requests, TryRuntime(q) \/ PersistFailure(q) PROVE BreakerOperation(r)
      BY <3>2 DEF TryRuntime, PersistFailure, SelectorInv, BreakerOperation
    <3>3. ASSUME NEW q \in Requests, CallSucceeds(q) PROVE BreakerOperation(r)
      BY <3>3 DEF CallSucceeds, SelectorInv, BreakerOperation
    <3>4. ASSUME NEW q \in Requests, CallFails(q) PROVE BreakerOperation(r)
      BY <3>4 DEF CallFails, SelectorInv, BreakerOperation
    <3> QED BY <1>2, <3>1, <3>2, <3>3, <3>4 DEF SelectorNext, RequestStep, BeginRequest,
               NoRuntimeAvailable, UpdateHealth, selectorVars
  <2> QED BY <2>1, <2>2, BreakerStep DEF SelectorInv
<1> QED BY <1>1, <1>2

(* A breaker opens only on FailureThreshold recorded failures with no       *)
(* success between them, however the requests overlap.                      *)
THEOREM BreakerSafety == SelectorSpec => BreakerOpensOnStreak
<1>1. SelectorInv /\ [SelectorNext]_selectorVars => SelectorInv'
  BY SelectorStep
<1>2. SelectorInv /\ [SelectorNext]_selectorVars =>
          [\A r \in Runtimes :
              (breakers[r].state = "closed" /\ breakers'[r].state # "closed") =>
                  breakers'[r].state = "open" /\ failureStreak'[r] >= FailureThreshold]_selectorVars
  BY SelectorStep DEF OpensOnStreak
<1> QED BY <1>1, <1>2, SelectorInvInit, PTL DEF SelectorSpec, BreakerOpensOnStreak

-----------------------------------------------------------------------------
(* Callbacks.  A request that may still reserve a nonce checked a fresh    *)
(* timestamp at most MaxStall ago (ReserveInv); a row is accepted at most  *)
(* Freshness before the timestamp (RowInv); so a row that the cleanup      *)
(* deletes is of an envelope no request can reserve any more.              *)

Shapes ==
    {NoDelivery}
    \cup [pc : {"task"}, env : Envelopes]
    \cup [pc : {"validate"}, env : Envelopes, live : BOOLEAN, runtime : CbRuntimes \cup {Never}]
    \cup [pc : {"reserve"}, env : Envelopes, live : BOOLEAN, checked : Int]
    \cup [pc : {"apply"}, env : Envelopes]

CallbackTypeOK ==
    /\ cbNow \in Int
    /\ cbSigned \in [Envelopes -> {Never} \cup [ts : Int, runtime : CbRuntimes]]
    /\ nonceRows \in [Envelopes -> Int \cup {Never}]
    /\ deliveries \in [Deliveries -> Shapes]
    /\ cbApplied \in [Envelopes -> {0, 1}]
    /\ cbTask \in [live : BOOLEAN, runtime : CbRuntimes \cup {Never}]

SignedInv ==
    /\ \A d \in Deliveries : deliveries[d].pc # "idle" => cbSigned[deliveries[d].env] # Never
    /\ \A e \in Envelopes : nonceRows[e] # Never \/ cbApplied[e] = 1 => cbSigned[e] # Never

ReserveInv ==
    \A d \in Deliveries :
        LET h == deliveries[d]
        IN  h.pc = "reserve" =>
                /\ h.checked <= cbNow /\ cbNow <= h.checked + MaxStall
                /\ h.checked <= cbSigned[h.env].ts + Freshness
                /\ cbSigned[h.env].ts <= h.checked + Freshness

RowInv ==
    \A e \in Envelopes :
        nonceRows[e] # Never => /\ nonceRows[e] <= cbNow
                                /\ cbSigned[e].ts <= nonceRows[e] + Freshness

\* Only one request at a time is about to apply an envelope, and it was not applied yet.
ApplyInv ==
    /\ \A d \in Deliveries : deliveries[d].pc = "apply" => cbApplied[deliveries[d].env] = 0
    /\ \A c, d \in Deliveries :
          /\ deliveries[c].pc = "apply" /\ deliveries[d].pc = "apply"
          /\ deliveries[c].env = deliveries[d].env
          => c = d

CallbackInv ==
    /\ CallbackTypeOK
    /\ SignedInv
    /\ ReserveInv
    /\ RowInv
    /\ ApplyInv
    /\ ConsumedNonceRemembered

-----------------------------------------------------------------------------

LEMMA Numbers == Freshness \in Nat /\ MaxStall \in Nat /\ EffectiveRetention \in Int
BY CallbackAssumption DEF EffectiveRetention

LEMMA CallbackInvInit == CallbackInit => CallbackInv
<1> SUFFICES ASSUME CallbackInit PROVE CallbackInv
    OBVIOUS
<1>1. CallbackTypeOK
  BY DEF CallbackInit, CallbackTypeOK, Shapes
<1>2. \A d \in Deliveries : deliveries[d].pc = "idle"
  BY DEF CallbackInit, NoDelivery
<1>3. SignedInv /\ ReserveInv /\ RowInv /\ ApplyInv
  BY <1>2 DEF CallbackInit, SignedInv, ReserveInv, RowInv, ApplyInv
<1>4. ConsumedNonceRemembered
  BY <1>2 DEF CallbackInit, ConsumedNonceRemembered, Consumed
<1> QED BY <1>1, <1>3, <1>4 DEF CallbackInv

LEMMA SignStep ==
    ASSUME CallbackInv, NEW e \in Envelopes, SignCallback(e)
    PROVE  CallbackInv'
<1>1. CallbackTypeOK'
  BY Numbers DEF CallbackInv, CallbackTypeOK, SignCallback
<1>2. \A x \in Envelopes : cbSigned[x] # Never => cbSigned'[x] = cbSigned[x] /\ x # e
  BY DEF CallbackInv, CallbackTypeOK, SignCallback
<1>3. \A d \in Deliveries : deliveries[d].pc # "idle" => deliveries[d].env \in Envelopes
  BY DEF CallbackInv, CallbackTypeOK, Shapes, NoDelivery
<1>4. UNCHANGED <<cbNow, nonceRows, deliveries, cbApplied>>
  BY DEF SignCallback
<1>5. SignedInv'
  BY <1>2, <1>3, <1>4 DEF CallbackInv, SignedInv
<1>6. ReserveInv'
  BY <1>2, <1>3, <1>4 DEF CallbackInv, SignedInv, ReserveInv
<1>7. RowInv'
  BY <1>2, <1>4 DEF CallbackInv, SignedInv, RowInv
<1>8. ApplyInv'
  BY <1>4 DEF CallbackInv, ApplyInv
<1>9. ConsumedNonceRemembered'
  BY <1>2, <1>4 DEF CallbackInv, SignedInv, ConsumedNonceRemembered, Consumed
<1> QED BY <1>1, <1>5, <1>6, <1>7, <1>8, <1>9 DEF CallbackInv

\* A step that moves one request to a state that neither reserves nor applies.
LEMMA QuietStep ==
    ASSUME CallbackInv, NEW d \in Deliveries, NEW h \in Shapes,
           h.pc \notin {"reserve", "apply"},
           h.pc # "idle" => cbSigned[h.env] # Never,
           deliveries' = [deliveries EXCEPT ![d] = h],
           UNCHANGED <<cbNow, cbTask, cbSigned, nonceRows, cbApplied>>
    PROVE  CallbackInv'
<1>1. CallbackTypeOK'
  BY DEF CallbackInv, CallbackTypeOK
<1>2. /\ deliveries'[d] = h
      /\ \A c \in Deliveries : c # d => deliveries'[c] = deliveries[c]
  BY DEF CallbackInv, CallbackTypeOK
<1>3. SignedInv'
  BY <1>2 DEF CallbackInv, SignedInv
<1>4. ReserveInv'
  BY <1>2 DEF CallbackInv, ReserveInv
<1>5. RowInv'
  BY DEF CallbackInv, RowInv
<1>6. ApplyInv'
  BY <1>2 DEF CallbackInv, ApplyInv
<1>7. ConsumedNonceRemembered'
  BY <1>2 DEF CallbackInv, ConsumedNonceRemembered, Consumed
<1> QED BY <1>1, <1>3, <1>4, <1>5, <1>6, <1>7 DEF CallbackInv

\* What a delivery holds at each of its steps.
LEMMA ShapeAt ==
    ASSUME CallbackInv, NEW d \in Deliveries
    PROVE  LET h == deliveries[d]
           IN  /\ h.pc \in {"task", "validate"} => h.env \in Envelopes /\ cbSigned[h.env] # Never
               /\ h.pc = "validate" =>
                     h \in [pc : {"validate"}, env : Envelopes, live : BOOLEAN,
                            runtime : CbRuntimes \cup {Never}]
               /\ h.pc = "reserve" => h.checked \in Int
<1> PICK h : h = deliveries[d]
  OBVIOUS
<1>1. h \in Shapes
  BY DEF CallbackInv, CallbackTypeOK
<1>2. h.pc = "validate" =>
          h \in [pc : {"validate"}, env : Envelopes, live : BOOLEAN,
                 runtime : CbRuntimes \cup {Never}]
  BY <1>1 DEF Shapes, NoDelivery
<1>3. h.pc = "reserve" =>
          h \in [pc : {"reserve"}, env : Envelopes, live : BOOLEAN, checked : Int]
  BY <1>1 DEF Shapes, NoDelivery
<1>4. h.pc = "task" => h \in [pc : {"task"}, env : Envelopes]
  BY <1>1 DEF Shapes, NoDelivery
<1>5. h.pc \in {"task", "validate"} => h.env \in Envelopes
  BY <1>2, <1>4
<1>6. h.pc \in {"task", "validate"} => cbSigned[h.env] # Never
  BY DEF CallbackInv, SignedInv
<1>7. h.pc = "reserve" => h.checked \in Int
  BY <1>3
<1> QED BY <1>2, <1>5, <1>6, <1>7

LEMMA ValidateStep ==
    ASSUME CallbackInv, NEW d \in Deliveries, ValidateCallback(d)
    PROVE  CallbackInv'
<1> DEFINE h == deliveries[d]
           g == [pc |-> "reserve", env |-> h.env, live |-> h.live, checked |-> cbNow]
<1>1. CASE FinishDelivery(d)
  BY <1>1, QuietStep DEF ValidateCallback, FinishDelivery, Shapes, NoDelivery
<1>2. CASE /\ FreshTimestamp(cbSigned[h.env].ts)
           /\ deliveries' = [deliveries EXCEPT ![d] = g]
  <2>1. /\ h \in [pc : {"validate"}, env : Envelopes, live : BOOLEAN,
                  runtime : CbRuntimes \cup {Never}]
        /\ cbSigned[h.env] # Never
        /\ cbNow \in Int
    <3>1. h.pc = "validate"
      BY DEF ValidateCallback
    <3>2. cbNow \in Int
      BY DEF CallbackInv, CallbackTypeOK
    <3> HIDE DEF h
    <3> QED BY <3>1, <3>2, ShapeAt DEF h
  <2>2. g \in Shapes
    BY <2>1 DEF Shapes
  <2>3. UNCHANGED <<cbNow, cbTask, cbSigned, nonceRows, cbApplied>>
    BY DEF ValidateCallback
  <2>4. CallbackTypeOK'
    BY <1>2, <2>2, <2>3 DEF CallbackInv, CallbackTypeOK
  <2>5. /\ deliveries'[d] = g
        /\ \A c \in Deliveries : c # d => deliveries'[c] = deliveries[c]
    BY <1>2 DEF CallbackInv, CallbackTypeOK
  <2>6. cbSigned[h.env].ts \in Int
    BY <2>1 DEF CallbackInv, CallbackTypeOK
  <2>7. SignedInv'
    BY <2>1, <2>3, <2>5 DEF CallbackInv, SignedInv
  <2>8. ReserveInv'
    BY <1>2, <2>1, <2>3, <2>5, <2>6, Numbers DEF CallbackInv, ReserveInv, FreshTimestamp
  <2>9. RowInv'
    BY <2>3 DEF CallbackInv, RowInv
  <2>10. ApplyInv'
    BY <2>3, <2>5 DEF CallbackInv, ApplyInv
  <2>11. ConsumedNonceRemembered'
    BY <2>3, <2>5 DEF CallbackInv, ConsumedNonceRemembered, Consumed
  <2> QED BY <2>4, <2>7, <2>8, <2>9, <2>10, <2>11 DEF CallbackInv
<1> QED BY <1>1, <1>2 DEF ValidateCallback

\* The heart of the argument: when no row stops a request, its envelope was not
\* consumed, because a consumed one without a row is too old to have been validated.
LEMMA ReserveStep ==
    ASSUME CallbackInv, NEW d \in Deliveries, ReserveNonce(d)
    PROVE  CallbackInv'
<1> DEFINE h == deliveries[d]
           g == [pc |-> "apply", env |-> h.env]
<1>1. /\ h \in [pc : {"reserve"}, env : Envelopes, live : BOOLEAN, checked : Int]
      /\ cbSigned[h.env] # Never
      /\ cbNow \in Int
  BY DEF CallbackInv, CallbackTypeOK, SignedInv, ReserveNonce, Shapes, NoDelivery
<1>2. cbSigned[h.env].ts \in Int
  BY <1>1 DEF CallbackInv, CallbackTypeOK
<1>3. UNCHANGED <<cbNow, cbTask, cbSigned, cbApplied>>
  BY DEF ReserveNonce
<1>4. CASE nonceRows[h.env] # Never
  <2>1. FinishDelivery(d) /\ UNCHANGED nonceRows
    BY <1>4 DEF ReserveNonce
  <2> QED BY <1>3, <2>1, QuietStep DEF FinishDelivery, Shapes, NoDelivery
<1>5. CASE nonceRows[h.env] = Never
  <2>1. ~Consumed(h.env)
    <3>1. cbNow <= h.checked + MaxStall /\ h.checked <= cbSigned[h.env].ts + Freshness
      BY <1>1 DEF CallbackInv, ReserveInv
    <3>2. ~(cbNow > cbSigned[h.env].ts + Freshness + MaxStall)
      BY <1>1, <1>2, <3>1, Numbers
    <3> QED BY <1>1, <1>5, <3>2 DEF CallbackInv, ConsumedNonceRemembered
  <2>2. nonceRows' = [nonceRows EXCEPT ![h.env] = cbNow]
    BY <1>5 DEF ReserveNonce
  <2>3. /\ nonceRows'[h.env] = cbNow
        /\ \A e \in Envelopes : e # h.env => nonceRows'[e] = nonceRows[e]
    BY <1>1, <2>2 DEF CallbackInv, CallbackTypeOK
  <2>4. PICK k \in {NoDelivery, g} : deliveries' = [deliveries EXCEPT ![d] = k]
    BY <1>5 DEF ReserveNonce, FinishDelivery
  <2>5. k \in Shapes
    BY <1>1, <2>4 DEF Shapes
  <2>6. CallbackTypeOK'
    BY <1>1, <1>3, <2>2, <2>4, <2>5 DEF CallbackInv, CallbackTypeOK
  <2>7. /\ deliveries'[d] = k
        /\ \A c \in Deliveries : c # d => deliveries'[c] = deliveries[c]
    BY <2>4 DEF CallbackInv, CallbackTypeOK
  <2>8. k.pc \in {"idle", "apply"} /\ (k.pc = "apply" => k.env = h.env)
    BY <2>4 DEF NoDelivery
  <2>9. SignedInv'
    <3>1. \A c \in Deliveries : deliveries'[c].pc # "idle" => cbSigned[deliveries'[c].env] # Never
      BY <1>1, <2>7, <2>8 DEF CallbackInv, SignedInv
    <3> QED BY <1>1, <1>3, <2>3, <3>1 DEF CallbackInv, SignedInv
  <2>10. ReserveInv'
    BY <1>3, <2>7, <2>8 DEF CallbackInv, ReserveInv
  <2>11. RowInv'
    <3>1. h.checked <= cbNow /\ cbSigned[h.env].ts <= h.checked + Freshness
      BY <1>1 DEF CallbackInv, ReserveInv
    <3>2. cbSigned[h.env].ts <= cbNow + Freshness
      BY <1>1, <1>2, <3>1, Numbers
    <3> QED BY <1>1, <1>3, <2>3, <3>2 DEF CallbackInv, RowInv
  <2>12. ApplyInv'
    <3>1. cbApplied[h.env] = 0
      BY <1>1, <2>1 DEF CallbackInv, CallbackTypeOK, Consumed
    <3>2. \A c \in Deliveries : ~(deliveries[c].pc = "apply" /\ deliveries[c].env = h.env)
      BY <2>1 DEF Consumed
    <3>3. ASSUME NEW c \in Deliveries, deliveries'[c].pc = "apply"
          PROVE  cbApplied[deliveries'[c].env] = 0
      BY <2>7, <2>8, <3>1, <3>3 DEF CallbackInv, ApplyInv
    <3>4. ASSUME NEW b \in Deliveries, NEW c \in Deliveries,
                 deliveries'[b].pc = "apply", deliveries'[c].pc = "apply",
                 deliveries'[b].env = deliveries'[c].env
          PROVE  b = c
      <4>1. CASE b = d
        BY <2>7, <2>8, <3>2, <3>4, <4>1
      <4>2. CASE c = d
        BY <2>7, <2>8, <3>2, <3>4, <4>2
      <4>3. CASE b # d /\ c # d
        BY <2>7, <3>4, <4>3 DEF CallbackInv, ApplyInv
      <4> QED BY <4>1, <4>2, <4>3
    <3> QED BY <1>3, <3>3, <3>4 DEF ApplyInv
  <2>13. ConsumedNonceRemembered'
    <3>1. nonceRows'[h.env] # Never
      BY <1>1, <2>3, CallbackAssumption
    <3>2. \A e \in Envelopes : e # h.env /\ Consumed(e)' => Consumed(e)
      BY <1>3, <2>7, <2>8 DEF Consumed
    <3> QED BY <1>3, <2>3, <3>1, <3>2 DEF CallbackInv, ConsumedNonceRemembered
  <2> QED BY <2>6, <2>9, <2>10, <2>11, <2>12, <2>13 DEF CallbackInv
<1> QED BY <1>4, <1>5

LEMMA ApplyStep ==
    ASSUME CallbackInv, NEW d \in Deliveries, ApplyCallback(d)
    PROVE  CallbackInv'
<1> DEFINE e == deliveries[d].env
<1>1. e \in Envelopes /\ cbSigned[e] # Never /\ cbApplied[e] = 0
  BY DEF CallbackInv, CallbackTypeOK, SignedInv, ApplyInv, ApplyCallback, Shapes, NoDelivery
<1>2. UNCHANGED <<cbNow, cbSigned, nonceRows>>
  BY DEF ApplyCallback
<1>3. CASE ~cbTask.live
  BY <1>2, <1>3, QuietStep DEF ApplyCallback, FinishDelivery, Shapes, NoDelivery
<1>4. CASE cbTask.live
  <2>1. /\ cbApplied' = [cbApplied EXCEPT ![e] = @ + 1]
        /\ cbTask' \in [live : BOOLEAN, runtime : CbRuntimes \cup {Never}]
    BY <1>4 DEF CallbackInv, CallbackTypeOK, ApplyCallback
  <2>2. /\ cbApplied'[e] = 1
        /\ \A x \in Envelopes : x # e => cbApplied'[x] = cbApplied[x]
        /\ cbApplied' \in [Envelopes -> {0, 1}]
    BY <1>1, <2>1 DEF CallbackInv, CallbackTypeOK
  <2>3. /\ deliveries' = [deliveries EXCEPT ![d] = NoDelivery]
        /\ deliveries'[d].pc = "idle"
        /\ \A c \in Deliveries : c # d => deliveries'[c] = deliveries[c]
    BY DEF CallbackInv, CallbackTypeOK, ApplyCallback, FinishDelivery, NoDelivery
  <2>4. CallbackTypeOK'
    BY <1>2, <2>1, <2>2, <2>3 DEF CallbackInv, CallbackTypeOK, Shapes
  <2>5. SignedInv'
    BY <1>1, <1>2, <2>2, <2>3 DEF CallbackInv, SignedInv
  <2>6. ReserveInv' /\ RowInv'
    BY <1>2, <2>3 DEF CallbackInv, ReserveInv, RowInv
  <2>7. ApplyInv'
    <3>1. \A c \in Deliveries : deliveries'[c].pc = "apply" =>
              /\ deliveries[c].pc = "apply" /\ deliveries'[c].env = deliveries[c].env
              /\ deliveries[c].env # e /\ deliveries[c].env \in Envelopes
      BY <2>3 DEF CallbackInv, CallbackTypeOK, ApplyInv, ApplyCallback, Shapes, NoDelivery
    <3> QED BY <2>2, <3>1 DEF CallbackInv, ApplyInv
  <2>8. ConsumedNonceRemembered'
    <3>1. Consumed(e)
      BY DEF ApplyCallback, Consumed
    <3>2. \A x \in Envelopes : Consumed(x)' => Consumed(x)
      BY <2>2, <2>3, <3>1 DEF Consumed
    <3> QED BY <1>2, <3>2 DEF CallbackInv, ConsumedNonceRemembered
  <2> QED BY <2>4, <2>5, <2>6, <2>7, <2>8 DEF CallbackInv
<1> QED BY <1>3, <1>4

LEMMA CleanupStep ==
    ASSUME CallbackInv, CleanupExpiredNonces
    PROVE  CallbackInv'
<1>1. UNCHANGED <<cbNow, cbTask, cbSigned, deliveries, cbApplied>>
  BY DEF CleanupExpiredNonces
<1>2. \A e \in Envelopes :
          \/ nonceRows'[e] = nonceRows[e]
          \/ /\ nonceRows'[e] = Never
             /\ nonceRows[e] # Never /\ nonceRows[e] + EffectiveRetention < cbNow
  BY DEF CleanupExpiredNonces
<1>3. CallbackTypeOK'
  BY <1>1 DEF CallbackInv, CallbackTypeOK, CleanupExpiredNonces
<1>4. SignedInv' /\ ReserveInv' /\ RowInv' /\ ApplyInv'
  BY <1>1, <1>2 DEF CallbackInv, SignedInv, ReserveInv, RowInv, ApplyInv
<1>5. ASSUME NEW e \in Envelopes, nonceRows[e] # Never,
             nonceRows[e] + EffectiveRetention < cbNow
      PROVE  cbNow > cbSigned[e].ts + Freshness + MaxStall
  <2>1. cbSigned[e].ts \in Int /\ nonceRows[e] \in Int /\ cbNow \in Int
    BY <1>5 DEF CallbackInv, CallbackTypeOK, SignedInv
  <2>2. cbSigned[e].ts <= nonceRows[e] + Freshness
    BY <1>5 DEF CallbackInv, RowInv
  <2> QED BY <1>5, <2>1, <2>2, Numbers, CallbackAssumption
<1>6. ConsumedNonceRemembered'
  BY <1>1, <1>2, <1>5 DEF CallbackInv, ConsumedNonceRemembered, Consumed
<1> QED BY <1>3, <1>4, <1>6 DEF CallbackInv

LEMMA TickStep ==
    ASSUME CallbackInv, CallbackTick
    PROVE  CallbackInv'
<1>1. /\ UNCHANGED <<cbTask, cbSigned, nonceRows, deliveries, cbApplied>>
      /\ cbNow \in Int /\ cbNow' = cbNow + 1
  BY DEF CallbackTick, CallbackInv, CallbackTypeOK
<1>2. CallbackTypeOK' /\ SignedInv' /\ ApplyInv'
  BY <1>1 DEF CallbackInv, CallbackTypeOK, SignedInv, ApplyInv
<1>3. ReserveInv'
  <2> SUFFICES ASSUME NEW d \in Deliveries, deliveries[d].pc = "reserve"
               PROVE  /\ deliveries[d].checked <= cbNow'
                      /\ cbNow' <= deliveries[d].checked + MaxStall
      BY <1>1 DEF CallbackInv, ReserveInv
  <2>1. deliveries[d].checked \in Int
    BY ShapeAt
  <2>2. deliveries[d].checked <= cbNow /\ cbNow < deliveries[d].checked + MaxStall
    BY DEF CallbackInv, ReserveInv, CallbackTick
  <2> QED BY <1>1, <2>1, <2>2, Numbers
<1>4. RowInv'
  <2> SUFFICES ASSUME NEW e \in Envelopes, nonceRows[e] # Never
               PROVE  nonceRows[e] <= cbNow'
      BY <1>1 DEF CallbackInv, RowInv
  <2> QED BY <1>1 DEF CallbackInv, CallbackTypeOK, RowInv
<1>5. ConsumedNonceRemembered'
  <2> SUFFICES ASSUME NEW e \in Envelopes, Consumed(e), nonceRows[e] = Never
               PROVE  cbNow' > cbSigned[e].ts + Freshness + MaxStall
      BY <1>1 DEF ConsumedNonceRemembered, Consumed
  <2>1. cbSigned[e] # Never
    BY DEF CallbackInv, SignedInv, Consumed
  <2>2. cbSigned[e].ts \in Int
    BY <2>1 DEF CallbackInv, CallbackTypeOK
  <2>3. cbNow > cbSigned[e].ts + Freshness + MaxStall
    BY DEF CallbackInv, ConsumedNonceRemembered
  <2> QED BY <1>1, <2>2, <2>3, Numbers
<1> QED BY <1>2, <1>3, <1>4, <1>5 DEF CallbackInv

LEMMA CallbackInvStep == CallbackInv /\ [CallbackNext]_cbVars => CallbackInv'
<1> SUFFICES ASSUME CallbackInv, [CallbackNext]_cbVars PROVE CallbackInv'
    OBVIOUS
<1>1. ASSUME NEW d \in Deliveries, DeliverCallback(d) PROVE CallbackInv'
  <2>1. PICK e \in Envelopes : /\ cbSigned[e] # Never
                               /\ deliveries' = [deliveries EXCEPT ![d] = [pc |-> "task", env |-> e]]
    BY <1>1 DEF DeliverCallback
  <2>2. [pc |-> "task", env |-> e] \in Shapes
    BY DEF Shapes
  <2> QED BY <1>1, <2>1, <2>2, QuietStep DEF DeliverCallback
<1>2. ASSUME NEW d \in Deliveries, ReadCallbackTask(d) PROVE CallbackInv'
  <2> DEFINE h == [pc |-> "validate", env |-> deliveries[d].env,
                   live |-> cbTask.live, runtime |-> cbTask.runtime]
  <2>1. deliveries[d].env \in Envelopes /\ cbSigned[deliveries[d].env] # Never
    <3>1. deliveries[d].pc = "task"
      BY <1>2 DEF ReadCallbackTask
    <3> QED BY <3>1, ShapeAt
  <2>2. h \in [pc : {"validate"}, env : Envelopes, live : BOOLEAN, runtime : CbRuntimes \cup {Never}]
    BY <2>1 DEF CallbackInv, CallbackTypeOK
  <2>3. h \in Shapes
    BY <2>2 DEF Shapes
  <2>4. /\ deliveries' = [deliveries EXCEPT ![d] = h]
        /\ UNCHANGED <<cbNow, cbTask, cbSigned, nonceRows, cbApplied>>
    BY <1>2 DEF ReadCallbackTask
  <2> QED BY <2>1, <2>3, <2>4, QuietStep
<1>3. ASSUME NEW d \in Deliveries, AbandonDelivery(d) PROVE CallbackInv'
  BY <1>3, QuietStep DEF AbandonDelivery, FinishDelivery, Shapes, NoDelivery
<1>4. ASSUME ReassignTask \/ UNCHANGED cbVars PROVE CallbackInv'
  <2>1. UNCHANGED <<cbNow, cbSigned, nonceRows, deliveries, cbApplied>>
    BY <1>4 DEF ReassignTask, cbVars
  <2>2. cbTask' \in [live : BOOLEAN, runtime : CbRuntimes \cup {Never}]
    BY <1>4 DEF ReassignTask, cbVars, CallbackInv, CallbackTypeOK
  <2>3. CallbackTypeOK'
    BY <2>1, <2>2 DEF CallbackInv, CallbackTypeOK
  <2> QED BY <2>1, <2>3 DEF CallbackInv, SignedInv, ReserveInv, RowInv, ApplyInv,
                            ConsumedNonceRemembered, Consumed
<1> QED BY <1>1, <1>2, <1>3, <1>4, SignStep, ValidateStep, ReserveStep, ApplyStep, CleanupStep,
           TickStep DEF CallbackNext

(* A signed callback changes its task at most once, however often and late  *)
(* it is delivered (reserveRuntimeCallbackNonce).                           *)
THEOREM CallbackSafety == CallbackSpec => []CallbackAppliedOnce
<1>1. CallbackInv => CallbackAppliedOnce
  BY DEF CallbackInv, CallbackTypeOK, CallbackAppliedOnce
<1> QED BY <1>1, CallbackInvInit, CallbackInvStep, PTL DEF CallbackSpec

(* The nonce of a consumed callback is kept for as long as a late delivery  *)
(* could be accepted (CleanupExpiredRuntimeCallbackNonces).                 *)
THEOREM NonceOutlivesCallback == CallbackSpec => []ConsumedNonceRemembered
<1>1. CallbackInv => ConsumedNonceRemembered
  BY DEF CallbackInv
<1> QED BY <1>1, CallbackInvInit, CallbackInvStep, PTL DEF CallbackSpec
=============================================================================
