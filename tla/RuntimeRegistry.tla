----------------------------- MODULE RuntimeRegistry -----------------------------
(***************************************************************************)
(* One machine's row of runtime_instances: registration and its key        *)
(* (RuntimeHandler.Register, Heartbeat, Deregister), and the queue of      *)
(* pending commands that fleet operators fill and clear and the runtime    *)
(* fetches and acknowledges (GetPendingCommands, AckPendingCommands,       *)
(* api/routes_fleet.go, api/routes_fleet_push.go).  Acknowledgements and   *)
(* their responses are messages: they may be lost, late or duplicated.     *)
(***************************************************************************)
EXTENDS Naturals

CONSTANTS
    Registrars,       \* concurrent registration requests of the machine
    MachineKeys,      \* the public keys they present
    NoMachineKey,     \* public_key_ed25519 is NULL or empty
    Commands,         \* commands operators queue, each with its command_id
    MaxClears         \* bound: times an operator clears the queue

VARIABLES
    instance,         \* the row: exists, key, status
    registrars,       \* registrations in flight: what their first query read
    pendingCommands,  \* pending_commands, by delivery key
    clearGeneration,  \* pending_commands_clear_generation
    fetched,          \* the responses of GetPendingCommands the runtime may still act on
    ackRequests,      \* acknowledgements sent
    ackResponses,     \* answers that grant ownership, on their way
    owned,            \* commands the runtime may execute
    queuedEver,       \* commands ever queued: a history variable
    clearedEver       \* commands an operator removed: a history variable

registryVars == <<instance, registrars, pendingCommands, clearGeneration, fetched,
                  ackRequests, ackResponses, owned, queuedEver, clearedEver>>

queueVars == <<pendingCommands, clearGeneration, fetched, ackRequests, ackResponses,
               owned, queuedEver, clearedEver>>

NoRegistration == [pc |-> "idle"]

\* The machine is unknown or registered; a row of an older release may have no key.
RegistryInit ==
    /\ \/ instance = [exists |-> FALSE, key |-> NoMachineKey, status |-> "none"]
       \/ \E key \in MachineKeys \cup {NoMachineKey} :
              instance = [exists |-> TRUE, key |-> key, status |-> "active"]
    /\ registrars = [r \in Registrars |-> NoRegistration]
    /\ pendingCommands = {}
    /\ clearGeneration = 0
    /\ fetched = {}
    /\ ackRequests = {}
    /\ ackResponses = {}
    /\ owned = {}
    /\ queuedEver = {}
    /\ clearedEver = {}

-----------------------------------------------------------------------------
(* Registration                                                            *)

\* Register reads the row of (tenant, machine); another key is a 409.
BeginRegister(r, key) ==
    /\ registrars[r] = NoRegistration
    /\ instance.key \in {NoMachineKey, key}
    /\ registrars' = [registrars EXCEPT ![r] =
           [pc |-> IF instance.exists THEN "update" ELSE "insert", key |-> key]]
    /\ UNCHANGED <<instance, queueVars>>

EndRegister(r) == registrars' = [registrars EXCEPT ![r] = NoRegistration]

\* The insert of a new machine; the unique index refuses a second one.
InsertInstance(r) ==
    /\ registrars[r].pc = "insert"
    /\ instance' = IF instance.exists THEN instance
                   ELSE [exists |-> TRUE, key |-> registrars[r].key, status |-> "active"]
    /\ EndRegister(r)
    /\ UNCHANGED queueVars

\* Mistake: the key the request presented is stored, whatever the row holds now.
UpdateInstanceKey(r) ==
    /\ registrars[r].pc = "update"
    /\ instance' = [instance EXCEPT !.key = registrars[r].key, !.status = "active"]
    /\ EndRegister(r)
    /\ UNCHANGED queueVars

\* The update of a re-registration sets the key only where there is none.
UpdateInstance(r) ==
    /\ registrars[r].pc = "update"
    /\ instance' = [instance EXCEPT !.status = "active",
                        !.key = IF @ = NoMachineKey THEN registrars[r].key ELSE @]
    /\ EndRegister(r)
    /\ UNCHANGED queueVars

AbandonRegister(r) ==
    /\ registrars[r].pc # "idle"
    /\ EndRegister(r)
    /\ UNCHANGED <<instance, queueVars>>

\* A heartbeat makes the machine active, a deregistered one included.
Heartbeat ==
    /\ instance.key # NoMachineKey
    /\ instance' = [instance EXCEPT !.status = "active"]
    /\ UNCHANGED <<registrars, queueVars>>

Deregister ==
    /\ instance.key # NoMachineKey
    /\ instance' = [instance EXCEPT !.status = "deregistered"]
    /\ UNCHANGED <<registrars, queueVars>>

-----------------------------------------------------------------------------
(* The command queue                                                       *)

\* Lifecycle, publish, broadcast, config push and OTA update append a command.
QueueCommand(c) ==
    /\ instance.exists
    /\ c \notin queuedEver
    /\ pendingCommands' = pendingCommands \cup {c}
    /\ queuedEver' = queuedEver \cup {c}
    /\ UNCHANGED <<instance, registrars, clearGeneration, fetched, ackRequests, ackResponses,
                   owned, clearedEver>>

\* swarmClearAgent
ClearCommands ==
    /\ instance.exists
    /\ clearGeneration < MaxClears
    /\ pendingCommands' = {}
    /\ clearGeneration' = clearGeneration + 1
    /\ clearedEver' = clearedEver \cup pendingCommands
    /\ UNCHANGED <<instance, registrars, fetched, ackRequests, ackResponses, owned, queuedEver>>

\* GetPendingCommands
FetchCommands ==
    /\ instance.key # NoMachineKey
    /\ fetched' = fetched \cup {[commands |-> pendingCommands, generation |-> clearGeneration]}
    /\ UNCHANGED <<instance, registrars, pendingCommands, clearGeneration, ackRequests,
                   ackResponses, owned, queuedEver, clearedEver>>

\* The runtime acknowledges some of the commands of a response it received.
SendAck(response, keys) ==
    /\ keys # {}
    /\ ackRequests' = ackRequests \cup {[keys |-> keys, generation |-> response.generation]}
    /\ UNCHANGED <<instance, registrars, pendingCommands, clearGeneration, fetched,
                   ackResponses, owned, queuedEver, clearedEver>>

\* Mistake: the clear generation of the request is ignored.
AckAnyGeneration(request) ==
    /\ pendingCommands' = pendingCommands \ request.keys
    /\ ackResponses' = ackResponses \cup {request.keys}
    /\ UNCHANGED <<instance, registrars, clearGeneration, fetched, ackRequests, owned,
                   queuedEver, clearedEver>>

\* Mistake: an acknowledgement empties the queue.
AckEmptiesQueue(request) ==
    /\ request.generation = clearGeneration
    /\ pendingCommands' = {}
    /\ ackResponses' = ackResponses \cup {request.keys}
    /\ UNCHANGED <<instance, registrars, clearGeneration, fetched, ackRequests, owned,
                   queuedEver, clearedEver>>

\* AckPendingCommands: one transaction FOR UPDATE.  A request of another clear
\* generation changes nothing and is refused ownership.
AckPendingCommands(request) ==
    /\ request.generation = clearGeneration
    /\ pendingCommands' = pendingCommands \ request.keys
    /\ ackResponses' = ackResponses \cup {request.keys}
    /\ UNCHANGED <<instance, registrars, clearGeneration, fetched, ackRequests, owned,
                   queuedEver, clearedEver>>

\* The runtime takes over the commands it was granted.
ReceiveOwnership(keys) ==
    /\ owned' = owned \cup keys
    /\ UNCHANGED <<instance, registrars, pendingCommands, clearGeneration, fetched, ackRequests,
                   ackResponses, queuedEver, clearedEver>>

RegistrationNext ==
    \/ \E r \in Registrars :
          \/ \E key \in MachineKeys : BeginRegister(r, key)
          \/ InsertInstance(r)
          \/ UpdateInstance(r)
          \/ AbandonRegister(r)
    \/ Heartbeat
    \/ Deregister

CommandNext ==
    \/ \E c \in Commands : QueueCommand(c)
    \/ ClearCommands
    \/ FetchCommands
    \/ \E response \in fetched : \E keys \in SUBSET response.commands : SendAck(response, keys)
    \/ \E request \in ackRequests : AckPendingCommands(request)
    \/ \E keys \in ackResponses : ReceiveOwnership(keys)

RegistryNext == RegistrationNext \/ CommandNext

RegistrySpec == RegistryInit /\ [][RegistryNext]_registryVars

-----------------------------------------------------------------------------
(* Properties                                                              *)

(* Once a machine has a registered key no registration replaces it, also    *)
(* not one that read the row while it had none (the CASE of Register).      *)
RegisteredKeyIsFinal ==
    [][instance.key # NoMachineKey => instance'.key = instance.key]_registryVars

(* A command an operator cleared from the queue is never owned by the       *)
(* runtime, however old the acknowledgement that asks for it                *)
(* (expected_clear_generation in AckPendingCommands).                       *)
ClearedNeverOwned == owned \cap clearedEver = {}

(* Every queued command is still pending, was cleared by an operator, or    *)
(* was granted to the runtime: an acknowledgement removes no other command. *)
NoCommandLost ==
    queuedEver \subseteq pendingCommands \cup clearedEver \cup UNION ackResponses
=============================================================================
