------------------------------- MODULE BoundRuns -------------------------------
(***************************************************************************)
(* Contract-bound runs: a mutable action definition (create, PATCH,        *)
(* archive), the immutable bindings of contract versions to a snapshot of  *)
(* it, and the runs submitted under an idempotency key, through a binding  *)
(* or not (api/routes_actions.go, api/routes_contracts.go,                 *)
(* TaskCoordinator.Submit and CheckpointStore.CreateTask).  The contract   *)
(* versions are stored already (module ContractSync).                      *)
(***************************************************************************)
EXTENDS Naturals, FiniteSets

CONSTANTS
    Versions,         \* stored contract versions, by hash
    ApprovalMode,     \* ApprovalMode[v]: "required" or "never"
    Edits,            \* bodies of POST and PATCH; a field that is not sent is Unset
    Unset,            \* an absent field, row or lookup result
    Editors,          \* concurrent PATCH requests
    Binders,          \* concurrent binding requests
    Runners,          \* concurrent run requests
    RunKeys,          \* idempotency keys
    Inputs            \* mapped inputs

VARIABLES
    definition,       \* the target's action_definitions row: Unset before, live, archived
    editors,          \* PATCH requests: the row they loaded
    bindings,         \* action_contract_execution_bindings, by contract version
    binders,          \* binding transactions: they hold a share lock on the row read
    boundRuns,        \* task_records joined with contract_bound_action_runs, by key
    runners,          \* run requests: the binding they loaded
    runAnswers        \* the runs clients were given: a history variable

boundVars == <<definition, editors, bindings, binders, boundRuns, runners, runAnswers>>

Idle == [pc |-> "idle"]

NoRun == [kind |-> "none"]

BoundInit ==
    /\ definition = Unset
    /\ editors = [e \in Editors |-> Idle]
    /\ bindings = [v \in Versions |-> Unset]
    /\ binders = [b \in Binders |-> Idle]
    /\ boundRuns = [k \in RunKeys |-> NoRun]
    /\ runners = [r \in Runners |-> Idle]
    /\ runAnswers = {}

Live == definition # Unset /\ definition.live

-----------------------------------------------------------------------------
(* Action definitions                                                      *)

Sent(value, current) == IF value = Unset THEN current ELSE value

\* applyPolicyPresetDefaults
PresetDefaults(def) ==
    CASE def.preset = "Human-gated"    -> [def EXCEPT !.replay = "non_retryable", !.approval = TRUE]
      [] def.preset = "Non-replayable" -> [def EXCEPT !.replay = "non_retryable"]
      [] def.preset = "Read-only"      -> [def EXCEPT !.replay = "read_only", !.approval = FALSE]
      [] OTHER                         -> [def EXCEPT !.replay = "retryable", !.approval = FALSE]

\* normalizeActionDefinitionRequest: the preset's defaults are applied again
\* on every request, under the fields that are sent.
Normalize(edit, current) ==
    LET base == [current EXCEPT !.url = Sent(edit.url, @), !.preset = Sent(edit.preset, @)]
        def  == PresetDefaults(base)
    IN  [def EXCEPT !.replay = Sent(edit.replay, @), !.approval = Sent(edit.approval, @)]

CreateDefinition(edit) ==
    /\ definition = Unset
    /\ edit.url # Unset
    /\ definition' = Normalize(edit,
           [url |-> Unset, preset |-> "Safe automation", replay |-> "retryable",
            approval |-> FALSE, live |-> TRUE])
    /\ UNCHANGED <<editors, bindings, binders, boundRuns, runners, runAnswers>>

\* handleActionPatch loads the row ...
LoadDefinition(e) ==
    /\ editors[e] = Idle
    /\ Live
    /\ editors' = [editors EXCEPT ![e] = [pc |-> "loaded", row |-> definition]]
    /\ UNCHANGED <<definition, bindings, binders, boundRuns, runners, runAnswers>>

\* A binding transaction holds FOR SHARE on the row.
Shared == \E b \in Binders : binders[b].pc = "read"

\* ... and writes all its columns back, unless it was archived meanwhile.
PatchDefinition(e, edit) ==
    /\ editors[e].pc = "loaded"
    /\ ~ Shared
    /\ definition' = IF Live THEN Normalize(edit, editors[e].row) ELSE definition
    /\ editors' = [editors EXCEPT ![e] = Idle]
    /\ UNCHANGED <<bindings, binders, boundRuns, runners, runAnswers>>

ArchiveDefinition ==
    /\ Live
    /\ ~ Shared
    /\ definition' = [definition EXCEPT !.live = FALSE]
    /\ UNCHANGED <<editors, bindings, binders, boundRuns, runners, runAnswers>>

-----------------------------------------------------------------------------
(* Bindings                                                                *)

\* handleContractBindingCreate up to the validation of the replay class: the
\* target is read and locked; a class weaker than a non_retryable target's is
\* refused.
BeginBinding(b, v, class) ==
    LET replay == Sent(class, definition.replay)
    IN  /\ binders[b] = Idle
        /\ Live
        /\ definition.replay = "non_retryable" => replay = "non_retryable"
        /\ binders' = [binders EXCEPT ![b] =
               [pc |-> "read", version |-> v, replay |-> replay, target |-> definition]]
        /\ UNCHANGED <<definition, editors, bindings, boundRuns, runners, runAnswers>>

\* insertContractExecutionBinding and Commit, or 409 binding_exists.
InsertBinding(b) ==
    /\ binders[b].pc = "read"
    /\ bindings' = [bindings EXCEPT ![binders[b].version] =
           IF @ # Unset THEN @
           ELSE [url |-> binders[b].target.url, targetReplay |-> binders[b].target.replay,
                 approval |-> binders[b].target.approval, replay |-> binders[b].replay]]
    /\ binders' = [binders EXCEPT ![b] = Idle]
    /\ UNCHANGED <<definition, editors, boundRuns, runners, runAnswers>>

AbortBinding(b) ==
    /\ binders[b].pc = "read"
    /\ binders' = [binders EXCEPT ![b] = Idle]
    /\ UNCHANGED <<definition, editors, bindings, boundRuns, runners, runAnswers>>

-----------------------------------------------------------------------------
(* Runs                                                                    *)

\* Mistake: the run takes the target as it is defined now.
BuildRunFromDefinition(v, binding, input) ==
    [kind |-> "bound", version |-> v, input |-> input, url |-> definition.url,
     replay |-> definition.replay, approval |-> definition.approval]

\* buildBoundActionRunRequest: target and policy come from the binding's
\* snapshot; the contract's approval mode and a non_retryable target prevail.
BuildBoundRun(v, binding, input) ==
    [kind |-> "bound", version |-> v, input |-> input, url |-> binding.url,
     replay |-> IF binding.targetReplay = "non_retryable" THEN "non_retryable" ELSE binding.replay,
     approval |-> binding.approval \/ ApprovalMode[v] = "required"]

\* handleActionRunByName with a contract_hash: the binding is loaded.
LoadBinding(r, v, input, k) ==
    /\ runners[r] = Idle
    /\ bindings[v] # Unset
    /\ runners' = [runners EXCEPT ![r] =
           [pc |-> "built", key |-> k, run |-> BuildBoundRun(v, bindings[v], input)]]
    /\ UNCHANGED <<definition, editors, bindings, binders, boundRuns, runAnswers>>

\* The same handler without a contract_hash: the run follows the live definition.
LoadTarget(r, input, k) ==
    /\ runners[r] = Idle
    /\ Live
    /\ runners' = [runners EXCEPT ![r] =
           [pc |-> "built", key |-> k,
            run |-> [kind |-> "plain", version |-> Unset, input |-> input, url |-> definition.url,
                     replay |-> definition.replay, approval |-> definition.approval]]]
    /\ UNCHANGED <<definition, editors, bindings, binders, boundRuns, runAnswers>>

\* What a request asks for: the fingerprint of binding, contract and input.
Fingerprint(run) == [kind |-> run.kind, version |-> run.version, input |-> run.input]

\* Mistake: a bound request is not compared with the run that holds its key.
AnyRunMatches(run, existing) == TRUE

\* The existing run of the key answers a bound request only when it is bound
\* and has the request's fingerprint.
FingerprintMatches(run, existing) ==
    run.kind = "bound" => Fingerprint(existing) = Fingerprint(run)

\* CreateTask ... ON CONFLICT (tenant_id, idempotency_key) DO NOTHING, and
\* Submit's answer: the new run, the existing one, or a 409.
CreateRun(r) ==
    LET k   == runners[r].key
        run == runners[r].run
        row == IF boundRuns[k] = NoRun THEN run ELSE boundRuns[k]
    IN  /\ runners[r].pc = "built"
        /\ boundRuns' = [boundRuns EXCEPT ![k] = row]
        /\ runAnswers' = runAnswers \cup
               {a \in {[asked |-> Fingerprint(run), key |-> k, given |-> row]} :
                    FingerprintMatches(run, row)}
        /\ runners' = [runners EXCEPT ![r] = Idle]
        /\ UNCHANGED <<definition, editors, bindings, binders>>

\* No healthy runtime, a transaction that fails, a client that goes away.
RefuseRun(r) ==
    /\ runners[r].pc = "built"
    /\ runners' = [runners EXCEPT ![r] = Idle]
    /\ UNCHANGED <<definition, editors, bindings, binders, boundRuns, runAnswers>>

ReplayClasses == {"retryable", "non_retryable", "read_only"}

BoundNext ==
    \/ \E edit \in Edits : CreateDefinition(edit)
    \/ \E e \in Editors : LoadDefinition(e) \/ \E edit \in Edits : PatchDefinition(e, edit)
    \/ ArchiveDefinition
    \/ \E b \in Binders :
          \/ \E v \in Versions, class \in ReplayClasses \cup {Unset} : BeginBinding(b, v, class)
          \/ InsertBinding(b)
          \/ AbortBinding(b)
    \/ \E r \in Runners :
          \/ \E v \in Versions, input \in Inputs, k \in RunKeys : LoadBinding(r, v, input, k)
          \/ \E input \in Inputs, k \in RunKeys : LoadTarget(r, input, k)
          \/ CreateRun(r)
          \/ RefuseRun(r)

BoundSpec == BoundInit /\ [][BoundNext]_boundVars

-----------------------------------------------------------------------------
(* Properties                                                              *)

(* Whatever is patched or archived after the binding, and however requests  *)
(* for the same binding race, a bound run uses the binding's target, needs  *)
(* an approval when its contract or its target did, and is not retryable    *)
(* when its target was not (migration 070; buildBoundActionRunRequest).     *)
BoundRunsFollowBinding ==
    \A k \in RunKeys :
        boundRuns[k].kind = "bound" =>
            LET run == boundRuns[k]
                binding == bindings[run.version]
            IN  /\ binding # Unset
                /\ run.url = binding.url
                /\ binding.approval \/ ApprovalMode[run.version] = "required" => run.approval
                /\ binding.targetReplay = "non_retryable" => run.replay = "non_retryable"

(* A bound request is never answered with a run of another contract, input  *)
(* or kind that holds its idempotency key, and every answer under one key   *)
(* is the one stored run (Submit and CreateTask).                           *)
BoundAnswerIsOwnRun ==
    \A a \in runAnswers :
        /\ a.given = boundRuns[a.key]
        /\ a.asked.kind = "bound" => Fingerprint(a.given) = a.asked
=============================================================================
