----------------------------- MODULE MCControlPlane -----------------------------
(***************************************************************************)
(* The components beside the coordinator, instantiated for TLC and checked *)
(* together.  No two of them share a variable, so a property of one is     *)
(* decided by its own steps: a behaviour chooses at the start the          *)
(* component it follows (focus), the others stay as they began, and the    *)
(* state spaces add up instead of multiplying.  The registry is followed   *)
(* twice: registrations of a machine, and the commands of a registered one.*)
(* The journal is followed three times: guarded calls alone, concurrent    *)
(* uploads, and one uploader whose requests and answers get lost.          *)
(***************************************************************************)
EXTENDS Evidence, EvidenceLinks, Reconciliation, CallbackDelivery, ProofState,
        ContractSync, BoundRuns, RuntimeRegistry, RuntimeSelector, JournalSync

CONSTANTS run1, run2, run3, batch1, batch2, machineKey1, call3, uploader2

VARIABLE focus

-----------------------------------------------------------------------------
(* Evidence: a journal of an allowed decision and its outcome, a segment   *)
(* whose signature does not verify, and an outcome of a denied decision    *)

Decision(h, prev, id, verdict, ok) ==
    [hash |-> h, prev |-> prev, type |-> "decision", id |-> id, decision |-> verdict,
     ref |-> "none", subject |-> "s1", intact |-> ok]

Outcome(h, prev, ref) ==
    [hash |-> h, prev |-> prev, type |-> "outcome", id |-> h, decision |-> "none",
     ref |-> ref, subject |-> "s1", intact |-> TRUE]

MCJournal == <<Decision("a", Genesis, "d1", "allowed", TRUE), Outcome("b", "a", "d1")>>

MCSegments ==
    ({SubSeq(MCJournal, i, j) : i, j \in 1..2} \ {<<>>})
    \cup {<<Decision("a", Genesis, "d1", "allowed", FALSE)>>,
          <<Decision("x", Genesis, "d3", "denied", TRUE), Outcome("z", "x", "d3")>>}

\* Two runs of the same action and input, which one batch could both prove, and
\* a batch with decisions of two actions.
MCRunIdentity == [r \in LinkRuns |-> IF r = run3 THEN "refund" ELSE "charge"]
MCDecisions == [b \in Batches |-> IF b = batch1 THEN {"charge"} ELSE {"charge", "refund"}]

\* A contract, and a weaker one for the same action.
MCDeclared ==
    [strict |-> [risk |-> "high", approval |-> "required", mode |-> "embedded"],
     loose |-> [risk |-> "low", approval |-> "never", mode |-> "embedded"]]

\* Edits that change both the target and the policy preset.
Edit(url, preset) ==
    [url |-> url, preset |-> preset, replay |-> Unset, approval |-> Unset]
MCEdits == {Edit("old", "Human-gated"), Edit("new", "Safe automation")}
MCApproval == [v \in Versions |-> "never"]

MCPreference == <<"edge", "cloud">>

-----------------------------------------------------------------------------

Components == {"evidence", "links", "reconciliation", "callbacks", "proof",
               "contracts", "bound", "registration", "commands", "selector",
               "guard", "uploads", "losses"}

\* One of its initial states is enough of a component that is not followed.
OneInitialState ==
    /\ focus # "callbacks" => cbTask.runtime = Never
    /\ focus # "proof" => proofTrigger
    /\ focus # "contracts" => logicalAction
    /\ focus # "registration" => instance.key = machineKey1

MCInit ==
    /\ focus \in Components
    /\ EvidenceInit /\ LinkInit /\ ReconInit /\ CallbackInit /\ ProofInit
    /\ SyncInit /\ BoundInit /\ RegistryInit /\ SelectorInit /\ UploadInit
    /\ OneInitialState

\* The variables of every component but c.
Rest(c) ==
    /\ c # "evidence" => UNCHANGED evidenceVars
    /\ c # "links" => UNCHANGED linkVars
    /\ c # "reconciliation" => UNCHANGED reconVars
    /\ c # "callbacks" => UNCHANGED cbVars
    /\ c # "proof" => UNCHANGED proofVars
    /\ c # "contracts" => UNCHANGED syncVars
    /\ c # "bound" => UNCHANGED boundVars
    /\ c \notin {"registration", "commands"} => UNCHANGED registryVars
    /\ c # "selector" => UNCHANGED selectorVars
    /\ c \notin {"guard", "uploads", "losses"} => UNCHANGED uploadVars
    /\ UNCHANGED focus

MCNext ==
    \/ focus = "evidence" /\ EvidenceNext /\ Rest("evidence")
    \/ focus = "links" /\ LinkNext /\ Rest("links")
    \/ focus = "reconciliation" /\ ReconNext /\ Rest("reconciliation")
    \/ focus = "callbacks" /\ CallbackNext /\ Rest("callbacks")
    \/ focus = "proof" /\ ProofNext /\ Rest("proof")
    \/ focus = "contracts" /\ SyncNext /\ Rest("contracts")
    \/ focus = "bound" /\ BoundNext /\ Rest("bound")
    \/ focus = "registration" /\ RegistrationNext /\ Rest("registration")
    \/ focus = "commands" /\ CommandNext /\ Rest("commands")
    \/ focus = "selector" /\ SelectorNext /\ Rest("selector")
    \/ focus = "guard" /\ GuardNext /\ Rest("guard")
       /\ UNCHANGED <<streamVars, syncRuns, delayed, lost>>
    \/ focus = "uploads" /\ UploadNext /\ Rest("uploads")
       /\ lost' = lost /\ calls'[call3] = calls[call3]
    \/ focus = "losses" /\ UploadNext /\ Rest("losses")
       /\ syncRuns'[uploader2] = syncRuns[uploader2] /\ calls'[call3] = calls[call3]

mcVars == <<focus, evidenceVars, linkVars, reconVars, cbVars, proofVars, syncVars,
            boundVars, registryVars, selectorVars, uploadVars>>

\* The fairness of the selector, for the behaviours that follow it.
MCSpec ==
    /\ MCInit
    /\ [][MCNext]_mcVars
    /\ \A q \in Requests : WF_selectorVars(focus = "selector" /\ RequestStep(q))
    /\ WF_selectorVars(focus = "selector" /\ SelectorTick)
=============================================================================
