----------------------------- MODULE EvidenceLinks -----------------------------
(***************************************************************************)
(* POST /v1/actions/runs/:id/evidence-links: a verified evidence batch is  *)
(* attached to the contract-bound run it is about                          *)
(* (api/routes_actions.go, api/igris_run_proof.go, migration 071).  The    *)
(* eligibility query and the inserting transaction are separate steps.     *)
(***************************************************************************)
EXTENDS Sequences, Naturals

CONSTANTS
    Linkers,          \* concurrent link requests
    LinkRuns,         \* contract-bound runs
    Batches,          \* evidence batches, each with its own chain digest
    RunIdentity,      \* RunIdentity[r]: contract, action and tool input of the run
    Decisions         \* Decisions[b]: the identities of the decisions batch b records

VARIABLES
    batchStates,      \* evidence_state of a batch; "absent" before it is submitted
    links,            \* contract_bound_action_evidence_links, by created_at
    linkers           \* the requests in flight

linkVars == <<batchStates, links, linkers>>

NoLink == [pc |-> "idle"]

LinkRows == {links[i] : i \in 1..Len(links)}

LinkInit ==
    /\ batchStates = [b \in Batches |-> "absent"]
    /\ links = <<>>
    /\ linkers = [l \in Linkers |-> NoLink]

\* persistEvidenceBatch stores a verified or a rejected batch (module Evidence).
StoreBatch(b, state) ==
    /\ batchStates[b] = "absent"
    /\ batchStates' = [batchStates EXCEPT ![b] = state]
    /\ UNCHANGED <<links, linkers>>

\* The batch or its chain is linked to another run.
LinkedElsewhere(b, run) == \E link \in LinkRows : link.batch = b /\ link.run # run

\* evaluateEvidenceLinkEligibility; a batch that is not eligible is a 409.
EvaluateEligibility(l, run, b) ==
    /\ linkers[l] = NoLink
    /\ batchStates[b] = "verified"
    /\ RunIdentity[run] \in Decisions[b]
    /\ ~ LinkedElsewhere(b, run)
    /\ linkers' = [linkers EXCEPT ![l] = [pc |-> "eligible", run |-> run, batch |-> b]]
    /\ UNCHANGED <<batchStates, links>>

\* Mistake: the eligibility query is trusted; only (run, digest) is unique.
InsertLinkPerRun(l) ==
    /\ linkers[l].pc = "eligible"
    /\ LET link == [run |-> linkers[l].run, batch |-> linkers[l].batch]
       IN  links' = IF link \in LinkRows THEN links ELSE Append(links, link)
    /\ linkers' = [linkers EXCEPT ![l] = NoLink]
    /\ UNCHANGED batchStates

\* insertEvidenceLinkExclusive: the transaction's check and the unique indexes
\* refuse a batch of another run; a link that exists is replayed.
InsertLink(l) ==
    /\ linkers[l].pc = "eligible"
    /\ LET link == [run |-> linkers[l].run, batch |-> linkers[l].batch]
       IN  links' = IF LinkedElsewhere(link.batch, link.run) \/ link \in LinkRows
                    THEN links ELSE Append(links, link)
    /\ linkers' = [linkers EXCEPT ![l] = NoLink]
    /\ UNCHANGED batchStates

AbortLink(l) ==
    /\ linkers[l].pc = "eligible"
    /\ linkers' = [linkers EXCEPT ![l] = NoLink]
    /\ UNCHANGED <<batchStates, links>>

LinkNext ==
    \/ \E b \in Batches, state \in {"verified", "rejected"} : StoreBatch(b, state)
    \/ \E l \in Linkers :
          \/ \E run \in LinkRuns, b \in Batches : EvaluateEligibility(l, run, b)
          \/ InsertLink(l)
          \/ AbortLink(l)

LinkSpec == LinkInit /\ [][LinkNext]_linkVars

-----------------------------------------------------------------------------

(* One evidence batch proves at most one run, even when two requests found  *)
(* it eligible at the same time (migration 071).                            *)
EvidenceProvesOneRun ==
    \A a, b \in LinkRows : a.batch = b.batch => a.run = b.run
=============================================================================
