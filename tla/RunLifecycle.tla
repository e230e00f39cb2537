----------------------------- MODULE RunLifecycle -----------------------------
(***************************************************************************)
(* What a client of Overture may rely on about one run: the phases it goes *)
(* through, and that work is only ever started once for a request.  The    *)
(* durable statuses, the goroutines and the runtimes are not visible here. *)
(***************************************************************************)
CONSTANTS Runs, Gated

VARIABLES
    phase,    \* where the run is
    started   \* runs whose work has been handed to a runtime for the first time

Phases == {"absent", "queued", "awaiting_approval", "active", "succeeded", "failed", "canceled"}

Init ==
    /\ phase = [r \in Runs |-> "absent"]
    /\ started = {}

Move(r, from, to) ==
    /\ phase[r] \in from
    /\ phase' = [phase EXCEPT ![r] = to]
    /\ UNCHANGED started

Submit(r) == Move(r, {"absent"}, "queued")

\* A gated run waits for its approval; only then may it become active.
Pause(r) == r \in Gated /\ Move(r, {"queued"}, "awaiting_approval")
Admit(r) == r \notin Gated /\ Move(r, {"queued"}, "active")
Approve(r) == Move(r, {"awaiting_approval"}, "active")
Reject(r) == Move(r, {"awaiting_approval"}, "failed")

\* The first hand-over to a runtime.  It may come after the run has already been
\* canceled or failed, but never twice and never for a run that was not admitted.
Start(r) ==
    /\ phase[r] \in {"active", "succeeded", "failed", "canceled"}
    /\ r \notin started
    /\ started' = started \cup {r}
    /\ UNCHANGED phase

\* A run succeeds only after it was started.
Succeed(r) == r \in started /\ Move(r, {"active"}, "succeeded")
Fail(r) == Move(r, {"active"}, "failed")
Cancel(r) == Move(r, {"queued", "active"}, "canceled")

Next ==
    \E r \in Runs :
        \/ Submit(r) \/ Pause(r) \/ Admit(r) \/ Approve(r) \/ Reject(r)
        \/ Start(r) \/ Succeed(r) \/ Fail(r) \/ Cancel(r)

Spec == Init /\ [][Next]_<<phase, started>>
=============================================================================
