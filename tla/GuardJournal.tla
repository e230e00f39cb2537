----------------------------- MODULE GuardJournal -----------------------------
(***************************************************************************)
(* The Python SDK's guarded calls and the journal file they share          *)
(* (sdk/python/src/igris/guard.py, journal.py, verification.py).  A call   *)
(* appends its signed decision, runs the function, appends the outcome.    *)
(* An append holds the process lock and the file lock from reading the     *)
(* tail to the fsync, so it is one step; an I/O error or a crash inside it *)
(* leaves no bytes, part of the line, the line without its newline, or the *)
(* whole line.  The hash of an event is the call and the type it records.  *)
(***************************************************************************)
EXTENDS Naturals, Sequences, FiniteSets

CONSTANT GuardedCalls         \* calls of guarded functions, by threads and processes

VARIABLES
    lines,                    \* the file: each line is a sequence of pieces
    newline,                  \* the file is empty or its last byte is a newline
    calls,                    \* how far each call has come
    executions                \* how often the function of a call has run

journalVars == <<lines, newline, calls, executions>>

GENESIS_PREVIOUS_HASH == <<>>

Torn == [type |-> "torn"]     \* the beginning of a line, which is not JSON

EventHash(event) == <<event.call, event.type>>

JournalInit ==
    /\ lines = <<>>
    /\ newline = TRUE
    /\ calls = [c \in GuardedCalls |-> "idle"]
    /\ executions = [c \in GuardedCalls |-> 0]

EndCall(c) == calls' = [calls EXCEPT ![c] = "ended"]

\* json.loads of a line: two events on one line are not JSON.
Parses(line) == Len(line) = 1 /\ line[1] # Torn

TailIntact == lines # <<>> => Parses(lines[Len(lines)])

ReadLastEventHash ==
    IF lines = <<>> THEN GENESIS_PREVIOUS_HASH ELSE EventHash(lines[Len(lines)][1])

\* The file with a piece written at its end.
Extended(piece) ==
    IF newline
    THEN Append(lines, <<piece>>)
    ELSE [lines EXCEPT ![Len(lines)] = Append(@, piece)]

DecisionEvent(c, verdict) ==
    [type |-> "decision", call |-> c, decision |-> verdict, prev |-> ReadLastEventHash]

OutcomeEvent(c) ==
    [type |-> "outcome", call |-> c, decision_event |-> <<c, "decision">>,
     prev |-> ReadLastEventHash]

\* append_event returns: the line and its newline are on disk.
AppendEvent(event) ==
    /\ TailIntact
    /\ lines' = Extended(event)
    /\ newline' = TRUE

\* append_event raises, or the process dies inside it.
AppendFails(event) ==
    \/ UNCHANGED <<lines, newline>>
    \/ /\ TailIntact
       /\ \E piece \in {event, Torn} : lines' = Extended(piece)
       /\ newline' = FALSE
    \/ AppendEvent(event)

-----------------------------------------------------------------------------
(* The wrapper of guard()                                                  *)

\* The approval is given or refused and the decision is appended; arguments,
\* contract sync, redaction and identity come before, touch nothing shared, and
\* a failure in them ends the call with nothing recorded.
AppendDecision(c, verdict) ==
    /\ calls[c] = "idle"
    /\ AppendEvent(DecisionEvent(c, verdict))
    /\ calls' = [calls EXCEPT ![c] = IF verdict = "allowed" THEN "recorded" ELSE "ended"]
    /\ UNCHANGED executions

\* Mistake: the function runs although its decision could not be appended.
DecisionErrorIgnored(c, verdict) ==
    /\ calls[c] = "idle"
    /\ AppendFails(DecisionEvent(c, verdict))
    /\ calls' = [calls EXCEPT ![c] = IF verdict = "allowed" THEN "recorded" ELSE "ended"]
    /\ UNCHANGED executions

\* JournalError before the function has run, or a crash while appending.
DecisionNotRecorded(c, verdict) ==
    /\ calls[c] = "idle"
    /\ AppendFails(DecisionEvent(c, verdict))
    /\ EndCall(c)
    /\ UNCHANGED executions

\* The function returns or raises an Exception; its outcome comes next.
Execute(c) ==
    /\ calls[c] = "recorded"
    /\ executions' = [executions EXCEPT ![c] = @ + 1]
    /\ calls' = [calls EXCEPT ![c] = "executed"]
    /\ UNCHANGED <<lines, newline>>

\* KeyboardInterrupt or a crash, before or after the function's effect: no
\* outcome is written.
Interrupted(c) ==
    /\ calls[c] = "recorded"
    /\ \E ran \in {0, 1} : executions' = [executions EXCEPT ![c] = @ + ran]
    /\ EndCall(c)
    /\ UNCHANGED <<lines, newline>>

AppendOutcome(c) ==
    /\ calls[c] = "executed"
    /\ AppendEvent(OutcomeEvent(c))
    /\ EndCall(c)
    /\ UNCHANGED executions

\* Mistake: an outcome whose append failed is appended again.
OutcomeRetried(c) ==
    /\ calls[c] = "executed"
    /\ AppendFails(OutcomeEvent(c))
    /\ UNCHANGED <<calls, executions>>

\* ExecutionCompletedEvidenceError, or a crash while appending.
OutcomeNotRecorded(c) ==
    /\ calls[c] = "executed"
    /\ AppendFails(OutcomeEvent(c))
    /\ EndCall(c)
    /\ UNCHANGED executions

GuardNext ==
    \E c \in GuardedCalls :
        \/ \E verdict \in {"allowed", "denied"} :
               AppendDecision(c, verdict) \/ DecisionNotRecorded(c, verdict)
        \/ Execute(c)
        \/ Interrupted(c)
        \/ AppendOutcome(c)
        \/ OutcomeNotRecorded(c)

-----------------------------------------------------------------------------
(* verification.py                                                         *)

\* load_journal_snapshot: every line is an event that links to the one before.
JournalVerifies ==
    \A i \in 1..Len(lines) :
        /\ Parses(lines[i])
        /\ lines[i][1].prev =
               IF i = 1 THEN GENESIS_PREVIOUS_HASH ELSE EventHash(lines[i - 1][1])

Snapshot == [i \in 1..Len(lines) |-> lines[i][1]]

-----------------------------------------------------------------------------

\* A line whose text is the allowed decision of the call.
ReadableDecision(c) ==
    \E i \in 1..Len(lines) :
        /\ Parses(lines[i])
        /\ lines[i][1].type = "decision"
        /\ lines[i][1].call = c
        /\ lines[i][1].decision = "allowed"

\* A guarded function runs at most once, and after its allowed decision is in
\* the journal.  The one decision that can be unreadable is the first one
\* appended behind a line that a failed append left without its newline; from
\* then on the corrupt tail stops every call before its function runs
\* (append_event, _read_last_event_hash, guard).
UnreadableDecisionStopsGuard ==
    /\ \A c \in GuardedCalls : executions[c] <= 1
    /\ Cardinality({c \in GuardedCalls : executions[c] > 0 /\ ~ ReadableDecision(c)}) <= 1
=============================================================================
