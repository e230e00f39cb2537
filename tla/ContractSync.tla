------------------------------ MODULE ContractSync ------------------------------
(***************************************************************************)
(* POST /v1/contracts/sync (api/routes_contracts.go, api/contract_store.go)*)
(* for one logical action of one tenant: a sync stores an immutable        *)
(* contract version, flags what it weakens with respect to the latest      *)
(* version, and, under an Idempotency-Key, stores its response for replay. *)
(* A sync is one READ COMMITTED transaction, split at its statements.  An  *)
(* insert that meets another transaction's uncommitted row of the same     *)
(* unique key waits for that transaction to end.                           *)
(***************************************************************************)
EXTENDS Naturals

CONSTANTS
    Syncs,            \* concurrent sync requests
    Contracts,        \* the contract bodies the SDK declares, identified by their hash
    Declared,         \* Declared[c]: the risk, approval_mode and execution_mode of c
    SyncKeys,         \* Idempotency-Key values
    NoSyncKey,        \* a request without the header
    MaxSyncs          \* bound: syncs begun

VARIABLES
    logicalAction,    \* action_definitions has a live row of the action's name
    contractVersions, \* action_contract_versions: contract, createdAt, sensitive
    syncRecords,      \* contract_sync_idempotency, committed: responses by key
    syncs,            \* the transactions in flight
    syncClock,        \* transactions begun; NOW() is the start of the transaction
    syncAnswers       \* the 2xx responses clients received: a history variable

syncVars == <<logicalAction, contractVersions, syncRecords, syncs, syncClock, syncAnswers>>

NoSync == [pc |-> "idle"]

RiskRank == [low |-> 1, medium |-> 2, high |-> 3, critical |-> 4]

SyncInit ==
    /\ logicalAction \in BOOLEAN
    /\ contractVersions = {}
    /\ syncRecords = {}
    /\ syncs = [s \in Syncs |-> NoSync]
    /\ syncClock = 0
    /\ syncAnswers = {}

-----------------------------------------------------------------------------
(* Helpers                                                                 *)

VersionOf(c) == {v \in contractVersions : v.contract = c}

RecordOf(k) == {r \in syncRecords : r.key = k}

\* ORDER BY created_at DESC LIMIT 1
LatestVersions == {v \in contractVersions : \A w \in contractVersions : w.createdAt <= v.createdAt}

\* What next weakens with respect to prior: a lower risk, an approval no
\* longer required, another execution mode.
SecurityDelta(prior, next) ==
    \/ RiskRank[next.risk] < RiskRank[prior.risk]
    \/ prior.approval = "required" /\ next.approval = "never"
    \/ prior.mode # next.mode

Advance(s, pc) == syncs' = [syncs EXCEPT ![s].pc = pc]

\* The transaction knows its answer: a version that is new, or one that is stored.
Resolve(s, created, sensitive) ==
    syncs' = [syncs EXCEPT ![s] = [@ EXCEPT !.pc = "commit", !.created = created,
                                            !.sensitive = sensitive]]

\* The transaction answers and ends.
EndSync(s, answer) ==
    /\ syncs' = [syncs EXCEPT ![s] = NoSync]
    /\ \/ syncAnswers' = syncAnswers \cup {answer}
       \/ UNCHANGED syncAnswers      \* the response is lost on the way

\* The response of a transaction, and the one an idempotency record keeps.
Response(y) == [contract |-> y.contract, created |-> y.created, sensitive |-> y.sensitive]

Others(s) == {syncs[t] : t \in Syncs \ {s}}

\* Another transaction holds an uncommitted row of this idempotency key.
KeyClaimed(s) == \E t \in Others(s) : t.pc \notin {"idle", "claim"} /\ t.key = syncs[s].key

-----------------------------------------------------------------------------
(* One sync                                                                *)

\* A valid request arrives and its transaction begins.
BeginContractSync(s, c, k) ==
    /\ syncs[s] = NoSync
    /\ syncClock < MaxSyncs
    /\ syncClock' = syncClock + 1
    /\ syncs' = [syncs EXCEPT ![s] =
           [pc |-> IF k = NoSyncKey THEN "ensure" ELSE "claim", contract |-> c, key |-> k,
            createdAt |-> syncClock + 1, ensured |-> FALSE, created |-> FALSE, sensitive |-> FALSE]]
    /\ UNCHANGED <<logicalAction, contractVersions, syncRecords, syncAnswers>>

\* The key is free, or replays its response, or is a 409 when it was taken for
\* another contract.
LookUpKey(s) ==
    LET y == syncs[s]
    IN  \/ /\ RecordOf(y.key) = {}
           /\ Advance(s, "ensure")
           /\ UNCHANGED syncAnswers
        \/ \E r \in RecordOf(y.key) :
              /\ r.contract = y.contract
              /\ EndSync(s, [key |-> y.key, asked |-> y.contract, response |-> Response(r)])
        \/ /\ \E r \in RecordOf(y.key) : r.contract # y.contract
           /\ syncs' = [syncs EXCEPT ![s] = NoSync]
           /\ UNCHANGED syncAnswers

\* Mistake: the key is looked up without waiting for a concurrent claim.
ClaimKeyUnserialized(s) ==
    /\ syncs[s].pc = "claim"
    /\ LookUpKey(s)
    /\ UNCHANGED <<logicalAction, contractVersions, syncRecords, syncClock>>

\* claimContractSyncIdempotencyRecord: the insert waits for a concurrent claim.
ClaimKey(s) ==
    /\ syncs[s].pc = "claim"
    /\ ~ KeyClaimed(s)
    /\ LookUpKey(s)
    /\ UNCHANGED <<logicalAction, contractVersions, syncRecords, syncClock>>

\* ensureContractLogicalAction: insert the action unless a live one exists.
EnsureAction(s) ==
    /\ syncs[s].pc = "ensure"
    /\ ~ \E t \in Others(s) : t.pc # "idle" /\ t.ensured
    /\ syncs' = [syncs EXCEPT ![s] = [@ EXCEPT !.pc = "read", !.ensured = ~ logicalAction]]
    /\ UNCHANGED <<logicalAction, contractVersions, syncRecords, syncClock, syncAnswers>>

\* getContractVersion
ReadVersion(s) ==
    /\ syncs[s].pc = "read"
    /\ \/ /\ VersionOf(syncs[s].contract) = {}
          /\ Advance(s, "latest")
       \/ \E v \in VersionOf(syncs[s].contract) :
              Resolve(s, FALSE, v.sensitive)
    /\ UNCHANGED <<logicalAction, contractVersions, syncRecords, syncClock, syncAnswers>>

\* latestContractVersion and contractSecurityDelta
ReadLatest(s) ==
    /\ syncs[s].pc = "latest"
    /\ syncs' = [syncs EXCEPT ![s] = [@ EXCEPT !.pc = "insert",
           !.sensitive = \E v \in LatestVersions :
               SecurityDelta(Declared[v.contract], Declared[syncs[s].contract])]]
    /\ UNCHANGED <<logicalAction, contractVersions, syncRecords, syncClock, syncAnswers>>

\* Mistake: the loser of the race reports the delta it computed itself.
InsertVersionNoReread(s) ==
    /\ syncs[s].pc = "insert"
    /\ ~ \E t \in Others(s) : t.pc = "commit" /\ t.created /\ t.contract = syncs[s].contract
    /\ Resolve(s, VersionOf(syncs[s].contract) = {}, syncs[s].sensitive)
    /\ UNCHANGED <<logicalAction, contractVersions, syncRecords, syncClock, syncAnswers>>

\* insertContractVersion ... ON CONFLICT DO NOTHING; the loser of a race reads
\* the row that survived.
InsertVersion(s) ==
    /\ syncs[s].pc = "insert"
    /\ ~ \E t \in Others(s) : t.pc = "commit" /\ t.created /\ t.contract = syncs[s].contract
    /\ \/ /\ VersionOf(syncs[s].contract) = {}
          /\ Resolve(s, TRUE, syncs[s].sensitive)
       \/ \E v \in VersionOf(syncs[s].contract) :
              Resolve(s, FALSE, v.sensitive)
    /\ UNCHANGED <<logicalAction, contractVersions, syncRecords, syncClock, syncAnswers>>

\* completeContractSyncIdempotencyRecord and Commit
CommitSync(s) ==
    LET y == syncs[s]
    IN  /\ y.pc = "commit"
        /\ logicalAction' = (logicalAction \/ y.ensured)
        /\ contractVersions' = contractVersions \cup
               {v \in {[contract |-> y.contract, createdAt |-> y.createdAt,
                        sensitive |-> y.sensitive]} : y.created}
        /\ syncRecords' = syncRecords \cup
               {r \in {[key |-> y.key, contract |-> y.contract, created |-> y.created,
                        sensitive |-> y.sensitive]} : y.key # NoSyncKey}
        /\ EndSync(s, [key |-> y.key, asked |-> y.contract, response |-> Response(y)])
        /\ UNCHANGED syncClock

\* A statement fails, or the request is cancelled: the transaction rolls back.
RollbackSync(s) ==
    /\ syncs[s].pc # "idle"
    /\ syncs' = [syncs EXCEPT ![s] = NoSync]
    /\ UNCHANGED <<logicalAction, contractVersions, syncRecords, syncClock, syncAnswers>>

\* DELETE /v1/actions/:id archives the action; the next sync creates another.
ArchiveLogicalAction ==
    /\ logicalAction
    /\ logicalAction' = FALSE
    /\ UNCHANGED <<contractVersions, syncRecords, syncs, syncClock, syncAnswers>>

SyncNext ==
    \/ \E s \in Syncs :
          \/ \E c \in Contracts, k \in SyncKeys \cup {NoSyncKey} : BeginContractSync(s, c, k)
          \/ ClaimKey(s)
          \/ EnsureAction(s)
          \/ ReadVersion(s)
          \/ ReadLatest(s)
          \/ InsertVersion(s)
          \/ CommitSync(s)
          \/ RollbackSync(s)
    \/ ArchiveLogicalAction

SyncSpec == SyncInit /\ [][SyncNext]_syncVars

-----------------------------------------------------------------------------
(* Properties                                                              *)

(* However retries and concurrent requests interleave, every response under *)
(* one Idempotency-Key is the same response, for the contract that was      *)
(* asked (claimContractSyncIdempotencyRecord waits for a concurrent claim). *)
KeyAnswersOneResponse ==
    \A a \in syncAnswers :
        /\ a.response.contract = a.asked
        /\ \A b \in syncAnswers : a.key = b.key /\ a.key # NoSyncKey => a.response = b.response

(* A contract has one stored version, and what any response says of its     *)
(* security delta is what that version says, the response of a sync that    *)
(* lost the insertion race included (performContractSyncInTx).              *)
AnswersMatchStoredVersion ==
    \A a \in syncAnswers :
        \E v \in contractVersions :
            /\ VersionOf(a.asked) = {v}
            /\ v.sensitive = a.response.sensitive
=============================================================================
