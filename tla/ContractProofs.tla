----------------------------- MODULE ContractProofs -----------------------------
(***************************************************************************)
(* The properties of contract syncs and of bound runs for every set of     *)
(* requests, contracts, keys and inputs.  A sync that holds its key is the *)
(* only one, and its key has no record yet; a sync about to commit either  *)
(* inserts the only version of its contract or repeats the stored one.  A  *)
(* bound run agrees with its binding when it is built, and a binding never *)
(* changes afterwards.                                                     *)
(***************************************************************************)
EXTENDS ContractSync, BoundRuns, TLAPS

Sync == [pc : {"claim", "ensure", "read", "latest", "insert", "commit"}, contract : Contracts,
         key : SyncKeys \cup {NoSyncKey}, createdAt : Nat, ensured : BOOLEAN,
         created : BOOLEAN, sensitive : BOOLEAN]

SyncTypeOK ==
    /\ syncs \in [Syncs -> {NoSync} \cup Sync]
    /\ logicalAction \in BOOLEAN
    /\ syncClock \in Nat
    /\ \A v \in contractVersions : v.sensitive \in BOOLEAN

\* The transaction y passed its claim.
Claimed(y) == y.pc \notin {"idle", "claim"}

\* The transaction y inserted the version it will commit.
Inserts(y) == y.pc = "commit" /\ y.created

StoredVersion(contract, sensitive) ==
    \E v \in VersionOf(contract) : v.sensitive = sensitive

KeyInv ==
    /\ \A s \in Syncs : Claimed(syncs[s]) /\ syncs[s].key # NoSyncKey =>
          /\ RecordOf(syncs[s].key) = {}
          /\ \A t \in Syncs \ {s} : ~(Claimed(syncs[t]) /\ syncs[t].key = syncs[s].key)
    /\ \A q, r \in syncRecords : q.key = r.key => q = r

VersionInv ==
    /\ \A v, w \in contractVersions : v.contract = w.contract => v = w
    /\ \A s \in Syncs : Inserts(syncs[s]) =>
          /\ VersionOf(syncs[s].contract) = {}
          /\ \A t \in Syncs \ {s} : ~(Inserts(syncs[t]) /\ syncs[t].contract = syncs[s].contract)
    /\ \A s \in Syncs : syncs[s].pc = "commit" /\ ~syncs[s].created =>
          StoredVersion(syncs[s].contract, syncs[s].sensitive)
    /\ \A r \in syncRecords : StoredVersion(r.contract, r.sensitive)

GoodAnswer(a) ==
    /\ a.response.contract = a.asked
    /\ a.key # NoSyncKey => \E r \in RecordOf(a.key) : a.response = Response(r)
    /\ StoredVersion(a.asked, a.response.sensitive)

SyncInv ==
    /\ SyncTypeOK
    /\ KeyInv
    /\ VersionInv
    /\ \A a \in syncAnswers : GoodAnswer(a)

-----------------------------------------------------------------------------
(* Contract syncs                                                          *)

LEMMA SyncInvInit == SyncInit => SyncInv
<1> SUFFICES ASSUME SyncInit PROVE SyncInv
    OBVIOUS
<1>1. SyncTypeOK
  BY DEF SyncInit, SyncTypeOK
<1>2. \A s \in Syncs : syncs[s].pc = "idle"
  BY DEF SyncInit, NoSync
<1> QED BY <1>1, <1>2 DEF SyncInit, SyncInv, KeyInv, VersionInv, Claimed, Inserts

\* A step of one transaction that leaves the tables alone.
LEMMA MoveStep ==
    ASSUME SyncInv, NEW s \in Syncs, NEW y \in {NoSync} \cup Sync,
           syncs' = [syncs EXCEPT ![s] = y],
           UNCHANGED <<contractVersions, syncRecords>>,
           logicalAction' \in BOOLEAN, syncClock' \in Nat,
           Claimed(y) /\ y.key # NoSyncKey =>
               /\ RecordOf(y.key) = {}
               /\ \A t \in Syncs \ {s} : ~(Claimed(syncs[t]) /\ syncs[t].key = y.key),
           Inserts(y) =>
               /\ VersionOf(y.contract) = {}
               /\ \A t \in Syncs \ {s} : ~(Inserts(syncs[t]) /\ syncs[t].contract = y.contract),
           y.pc = "commit" /\ ~y.created => StoredVersion(y.contract, y.sensitive),
           \A a \in syncAnswers' : a \in syncAnswers \/ GoodAnswer(a)
    PROVE  SyncInv'
<1>1. /\ syncs'[s] = y
      /\ \A t \in Syncs : t # s => syncs'[t] = syncs[t]
      /\ SyncTypeOK'
  BY DEF SyncInv, SyncTypeOK
<1>2. /\ \A k : RecordOf(k)' = RecordOf(k)
      /\ \A c : VersionOf(c)' = VersionOf(c)
      /\ \A c, d : StoredVersion(c, d)' <=> StoredVersion(c, d)
  BY DEF RecordOf, VersionOf, StoredVersion
<1>3. KeyInv'
  BY <1>1, <1>2 DEF SyncInv, KeyInv
<1>4. VersionInv'
  BY <1>1, <1>2 DEF SyncInv, VersionInv
<1>5. \A a \in syncAnswers' : GoodAnswer(a)'
  BY <1>2 DEF SyncInv, GoodAnswer
<1> QED BY <1>1, <1>3, <1>4, <1>5 DEF SyncInv

\* A transaction that advances with its key and has not yet found its version.
LEMMA AdvanceStep ==
    ASSUME SyncInv, NEW s \in Syncs, NEW y \in Sync, Claimed(syncs[s]),
           y.key = syncs[s].key, y.pc # "commit",
           syncs' = [syncs EXCEPT ![s] = y],
           UNCHANGED <<logicalAction, contractVersions, syncRecords, syncClock, syncAnswers>>
    PROVE  SyncInv'
BY MoveStep DEF SyncInv, SyncTypeOK, KeyInv, Inserts

\* A transaction that found the stored version, or inserted its own.
LEMMA ResolveStep ==
    ASSUME SyncInv, NEW s \in Syncs, NEW created \in BOOLEAN, NEW sensitive \in BOOLEAN,
           Claimed(syncs[s]), Resolve(s, created, sensitive),
           UNCHANGED <<logicalAction, contractVersions, syncRecords, syncClock, syncAnswers>>,
           created =>
               /\ VersionOf(syncs[s].contract) = {}
               /\ \A t \in Syncs \ {s} :
                     ~(Inserts(syncs[t]) /\ syncs[t].contract = syncs[s].contract),
           ~created => StoredVersion(syncs[s].contract, sensitive)
    PROVE  SyncInv'
<1> DEFINE y == [syncs[s] EXCEPT !.pc = "commit", !.created = created, !.sensitive = sensitive]
<1>1. syncs[s] \in Sync
  BY DEF SyncInv, SyncTypeOK, Claimed, NoSync
<1>2. /\ y \in Sync /\ y.key = syncs[s].key /\ y.contract = syncs[s].contract
      /\ y.created = created /\ y.sensitive = sensitive /\ y.pc = "commit"
  BY <1>1 DEF Sync
<1>3. syncs' = [syncs EXCEPT ![s] = y]
  BY DEF Resolve
<1> HIDE DEF y
<1>4. y.key # NoSyncKey =>
          /\ RecordOf(y.key) = {}
          /\ \A t \in Syncs \ {s} : ~(Claimed(syncs[t]) /\ syncs[t].key = y.key)
  BY <1>2 DEF SyncInv, KeyInv
<1>5. Inserts(y) =>
          /\ VersionOf(y.contract) = {}
          /\ \A t \in Syncs \ {s} : ~(Inserts(syncs[t]) /\ syncs[t].contract = y.contract)
  BY <1>2 DEF Inserts
<1>6. ~y.created => StoredVersion(y.contract, y.sensitive)
  BY <1>2
<1>7. logicalAction' \in BOOLEAN /\ syncClock' \in Nat
  BY DEF SyncInv, SyncTypeOK
<1> QED BY <1>2, <1>3, <1>4, <1>5, <1>6, <1>7, MoveStep

\* A transaction that ends without changing a table.
LEMMA EndStep ==
    ASSUME SyncInv, NEW s \in Syncs,
           syncs' = [syncs EXCEPT ![s] = NoSync],
           UNCHANGED <<logicalAction, contractVersions, syncRecords, syncClock>>,
           \A a \in syncAnswers' : a \in syncAnswers \/ GoodAnswer(a)
    PROVE  SyncInv'
<1>1. NoSync.pc = "idle"
  BY DEF NoSync
<1>2. logicalAction' \in BOOLEAN /\ syncClock' \in Nat
  BY DEF SyncInv, SyncTypeOK
<1> QED BY <1>1, <1>2, MoveStep DEF Claimed, Inserts

LEMMA BeginStep ==
    ASSUME SyncInv, NEW s \in Syncs, NEW c \in Contracts, NEW k \in SyncKeys \cup {NoSyncKey},
           BeginContractSync(s, c, k)
    PROVE  SyncInv'
<1> DEFINE y == [pc |-> IF k = NoSyncKey THEN "ensure" ELSE "claim", contract |-> c, key |-> k,
                 createdAt |-> syncClock + 1, ensured |-> FALSE, created |-> FALSE,
                 sensitive |-> FALSE]
<1>1. syncClock \in Nat /\ logicalAction \in BOOLEAN
  BY DEF SyncInv, SyncTypeOK
<1>2. y \in Sync /\ y.pc # "commit" /\ (Claimed(y) => y.key = NoSyncKey)
  BY <1>1 DEF Sync, Claimed
<1>3. /\ syncs' = [syncs EXCEPT ![s] = y]
      /\ UNCHANGED <<logicalAction, contractVersions, syncRecords, syncAnswers>>
      /\ syncClock' = syncClock + 1
  BY DEF BeginContractSync
<1> HIDE DEF y
<1>4. logicalAction' \in BOOLEAN /\ syncClock' \in Nat
  BY <1>1, <1>3
<1>5. ~Inserts(y)
  BY <1>2 DEF Inserts
<1> QED BY <1>2, <1>3, <1>4, <1>5, MoveStep

LEMMA ClaimStep ==
    ASSUME SyncInv, NEW s \in Syncs, ClaimKey(s)
    PROVE  SyncInv'
<1>1. /\ syncs[s].pc = "claim" /\ ~KeyClaimed(s) /\ LookUpKey(s)
      /\ UNCHANGED <<logicalAction, contractVersions, syncRecords, syncClock>>
  BY DEF ClaimKey
<1>2. syncs[s] \in Sync
  BY <1>1 DEF SyncInv, SyncTypeOK, NoSync
<1>3. CASE RecordOf(syncs[s].key) = {} /\ Advance(s, "ensure") /\ UNCHANGED syncAnswers
  <2> DEFINE y == [syncs[s] EXCEPT !.pc = "ensure"]
  <2>1. y \in Sync /\ y.pc = "ensure" /\ y.key = syncs[s].key
    BY <1>2 DEF Sync
  <2>2. syncs' = [syncs EXCEPT ![s] = y]
    BY <1>3 DEF Advance
  <2> HIDE DEF y
  <2>3. \A t \in Syncs \ {s} : ~(Claimed(syncs[t]) /\ syncs[t].key = y.key)
    BY <1>1, <2>1 DEF KeyClaimed, Others, Claimed
  <2>4. logicalAction' \in BOOLEAN /\ syncClock' \in Nat
    BY <1>1 DEF SyncInv, SyncTypeOK
  <2> QED BY <1>1, <1>3, <2>1, <2>2, <2>3, <2>4, MoveStep DEF Inserts
<1>4. ASSUME NEW r \in RecordOf(syncs[s].key), r.contract = syncs[s].contract,
             EndSync(s, [key |-> syncs[s].key, asked |-> syncs[s].contract,
                         response |-> Response(r)])
      PROVE  SyncInv'
  <2> DEFINE a == [key |-> syncs[s].key, asked |-> syncs[s].contract, response |-> Response(r)]
  <2>1. StoredVersion(r.contract, r.sensitive)
    BY <1>4 DEF SyncInv, VersionInv, RecordOf
  <2>2. GoodAnswer(a)
    BY <1>4, <2>1 DEF GoodAnswer, Response
  <2>3. /\ syncs' = [syncs EXCEPT ![s] = NoSync]
        /\ syncAnswers' = syncAnswers \cup {a} \/ syncAnswers' = syncAnswers
    BY <1>4 DEF EndSync
  <2> HIDE DEF a
  <2> QED BY <1>1, <2>2, <2>3, EndStep
<1>5. CASE syncs' = [syncs EXCEPT ![s] = NoSync] /\ UNCHANGED syncAnswers
  BY <1>1, <1>5, EndStep
<1> QED BY <1>1, <1>3, <1>4, <1>5 DEF LookUpKey

LEMMA EnsureStep ==
    ASSUME SyncInv, NEW s \in Syncs, EnsureAction(s)
    PROVE  SyncInv'
<1> DEFINE y == [syncs[s] EXCEPT !.pc = "read", !.ensured = ~logicalAction]
<1>1. syncs[s] \in Sync /\ Claimed(syncs[s])
  BY DEF SyncInv, SyncTypeOK, NoSync, EnsureAction, Claimed
<1>2. y \in Sync /\ y.pc = "read" /\ y.key = syncs[s].key
  BY <1>1 DEF Sync
<1>3. /\ syncs' = [syncs EXCEPT ![s] = y]
      /\ UNCHANGED <<logicalAction, contractVersions, syncRecords, syncClock, syncAnswers>>
  BY DEF EnsureAction
<1> HIDE DEF y
<1> QED BY <1>1, <1>2, <1>3, AdvanceStep

LEMMA ReadStep ==
    ASSUME SyncInv, NEW s \in Syncs, ReadVersion(s)
    PROVE  SyncInv'
<1>1. /\ syncs[s].pc = "read"
      /\ UNCHANGED <<logicalAction, contractVersions, syncRecords, syncClock, syncAnswers>>
  BY DEF ReadVersion
<1>2. syncs[s] \in Sync /\ Claimed(syncs[s])
  BY <1>1 DEF SyncInv, SyncTypeOK, NoSync, Claimed
<1>3. CASE Advance(s, "latest")
  <2> DEFINE y == [syncs[s] EXCEPT !.pc = "latest"]
  <2>1. y \in Sync /\ y.pc = "latest" /\ y.key = syncs[s].key
    BY <1>2 DEF Sync
  <2>2. syncs' = [syncs EXCEPT ![s] = y]
    BY <1>3 DEF Advance
  <2> HIDE DEF y
  <2> QED BY <1>1, <1>2, <2>1, <2>2, AdvanceStep
<1>4. ASSUME NEW v \in VersionOf(syncs[s].contract), Resolve(s, FALSE, v.sensitive)
      PROVE  SyncInv'
  <2>1. v.sensitive \in BOOLEAN /\ StoredVersion(syncs[s].contract, v.sensitive)
    BY <1>4 DEF SyncInv, SyncTypeOK, VersionOf, StoredVersion
  <2> QED BY <1>1, <1>2, <1>4, <2>1, ResolveStep
<1> QED BY <1>3, <1>4 DEF ReadVersion

LEMMA LatestStep ==
    ASSUME SyncInv, NEW s \in Syncs, ReadLatest(s)
    PROVE  SyncInv'
<1> DEFINE d == \E v \in LatestVersions :
                    SecurityDelta(Declared[v.contract], Declared[syncs[s].contract])
           y == [syncs[s] EXCEPT !.pc = "insert", !.sensitive = d]
<1>1. syncs[s] \in Sync /\ Claimed(syncs[s])
  BY DEF SyncInv, SyncTypeOK, NoSync, ReadLatest, Claimed
<1>2. /\ syncs' = [syncs EXCEPT ![s] = y]
      /\ UNCHANGED <<logicalAction, contractVersions, syncRecords, syncClock, syncAnswers>>
  BY DEF ReadLatest
<1>3. d \in BOOLEAN
  BY Zenon
<1> HIDE DEF d
<1>4. y \in Sync /\ y.pc = "insert" /\ y.key = syncs[s].key
  BY <1>1, <1>3 DEF Sync
<1> HIDE DEF y
<1> QED BY <1>1, <1>2, <1>4, AdvanceStep

LEMMA InsertStep ==
    ASSUME SyncInv, NEW s \in Syncs, InsertVersion(s)
    PROVE  SyncInv'
<1>1. /\ syncs[s].pc = "insert"
      /\ UNCHANGED <<logicalAction, contractVersions, syncRecords, syncClock, syncAnswers>>
      /\ \A t \in Syncs \ {s} : ~(Inserts(syncs[t]) /\ syncs[t].contract = syncs[s].contract)
  BY DEF InsertVersion, Others, Inserts
<1>2. syncs[s] \in Sync /\ Claimed(syncs[s]) /\ syncs[s].sensitive \in BOOLEAN
  BY <1>1 DEF SyncInv, SyncTypeOK, NoSync, Claimed, Sync
<1>3. CASE VersionOf(syncs[s].contract) = {} /\ Resolve(s, TRUE, syncs[s].sensitive)
  BY <1>1, <1>2, <1>3, ResolveStep
<1>4. ASSUME NEW v \in VersionOf(syncs[s].contract), Resolve(s, FALSE, v.sensitive)
      PROVE  SyncInv'
  <2>1. v.sensitive \in BOOLEAN /\ StoredVersion(syncs[s].contract, v.sensitive)
    BY <1>4 DEF SyncInv, SyncTypeOK, VersionOf, StoredVersion
  <2> QED BY <1>1, <1>2, <1>4, <2>1, ResolveStep
<1> QED BY <1>3, <1>4 DEF InsertVersion

\* The commit adds the version, when it is new, and the record of the key; both
\* were absent, and no other transaction is about to add them.
LEMMA CommitStep ==
    ASSUME SyncInv, NEW s \in Syncs, CommitSync(s)
    PROVE  SyncInv'
<1> PICK y : y = syncs[s]
  OBVIOUS
<1>v. PICK version : version = [contract |-> y.contract, createdAt |-> y.createdAt,
                              sensitive |-> y.sensitive]
  OBVIOUS
<1>r. PICK record : record = [key |-> y.key, contract |-> y.contract, created |-> y.created,
                            sensitive |-> y.sensitive]
  OBVIOUS
<1>a. PICK a : a = [key |-> y.key, asked |-> y.contract, response |-> Response(y)]
  OBVIOUS
<1>1. y \in Sync /\ y.pc = "commit" /\ Claimed(y)
  <2>1. y.pc = "commit" /\ y # NoSync
    BY DEF CommitSync, NoSync
  <2>2. y \in Sync
    BY <2>1 DEF SyncInv, SyncTypeOK
  <2> QED BY <2>1, <2>2 DEF Claimed
<1>2. /\ contractVersions' = IF y.created THEN contractVersions \cup {version}
                                          ELSE contractVersions
      /\ syncRecords' = IF y.key # NoSyncKey THEN syncRecords \cup {record} ELSE syncRecords
      /\ syncs' = [syncs EXCEPT ![s] = NoSync]
      /\ syncAnswers' = syncAnswers \cup {a} \/ syncAnswers' = syncAnswers
      /\ logicalAction' = (logicalAction \/ y.ensured) /\ syncClock' = syncClock
  BY <1>v, <1>r, <1>a DEF CommitSync, EndSync
<1>3. /\ version.contract = y.contract /\ version.sensitive = y.sensitive
      /\ record.key = y.key /\ record.contract = y.contract /\ record.sensitive = y.sensitive
      /\ Response(record) = Response(y)
      /\ Response(y).contract = y.contract /\ Response(y).sensitive = y.sensitive
      /\ a.key = y.key /\ a.asked = y.contract /\ a.response = Response(y)
  BY <1>v, <1>r, <1>a DEF Response
<1>4. /\ y.sensitive \in BOOLEAN /\ y.created \in BOOLEAN
      /\ y.ensured \in BOOLEAN
  BY <1>1 DEF Sync
<1>5. /\ \A t \in Syncs : t # s => syncs'[t] = syncs[t]
      /\ syncs'[s].pc = "idle"
      /\ SyncTypeOK'
  BY <1>1, <1>2, <1>3, <1>4 DEF SyncInv, SyncTypeOK, NoSync
<1>6. \A c, d : StoredVersion(c, d) => StoredVersion(c, d)'
  BY <1>2 DEF StoredVersion, VersionOf
<1>7. StoredVersion(y.contract, y.sensitive)'
  <2>1. CASE y.created
    BY <1>2, <1>3, <2>1 DEF StoredVersion, VersionOf
  <2>2. CASE ~y.created
    BY <1>1, <1>6, <2>2 DEF SyncInv, VersionInv
  <2> QED BY <2>1, <2>2
<1>8. KeyInv'
  <2>1. ASSUME NEW t \in Syncs, Claimed(syncs[t])', syncs'[t].key # NoSyncKey
        PROVE  /\ (RecordOf(syncs[t].key) = {})'
               /\ \A u \in Syncs \ {t} : ~(Claimed(syncs[u])' /\ syncs'[u].key = syncs'[t].key)
    <3>1. t # s /\ syncs'[t] = syncs[t] /\ Claimed(syncs[t])
      BY <1>5, <2>1 DEF Claimed
    <3> PICK k : k = syncs[t].key
      OBVIOUS
    <3>2. /\ RecordOf(k) = {} /\ k # y.key
          /\ \A u \in Syncs \ {t} : ~(Claimed(syncs[u]) /\ syncs[u].key = k)
      BY <1>1, <2>1, <3>1 DEF SyncInv, KeyInv
    <3>3. RecordOf(k)' = {}
      BY <1>2, <1>3, <3>2 DEF RecordOf
    <3>4. \A u \in Syncs \ {t} : ~(Claimed(syncs[u])' /\ syncs'[u].key = k)
      BY <1>5, <3>2 DEF Claimed
    <3> QED BY <3>1, <3>3, <3>4 DEF RecordOf
  <2>2. \A q, r \in syncRecords' : q.key = r.key => q = r
    <3>1. y.key # NoSyncKey => \A r \in syncRecords : r.key # record.key
      <4>1. y.key # NoSyncKey => RecordOf(y.key) = {}
        BY <1>1 DEF SyncInv, KeyInv
      <4> QED BY <1>3, <4>1 DEF RecordOf
    <3>2. \A q, r \in syncRecords : q.key = r.key => q = r
      BY DEF SyncInv, KeyInv
    <3>3. ASSUME NEW q \in syncRecords', NEW r \in syncRecords', q.key = r.key
          PROVE  q = r
      <4>1. /\ q \in syncRecords \/ (y.key # NoSyncKey /\ q = record)
            /\ r \in syncRecords \/ (y.key # NoSyncKey /\ r = record)
        BY <1>2, <3>3
      <4> QED BY ONLY <3>1, <3>2, <3>3, <4>1
    <3> QED BY <3>3
  <2> QED BY <2>1, <2>2 DEF KeyInv
<1>9. VersionInv'
  <2>1. \A v, w \in contractVersions' : v.contract = w.contract => v = w
    <3>1. y.created => \A v \in contractVersions : v.contract # version.contract
      <4>1. y.created => VersionOf(y.contract) = {}
        BY <1>1 DEF SyncInv, VersionInv, Inserts
      <4> QED BY <1>3, <4>1 DEF VersionOf
    <3>2. \A v, w \in contractVersions : v.contract = w.contract => v = w
      BY DEF SyncInv, VersionInv
    <3>3. ASSUME NEW v \in contractVersions', NEW w \in contractVersions', v.contract = w.contract
          PROVE  v = w
      <4>1. /\ v \in contractVersions \/ (y.created /\ v = version)
            /\ w \in contractVersions \/ (y.created /\ w = version)
        BY <1>2, <3>3
      <4> QED BY ONLY <3>1, <3>2, <3>3, <4>1
    <3> QED BY <3>3
  <2>2. ASSUME NEW t \in Syncs, Inserts(syncs[t])'
        PROVE  /\ (VersionOf(syncs[t].contract) = {})'
               /\ \A u \in Syncs \ {t} :
                     ~(Inserts(syncs[u])' /\ syncs'[u].contract = syncs'[t].contract)
    <3>1. t # s /\ syncs'[t] = syncs[t] /\ Inserts(syncs[t])
      BY <1>5, <2>2 DEF Inserts
    <3> PICK c : c = syncs[t].contract
      OBVIOUS
    <3>2. /\ VersionOf(c) = {}
          /\ \A u \in Syncs \ {t} : ~(Inserts(syncs[u]) /\ syncs[u].contract = c)
      BY <3>1 DEF SyncInv, VersionInv
    <3>3. VersionOf(c)' = {}
      <4>1. y.created => version.contract # c
        BY <1>1, <1>3, <3>1, <3>2 DEF Inserts
      <4> QED BY <1>2, <3>2, <4>1 DEF VersionOf
    <3>4. \A u \in Syncs \ {t} : ~(Inserts(syncs[u])' /\ syncs'[u].contract = c)
      BY <1>5, <3>2 DEF Inserts
    <3> QED BY <3>1, <3>3, <3>4 DEF VersionOf
  <2>3. ASSUME NEW t \in Syncs, syncs'[t].pc = "commit", ~syncs'[t].created
        PROVE  StoredVersion(syncs[t].contract, syncs[t].sensitive)'
    <3>1. syncs'[t] = syncs[t]
      BY <1>5, <2>3
    <3> PICK c : c = syncs[t].contract
      OBVIOUS
    <3> PICK d : d = syncs[t].sensitive
      OBVIOUS
    <3>2. StoredVersion(c, d)'
      BY <1>6, <2>3, <3>1 DEF SyncInv, VersionInv
    <3> QED BY <3>1, <3>2 DEF StoredVersion, VersionOf
  <2>4. \A r \in syncRecords' : StoredVersion(r.contract, r.sensitive)'
    BY <1>2, <1>3, <1>6, <1>7 DEF SyncInv, VersionInv
  <2> QED BY <2>1, <2>2, <2>3, <2>4 DEF VersionInv
<1>10. \A b \in syncAnswers : GoodAnswer(b)'
  <2>1. \A k : RecordOf(k) \subseteq RecordOf(k)'
    BY <1>2 DEF RecordOf
  <2> QED BY <1>6, <2>1 DEF SyncInv, GoodAnswer
<1>11. GoodAnswer(a)'
  BY <1>2, <1>3, <1>7 DEF GoodAnswer, RecordOf
<1> QED BY <1>2, <1>5, <1>8, <1>9, <1>10, <1>11 DEF SyncInv

LEMMA SyncInvStep == SyncInv /\ [SyncNext]_syncVars => SyncInv'
<1> SUFFICES ASSUME SyncInv, [SyncNext]_syncVars PROVE SyncInv'
    OBVIOUS
<1>1. ASSUME NEW s \in Syncs, NEW c \in Contracts, NEW k \in SyncKeys \cup {NoSyncKey},
             BeginContractSync(s, c, k)
      PROVE  SyncInv'
  BY <1>1, BeginStep
<1>2. ASSUME NEW s \in Syncs, ClaimKey(s) PROVE SyncInv'
  BY <1>2, ClaimStep
<1>3. ASSUME NEW s \in Syncs, EnsureAction(s) PROVE SyncInv'
  BY <1>3, EnsureStep
<1>4. ASSUME NEW s \in Syncs, ReadVersion(s) PROVE SyncInv'
  BY <1>4, ReadStep
<1>5. ASSUME NEW s \in Syncs, ReadLatest(s) PROVE SyncInv'
  BY <1>5, LatestStep
<1>6. ASSUME NEW s \in Syncs, InsertVersion(s) PROVE SyncInv'
  BY <1>6, InsertStep
<1>7. ASSUME NEW s \in Syncs, CommitSync(s) PROVE SyncInv'
  BY <1>7, CommitStep
<1>8. ASSUME NEW s \in Syncs, RollbackSync(s) PROVE SyncInv'
  BY <1>8, EndStep DEF RollbackSync
<1>9. ASSUME UNCHANGED <<contractVersions, syncRecords, syncs, syncClock, syncAnswers>>,
             logicalAction' \in BOOLEAN
      PROVE  SyncInv'
  <2>1. SyncTypeOK'
    BY <1>9 DEF SyncInv, SyncTypeOK
  <2>2. /\ \A k : RecordOf(k)' = RecordOf(k)
        /\ \A c : VersionOf(c)' = VersionOf(c)
        /\ \A c, d : StoredVersion(c, d)' <=> StoredVersion(c, d)
    BY <1>9 DEF RecordOf, VersionOf, StoredVersion
  <2>3. KeyInv'
    BY <1>9, <2>2 DEF SyncInv, KeyInv
  <2>4. VersionInv'
    BY <1>9, <2>2 DEF SyncInv, VersionInv
  <2>5. \A a \in syncAnswers' : GoodAnswer(a)'
    BY <1>9, <2>2 DEF SyncInv, GoodAnswer
  <2> QED BY <2>1, <2>3, <2>4, <2>5 DEF SyncInv
<1>10. CASE ArchiveLogicalAction
  BY <1>9, <1>10 DEF ArchiveLogicalAction
<1>11. CASE UNCHANGED syncVars
  BY <1>9, <1>11 DEF syncVars, SyncInv, SyncTypeOK
<1> QED BY <1>1, <1>2, <1>3, <1>4, <1>5, <1>6, <1>7, <1>8, <1>10, <1>11
       DEF SyncNext

(* However syncs, retries and rollbacks interleave, an Idempotency-Key has  *)
(* one response (performIdempotentContractSync), for every set of requests, *)
(* contracts and keys.                                                      *)
THEOREM SyncSafety == SyncSpec => []KeyAnswersOneResponse
<1>1. SyncInv => KeyAnswersOneResponse
  BY DEF SyncInv, KeyInv, GoodAnswer, RecordOf, KeyAnswersOneResponse
<1> QED BY <1>1, SyncInvInit, SyncInvStep, PTL DEF SyncSpec

(* Every response reports the delta of the one stored version of its        *)
(* contract, also a repeated one and one that lost the race to insert the   *)
(* version (performContractSyncInTx).                                       *)
THEOREM SyncAnswersAreStored == SyncSpec => []AnswersMatchStoredVersion
<1>1. SyncInv => AnswersMatchStoredVersion
  <2> SUFFICES ASSUME SyncInv, NEW a \in syncAnswers
               PROVE  \E v \in contractVersions :
                         VersionOf(a.asked) = {v} /\ v.sensitive = a.response.sensitive
    BY DEF AnswersMatchStoredVersion
  <2>1. PICK v \in VersionOf(a.asked) : v.sensitive = a.response.sensitive
    BY DEF SyncInv, GoodAnswer, StoredVersion
  <2>2. v \in contractVersions /\ VersionOf(a.asked) = {v}
    BY DEF SyncInv, VersionInv, VersionOf
  <2> QED BY <2>1, <2>2
<1> QED BY <1>1, SyncInvInit, SyncInvStep, PTL DEF SyncSpec

-----------------------------------------------------------------------------
(* Bound runs                                                              *)

\* The run takes its target and its policy from the binding.
Agrees(run, binding) ==
    /\ binding # Unset
    /\ run.url = binding.url
    /\ binding.approval \/ ApprovalMode[run.version] = "required" => run.approval
    /\ binding.targetReplay = "non_retryable" => run.replay = "non_retryable"

GoodRun(run) ==
    run.kind = "bound" => run.version \in Versions /\ Agrees(run, bindings[run.version])

Built(run, k) == [pc |-> "built", key |-> k, run |-> run]

GoodRunner(w) ==
    w.pc = "built" =>
        w.key \in RunKeys /\ w.run.kind \in {"bound", "plain"} /\ GoodRun(w.run)

BoundInv ==
    /\ bindings = [v \in Versions |-> bindings[v]]
    /\ boundRuns = [k \in RunKeys |-> boundRuns[k]]
    /\ runners = [r \in Runners |-> runners[r]]
    /\ \A k \in RunKeys : GoodRun(boundRuns[k])
    /\ \A r \in Runners : GoodRunner(runners[r])
    /\ \A a \in runAnswers :
          /\ a.key \in RunKeys
          /\ a.given = boundRuns[a.key]
          /\ a.given # NoRun
          /\ a.asked.kind = "bound" => Fingerprint(a.given) = a.asked

\* The answer a gives the run that is stored under its key.
NewAnswer(a, k, row) ==
    /\ a.key = k /\ a.given = row /\ row # NoRun
    /\ a.asked.kind = "bound" => Fingerprint(a.given) = a.asked

LEMMA BuiltGood ==
    ASSUME NEW run, NEW k \in RunKeys, run.kind \in {"bound", "plain"}, GoodRun(run)
    PROVE  GoodRunner(Built(run, k))
<1>1. Built(run, k).key = k /\ Built(run, k).run = run
  BY DEF Built
<1> QED BY <1>1 DEF GoodRunner

LEMMA BoundInvInit == BoundInit => BoundInv
<1> SUFFICES ASSUME BoundInit PROVE BoundInv
    OBVIOUS
<1>1. \A k \in RunKeys : boundRuns[k].kind = "none"
  BY DEF BoundInit, NoRun
<1>2. \A r \in Runners : runners[r].pc = "idle"
  BY DEF BoundInit, Idle
<1> QED BY <1>1, <1>2 DEF BoundInit, BoundInv, GoodRun, GoodRunner

\* buildBoundActionRunRequest follows the binding it is given.
LEMMA BuildBoundRunAgrees ==
    ASSUME NEW v, NEW binding, NEW input, NEW run,
           run = BuildBoundRun(v, binding, input), binding # Unset
    PROVE  run.kind = "bound" /\ run.version = v /\ Agrees(run, binding)
<1> DEFINE approval == binding.approval \/ ApprovalMode[v] = "required"
<1>1. /\ run.kind = "bound" /\ run.version = v /\ run.url = binding.url
      /\ binding.targetReplay = "non_retryable" => run.replay = "non_retryable"
  BY DEF BuildBoundRun
<1>2. run.approval = approval
  BY DEF BuildBoundRun
<1>3. binding.approval \/ ApprovalMode[run.version] = "required" => run.approval
  BY <1>1, <1>2
<1> QED BY <1>1, <1>3 DEF Agrees

\* More bindings, none of them changed, keep what is good.
LEMMA GoodStays ==
    ASSUME \A v \in Versions : bindings[v] # Unset => bindings'[v] = bindings[v],
           NEW w
    PROVE  /\ GoodRun(w) => GoodRun(w)'
           /\ GoodRunner(w) => GoodRunner(w)'
<1>1. \A run : GoodRun(run) => GoodRun(run)'
  BY DEF GoodRun, Agrees
<1> QED BY <1>1 DEF GoodRunner

\* A step of the bindings or of the definition; the runs and the requests for
\* runs are left alone.
LEMMA BoundFrame ==
    ASSUME BoundInv, UNCHANGED <<boundRuns, runners, runAnswers>>,
           bindings' = [v \in Versions |-> bindings'[v]],
           \A v \in Versions : bindings[v] # Unset => bindings'[v] = bindings[v]
    PROVE  BoundInv'
<1>1. ASSUME NEW k \in RunKeys PROVE GoodRun(boundRuns[k])'
  <2> PICK run : run = boundRuns[k]
    OBVIOUS
  <2>1. GoodRun(run)' /\ run = boundRuns'[k]
    BY GoodStays DEF BoundInv
  <2> QED BY <2>1 DEF GoodRun
<1>2. ASSUME NEW r \in Runners PROVE GoodRunner(runners[r])'
  <2> PICK w : w = runners[r]
    OBVIOUS
  <2>1. GoodRunner(w)' /\ w = runners'[r]
    BY GoodStays DEF BoundInv
  <2> QED BY <2>1 DEF GoodRunner, GoodRun
<1> QED BY <1>1, <1>2 DEF BoundInv

LEMMA InsertBindingStep ==
    ASSUME BoundInv, NEW b \in Binders, InsertBinding(b)
    PROVE  BoundInv'
<1>1. /\ UNCHANGED <<boundRuns, runners, runAnswers>>
      /\ bindings' = [v \in Versions |-> bindings'[v]]
      /\ \A v \in Versions : bindings[v] # Unset => bindings'[v] = bindings[v]
  BY DEF InsertBinding, BoundInv
<1> QED BY <1>1, BoundFrame

\* A request for a run that has built its run, or that ends; it may store a row
\* under its key and give an answer.
LEMMA RunnerStep ==
    ASSUME BoundInv, NEW r \in Runners, NEW w, GoodRunner(w),
           NEW k \in RunKeys, NEW row, GoodRun(row),
           boundRuns[k] # NoRun => row = boundRuns[k],
           runners' = [runners EXCEPT ![r] = w],
           boundRuns' = [boundRuns EXCEPT ![k] = row],
           UNCHANGED bindings,
           \A a \in runAnswers' : a \in runAnswers \/ NewAnswer(a, k, row)
    PROVE  BoundInv'
<1>1. /\ bindings' = [v \in Versions |-> bindings'[v]]
      /\ \A q : GoodRun(q) => GoodRun(q)'
      /\ \A q : GoodRunner(q) => GoodRunner(q)'
  BY DEF BoundInv, GoodRun, GoodRunner
<1>2. /\ boundRuns' = [h \in RunKeys |-> boundRuns'[h]]
      /\ boundRuns'[k] = row
      /\ \A h \in RunKeys : h # k => boundRuns'[h] = boundRuns[h]
  BY DEF BoundInv
<1>3. /\ runners' = [q \in Runners |-> runners'[q]]
      /\ runners'[r] = w
      /\ \A q \in Runners : q # r => runners'[q] = runners[q]
  BY DEF BoundInv
<1>4. ASSUME NEW h \in RunKeys PROVE GoodRun(boundRuns[h])'
  <2> PICK q : q = boundRuns'[h]
    OBVIOUS
  <2>1. GoodRun(q)
    BY <1>2 DEF BoundInv
  <2>2. GoodRun(q)'
    BY <1>1, <2>1
  <2> QED BY <2>2 DEF GoodRun
<1>5. ASSUME NEW p \in Runners PROVE GoodRunner(runners[p])'
  <2> PICK q : q = runners'[p]
    OBVIOUS
  <2>1. GoodRunner(q)
    BY <1>3 DEF BoundInv
  <2>2. GoodRunner(q)'
    BY <1>1, <2>1
  <2> QED BY <2>2 DEF GoodRunner, GoodRun
<1>6. ASSUME NEW a \in runAnswers'
      PROVE  /\ a.key \in RunKeys
             /\ a.given = boundRuns'[a.key]
             /\ a.given # NoRun
             /\ a.asked.kind = "bound" => Fingerprint(a.given) = a.asked
  <2>1. CASE a \in runAnswers
    BY <1>2, <2>1 DEF BoundInv
  <2>2. CASE a \notin runAnswers
    BY <1>2, <1>6, <2>2 DEF NewAnswer
  <2> QED BY <2>1, <2>2
<1> QED BY <1>1, <1>2, <1>3, <1>4, <1>5, <1>6 DEF BoundInv

\* The same for a request that touches neither rows nor answers.
LEMMA RunnerMove ==
    ASSUME BoundInv, NEW r \in Runners, NEW w, GoodRunner(w),
           runners' = [runners EXCEPT ![r] = w],
           UNCHANGED <<bindings, boundRuns, runAnswers>>
    PROVE  BoundInv'
<1>1. ASSUME NEW p \in Runners PROVE GoodRunner(runners[p])'
  <2> PICK q : q = runners'[p]
    OBVIOUS
  <2>1. GoodRunner(q)
    BY DEF BoundInv
  <2> QED BY <2>1 DEF GoodRunner, GoodRun
<1>2. \A k \in RunKeys : GoodRun(boundRuns[k])'
  BY DEF BoundInv, GoodRun
<1>3. runners' = [q \in Runners |-> runners'[q]]
  BY DEF BoundInv
<1> QED BY <1>1, <1>2, <1>3 DEF BoundInv

LEMMA LoadBindingStep ==
    ASSUME BoundInv, NEW r \in Runners, NEW v \in Versions, NEW input \in Inputs,
           NEW k \in RunKeys, LoadBinding(r, v, input, k)
    PROVE  BoundInv'
<1> PICK binding : binding = bindings[v]
  OBVIOUS
<1> PICK run : run = BuildBoundRun(v, binding, input)
  OBVIOUS
<1>1. /\ runners' = [runners EXCEPT ![r] = Built(run, k)]
      /\ UNCHANGED <<bindings, boundRuns, runAnswers>>
      /\ binding # Unset
  BY DEF LoadBinding, Built
<1>2. run.kind = "bound" /\ run.version = v /\ Agrees(run, binding)
  BY ONLY <1>1, run = BuildBoundRun(v, binding, input), BuildBoundRunAgrees
<1>3. GoodRun(run)
  BY <1>2, Zenon DEF GoodRun
<1>4. GoodRunner(Built(run, k))
  BY <1>2, <1>3, BuiltGood
<1> QED BY <1>1, <1>4, RunnerMove

LEMMA LoadTargetStep ==
    ASSUME BoundInv, NEW r \in Runners, NEW input \in Inputs, NEW k \in RunKeys,
           LoadTarget(r, input, k)
    PROVE  BoundInv'
<1> PICK run : run = [kind |-> "plain", version |-> Unset, input |-> input,
                      url |-> definition.url, replay |-> definition.replay,
                      approval |-> definition.approval]
  OBVIOUS
<1>1. /\ runners' = [runners EXCEPT ![r] = Built(run, k)]
      /\ UNCHANGED <<bindings, boundRuns, runAnswers>>
  BY DEF LoadTarget, Built
<1>2. run.kind = "plain" /\ GoodRun(run)
  BY DEF GoodRun
<1>3. GoodRunner(Built(run, k))
  BY <1>2, BuiltGood
<1> QED BY <1>1, <1>3, RunnerMove

LEMMA CreateRunStep ==
    ASSUME BoundInv, NEW r \in Runners, CreateRun(r)
    PROVE  BoundInv'
<1> PICK k : k = runners[r].key
  OBVIOUS
<1> PICK run : run = runners[r].run
  OBVIOUS
<1>r. PICK row : row = IF boundRuns[k] = NoRun THEN run ELSE boundRuns[k]
  OBVIOUS
<1>a. PICK a : a = [asked |-> Fingerprint(run), key |-> k, given |-> row]
  OBVIOUS
<1>1. k \in RunKeys /\ run.kind \in {"bound", "plain"} /\ GoodRun(run)
  BY DEF CreateRun, BoundInv, GoodRunner
<1>2. /\ boundRuns' = [boundRuns EXCEPT ![k] = row]
      /\ runners' = [runners EXCEPT ![r] = Idle]
      /\ UNCHANGED bindings
      /\ runAnswers' = runAnswers \cup {b \in {a} : FingerprintMatches(run, row)}
  BY <1>r, <1>a DEF CreateRun
<1>3. row # NoRun /\ GoodRun(row) /\ (boundRuns[k] # NoRun => row = boundRuns[k])
  <2>1. NoRun.kind = "none"
    BY DEF NoRun
  <2> QED BY <1>r, <1>1, <2>1 DEF BoundInv
<1>4. /\ a.key = k /\ a.given = row /\ a.asked = Fingerprint(run)
      /\ Fingerprint(run).kind = run.kind
  BY <1>a DEF Fingerprint
<1>5. ASSUME NEW b \in runAnswers', b \notin runAnswers
      PROVE  NewAnswer(b, k, row)
  <2>1. b = a /\ FingerprintMatches(run, row)
    BY <1>2, <1>5
  <2> QED BY <1>3, <1>4, <2>1 DEF FingerprintMatches, NewAnswer
<1>6. GoodRunner(Idle)
  BY DEF GoodRunner, Idle
<1>7. \A b \in runAnswers' : b \in runAnswers \/ NewAnswer(b, k, row)
  BY <1>5
<1> QED BY <1>1, <1>2, <1>3, <1>6, <1>7, RunnerStep

LEMMA BoundInvStep == BoundInv /\ [BoundNext]_boundVars => BoundInv'
<1> SUFFICES ASSUME BoundInv, [BoundNext]_boundVars PROVE BoundInv'
    OBVIOUS
<1>0. bindings = [v \in Versions |-> bindings[v]]
  BY DEF BoundInv
<1>1. ASSUME NEW edit \in Edits, CreateDefinition(edit) PROVE BoundInv'
  BY <1>0, <1>1, BoundFrame DEF CreateDefinition
<1>2. ASSUME NEW e \in Editors, LoadDefinition(e) PROVE BoundInv'
  BY <1>0, <1>2, BoundFrame DEF LoadDefinition
<1>3. ASSUME NEW e \in Editors, NEW edit \in Edits, PatchDefinition(e, edit) PROVE BoundInv'
  BY <1>0, <1>3, BoundFrame DEF PatchDefinition
<1>4. CASE ArchiveDefinition
  BY <1>0, <1>4, BoundFrame DEF ArchiveDefinition
<1>5. ASSUME NEW b \in Binders, NEW v \in Versions, NEW class \in ReplayClasses \cup {Unset},
             BeginBinding(b, v, class)
      PROVE  BoundInv'
  BY <1>0, <1>5, BoundFrame DEF BeginBinding
<1>6. ASSUME NEW b \in Binders, InsertBinding(b) PROVE BoundInv'
  BY <1>6, InsertBindingStep
<1>7. ASSUME NEW b \in Binders, AbortBinding(b) PROVE BoundInv'
  BY <1>0, <1>7, BoundFrame DEF AbortBinding
<1>8. ASSUME NEW r \in Runners, NEW v \in Versions, NEW input \in Inputs, NEW k \in RunKeys,
             LoadBinding(r, v, input, k)
      PROVE  BoundInv'
  BY <1>8, LoadBindingStep
<1>9. ASSUME NEW r \in Runners, NEW input \in Inputs, NEW k \in RunKeys, LoadTarget(r, input, k)
      PROVE  BoundInv'
  BY <1>9, LoadTargetStep
<1>10. ASSUME NEW r \in Runners, CreateRun(r) PROVE BoundInv'
  BY <1>10, CreateRunStep
<1>11. ASSUME NEW r \in Runners, RefuseRun(r) PROVE BoundInv'
  <2>1. GoodRunner(Idle)
    BY DEF GoodRunner, Idle
  <2> QED BY <1>11, <2>1, RunnerMove DEF RefuseRun
<1>12. CASE UNCHANGED boundVars
  BY <1>0, <1>12, BoundFrame DEF boundVars
<1> QED BY <1>1, <1>2, <1>3, <1>4, <1>5, <1>6, <1>7, <1>8, <1>9, <1>10, <1>11, <1>12
       DEF BoundNext

(* Whatever is patched, archived, bound or retried in between, a stored     *)
(* bound run follows its binding (buildBoundActionRunRequest), for every    *)
(* set of requests, versions, edits, keys and inputs.                       *)
THEOREM BoundSafety == BoundSpec => []BoundRunsFollowBinding
<1>1. BoundInv => BoundRunsFollowBinding
  BY DEF BoundInv, GoodRun, Agrees, BoundRunsFollowBinding
<1> QED BY <1>1, BoundInvInit, BoundInvStep, PTL DEF BoundSpec

(* A bound request is answered with the one run of its key, and only with a *)
(* run of its own fingerprint (Submit, CreateTask).                         *)
THEOREM BoundAnswersAreOwn == BoundSpec => []BoundAnswerIsOwnRun
<1>1. BoundInv => BoundAnswerIsOwnRun
  BY DEF BoundInv, BoundAnswerIsOwnRun
<1> QED BY <1>1, BoundInvInit, BoundInvStep, PTL DEF BoundSpec
=============================================================================
