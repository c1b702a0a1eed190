# Verification of epd2-civic-os

TLA+ specifications of the parts of this repository that carry its hardest
promises: that a ballot is accepted exactly once and never lost, that a closed
election's record is exact, that one eligibility assertion buys one voting
credential and one capability, and that the services around the election
(privileged access, interventions, delegations, books, retention, governance)
keep their promises through refusals, crashes, retries and reused ids. TLC
checks small instances; TLAPS proves the results for every instance, but for
liveness and the recursive algorithms.

Paths below are relative to `src/services/<service>/src/<package>/` unless
they start with `docs/` or `packages/`. `reference/` is
`voting-service/src/epd2_voting_service/reference/`.

## 1. Inventory

The repository is a set of Python services that share `packages/python/epd2-core`
(events, API dispatcher, SQLite migrations). Services do not call one another
in process: what crosses a boundary is a value a client carries (an assertion,
a capability) or an event. Most services are in-memory stores whose
commands run one at a time, and save record by record without a rollback; the
interesting behaviour is where state is written in several steps, by several
threads or connections, with failures in between, and where commands that are
each in order add up to something nobody checked.

### Voting service, reference implementation (`reference/`)

| Part | State | Operations | What is hard | What makes it correct |
| --- | --- | --- | --- | --- |
| Casting boundary (`casting/transactions.py`, `store.py`, `continuation.py`, `idempotency.py`) | eight maps of `ReferenceStore`, one `RLock` | `submit_cast_ballot`, `submit_public_challenge` | ten writes in one transaction, a fault possible at six trip points, client retries, capacity limits | all or nothing; one leaf per ballot; entitlement spent iff a ballot is stored; a key answers for good |
| Outbox (`publication/outbox.py`, `dispatch_outbox`) | rows with a state | `enqueue`, `pending`, `mark`, sweep | the sweep takes no lock, runs beside transactions and other sweeps, marks by an index that may be out of date, and can die between a mark and its append | obligations match ballots; every obligation is dispatched |
| Batch sealing (`publication/sealing.py`, `sealed_batches.py`) | none of its own; reads the live store | `seal_batch` | reads without the lock | every returned ballot is sealed at its leaf |
| Bulletin board (`publication/bulletin_board.py`, `checkpoint_signing.py`) | entries, checkpoints, `closed`, signer registry | `append`, `close`, `publish_checkpoint`, proofs | order of entries around closure; signer rotation | append-only; nothing of the tally before closure |
| Election record (`election_record/builder.py`) | record | `open_tally`, `tally_accepted`, `reconcile` | compares counts of inputs collected at different times | the reconciled record is exact |
| Guardians (`guardians/ceremony.py`, `threshold.py`, `crypto/elgamal.py`) | transcripts, shares | ceremony, encryption, threshold decryption | quorum subsets, a guardian that deals wrong shares, wrong and repeated shares at decryption | any quorum decrypts the sum, nothing else does |
| Merkle trees (`crypto/merkle.py`) | none | roots, inclusion and consistency proofs, their verification | sizes around powers of two, a verifier that shifts positions where the prover recurses | proofs exist for every history and for no other |
| Verifier (`verification/verifier.py`) | none | verify a record | recomputation of everything above | accepts exact records only |
| Cryptography (`crypto/`, `casting/ballot.py`) | none | encryption, proofs, hashes | large groups | |

### Voting credentials (credential-service) and assertions (eligibility-service)

| Part | State | Operations | What is hard | What makes it correct |
| --- | --- | --- | --- | --- |
| Voting credential issuer (`voting_credential_*.py`) | SQLite: credentials, spent nonces, idempotency, redemptions, replay records | `issue`, `redeem`, `revoke`, `status` | several connections; a handler that raises rolls nothing back; commits refused for a lock; crashes | no double credential, one capability per credential, answers survive |
| Assertion issuer (`voting_assertion_issuer.py`, `voting_trust_*.py`) | two SQLite databases: participation ledger, and assertions with their pickups and handoffs | claim and mint, handoff, pickup | two commits in a row, each of which may be refused; one-time pickup; a refusal after a write | one assertion per participation unit, nobody locked out, one delivery per pickup |
| Ballot box (voting-service `application.py`, credential-service `application.py`) | ballots, credentials, envelopes, receipts, tokens | freeze, open, issue, cast, validate, close | casts, retries and validations of one credential in any order | no vote lost, none counted twice |
| Tally, eligibility register | in memory | record keeping | lifecycle states | |

### Access (privileged-access-service, control-plane-service)

| Part | State | Operations | What is hard | What makes it correct |
| --- | --- | --- | --- | --- |
| Command frame (`application.py` `_guard`, `_finish`) | audit rows, events, command records | every governed command of four services | a stop between any two writes, retries under the same `event_id` | success is complete, an old row freezes its aggregate |
| Grants and sessions (`access.py`, `sessions.py`) | grants with histories, sessions, hash chain | request to revocation, sealing | overwriting by id, overlapping sessions, a seal that stops half way | ended access stays ended, evidence lasts |
| Search (`search.py`) | index, policy, cache, audit trail | query, replay, policy change, removal | the source, the policy and the cache change between a decision and its use | no pointer is shown that is not due, none unaudited |
| Export (`export.py`, `dlp.py`) | requests, assessments, artifacts | assess, approve, generate, deliver, read, revoke | refused commands keep what they saved before the refusal | nothing leaves unapproved |
| Break-glass (`breakglass.py`) | activations, notifications, reviews | request to review | the notification may fail between two saves | shared, told, reviewed by somebody else |
| Interventions (`regional_operations.py`) | requests, privileges, held targets, target versions, authority directory | request, approve, activate, end, restore, review, lend and use a privilege | grants and targets change between approval and activation; interventions overlap | many hands; a target in force is held; a privilege ends in time |

### Records

| Part | State | Operations | What is hard | What makes it correct |
| --- | --- | --- | --- | --- |
| Delegation service | delegations, snapshots | create, activate, suspend, revoke, expire, freeze | rules are checked at creation, not at activation | a vote is carried at most once, by whoever it was given to |
| Data plane (`application.py`, `outbox.py`, `delivery.py`) | versions, outbox, consumer checkpoint | execute, dispatch, deliver, rewind | lost, late, repeated deliveries | effects follow the versions |
| Ledger (finance `ledger.py`) | accounts, periods, journal, numbers | post, reverse, correct, close, reopen | commands prepared in one state of the books and executed in another | closed books stand |
| Reports (finance `reporting.py`) | snapshots, versions, findings, engagements | prepare, review, audit, approve, publish, correct | ids the caller chooses, decisions on figures replaced meanwhile | decisions stand on the figures they were made about |
| Retention (compliance `domain.py`) | policies, records, holds, authorizations | register, authorize, execute, hold, release | everything may change between authorization and execution | destruction is lawful when it happens |
| Payments (finance `application.py` 3249 to 3731) | claims, payment authorizations, reimbursements | submit, approve, authorize, settle | four acts over three stores, replaced under known ids, a settlement that stops half way | nothing is paid oftener than approved |
| Contributions (finance `application.py` 2441 to 2945) | contributions with their assessments | record, assess, decide, return | the aggregate of a giver's gifts changes between assessments | no two gifts are accepted past each other |
| Document service | documents, versions, reviews, approvals, authorizations, successions, evidence, bundles | register, record, review, approve, publish, supersede, revoke, dispose, cite | many stores written one after another, refusals in between, ids registered again | what is public or sealed went through its hands |
| Governance service | roles, policies, decisions, challenges | propose, approve, activate, supersede, challenge | saves before a refusal, supersession across kinds | one policy and one result in force |

Every `event_id` and most record ids are chosen by the caller, and most stores
overwrite what they hold under an id. That, and saves before a refusal, is
where most of the divergences of section 5 come from.

### The other services

Audit core (hash chain), identity (sessions, step-up, recovery), and record
keeping: account, membership, organization, initiative, deliberation,
moderation, transparency, AI processing, API closure. `PROJECT.json`
lists each with its status. Front end, scripts, contracts, infrastructure and
documents hold no state of their own.

## 2. Plan

| | Module | Composes | Status |
| --- | --- | --- | --- |
| 1 | `Acceptance` (abstract), `Casting` | `Casting` implements `Acceptance` | done, proved but for liveness |
| 2 | `ElectionResult` (abstract), `Publication` | `ElectionResult` extends `Acceptance`, `Publication` extends `Casting` and implements `ElectionResult` | done, proved |
| 3 | `CredentialDesk` (abstract), `VotingCredential` | `VotingCredential` implements `CredentialDesk` | done, proved |
| 4 | `AssertionIssuer` | its assertions are the nonces of `VotingCredential` | done, proved |
| 5 | `CommandFrame`, `PrivilegedAccess`, `GovernedSearch`, `DataExport`, `BreakGlass` | the frame is what the others run in | done, proved |
| 6 | `AuthorityDirectory`, `Interventions` | the second extends the first | done, proved |
| 7 | `AggregateLog` (abstract), `EventDelivery` | `EventDelivery` implements `AggregateLog` | done, proved |
| 8 | `Delegation`, `BallotBox`, `Governance`, `FinanceLedger`, `FinanceReports`, `FinancePayments`, `FinanceIncome`, `RecordDisposal`, `DocumentRegister` | | done, proved |
| 9 | `BoardTrees`, `Guardians` | | done, model-checked (recursive) |
| 10 | `MCAccess`, `MCRecords` | one component per behaviour | the instances of 4 to 9 |

Left, in the order of what it would add:

1. the credential lifecycle of the control plane (`credential_lifecycle.py`) on
   the same `AuthorityDirectory`, and the identity service's sessions, step-up
   and recovery;
2. the chain from eligibility to capability: `AssertionIssuer` composed with
   `VotingCredential` (one participation unit, at most one capability);
3. the audit core's hash chain, and the registers of the finance and compliance
   services that are left.

The assertion issuer has no abstract specification: a mint is two commits on
two databases, and a stop or a refusal between them is visible (finding 4), so
there is no single step it could look like. Its promises are invariants.

## 3. The modules and the code

### Acceptance and Casting

`Acceptance` says what a client may believe: a submission does nothing, or in
one step spends the entitlement, puts one new ballot in its box, gives it a
leaf its kind may use, answers the key and owes the publication.

`Casting` has one action per step of the two submissions:

| Code (`casting/transactions.py`) | Actions |
| --- | --- |
| `with store.transaction()` | `Begin`, `Commit`; `Rollback` in every refusal and in `Fault` |
| `_replay` | `Replay`, `Conflict` |
| capability look-up and entitlement check | `RefuseCapability`, `ValidateCapability` |
| proofs | `RefuseProofs`, `VerifyProofs` (the flag `valid` of a request) |
| duplicate check, `reserve_leaf` | `RefuseDuplicate`, `RefuseCapacity`, `ReserveLeaf` |
| persist, then consume (cast) / spend, then persist (challenge) | `PersistCast`, `ConsumeForCast` / `SpendPublicChallenge`, `PersistSpoiled` |
| `commit_reservation`, obligation and row, idempotency record | `CommitReservation`, `EnqueueObligation`, `RecordIdempotency` |
| `trip(...)` | `Fault`, in the six phases that follow a trip point |
| `dispatch_outbox` | `StartSweep`, `CrashBeforeMark`, `ReturnDispatched` |
| `Outbox.mark` in it | `FindRow`, `RowVanished`; then `MarkRow` in `Dispatch` or `CrashAfterMark`, `IndexPastEnd` |

The variables are the eight maps of `ReferenceStore`, the snapshot the
transaction took, the request that holds the lock, and the local state of each
sweep. Requests are serialised by the lock, so one `request` is enough; the
waiting ones have no state. Sweeps hold no lock and interleave with everything.
Ballots, capabilities and keys are model values; `BallotIdOf` gives two
envelopes one ballot id, which is how a duplicate or a changed retry arises. An
idempotency record is the envelope it was made for, because the request digest
binds the envelope and the answer is a function of it.

`Outbox.mark` finds a row in one step and writes the new one in another, by its
index, to whatever list `self.rows` is by then: a rollback has replaced the
list in between, or another submission has put its own row at that index
(finding 7), or the list is too short. What remains one step is what nobody
changes state in the middle of: the rollback's assignment of its eight maps, the
snapshot's copy under the lock, `pending()`'s scan, and `mark`'s scan, which is
placed at the moment it finds its row. Reservation ids and `slot_owner` are not scoped by election:
one store serves one election, as everywhere in the code.

### Publication

Extends `Casting` with the closing procedure of `testing/scenarios.py`
(`close_and_build`), the only caller of these functions in the repository, in
the order `docs/packs/PACK-16/PACK-16D-ELECTION-RECORD-BUILDER.md` prescribes.
`Gather` is the caller's list of ballots; `ReadReservations`, `SealCover`,
`Classify`, `SealLeaf` and `Sealed` are `seal_batch`, with the class test and
the look-up that follows as separate reads of the live store; `Publish`,
`PublishCheckpoint` and `Close` are the board's methods; `TallyAccepted` and
`Reconcile` are the record builder's. Submissions and sweeps continue during
all of it. Commitments, salts and roots are represented by the leaves they
hash. One batch is sealed. A step that raises ends in `"refused"`.

`ElectionResult` is `Acceptance` with an election that is called at one
instant: the roll is what clients had been answered by then, with leaves and
bytes; its casts are counted, and the record is the roll. `close_and_build`
gets the lists of ballots from its caller; `Gather` takes them from the store's
maps, which assumes that the caller lists no ballot twice (one listed twice
would be counted twice, and the comparison of `Reconcile`, one of sets of ids,
would not tell). The mapping takes
`Gather` for the call, the caller's lists with the leaves the store holds for
them for the roll, `tallied` for the count, and the opened leaves, once they
reconcile, for the record. Whatever the closing procedure reads between, leaf
by leaf and without the lock, is left out.

### VotingCredential

One action per access to the database. `LookUpKey`, `RedeemRead`, `RevokeRead`
and `Status` are the SELECTs, `Issue`, `Redeem`, `Revoke`, `RecordReplay`,
`SecondRedemption`, `RefuseSpentNonce` and `IssueTooLate` the writes a handler
makes before its commit (merged, since nobody else sees them), `Commit` the
commit and the answer, `RefuseUnread` whatever is refused before the database
is touched. Nothing rolls back on an exception (`api_contracts.py`,
`dispatch`), so `Raise` ends a request and leaves the connection as it is.

SQLite is external and is modelled from how the code uses it: `db` is the
committed database, `pending` the database as the holder of the write lock sees
it, `open` and `readers` say which connections are inside a transaction and
which hold a read lock in it. A write begins a transaction and takes the write
lock even if the row is refused; a commit needs every other read lock gone;
`Locked` is the busy timeout; `Crash` loses what is pending. A commit that
fails may also block new readers in SQLite; the model lets them read, which
only adds behaviours. Several connections are what the repository's own tests
use ("Each thread opens its own connection, so this is a real database race").

Ids and references are fresh random values in the code and the number of the
request here. Times arrive in the request (`now`, the terms), so a window or an
expiry is a flaw the request may have, not a clock.

`CredentialDesk` says what all this looks like to clients: a batch of requests
settles in one step, in which every new credential is paid for with a nonce of
its own, a key is answered once, a credential buys one capability, and what was
redeemed or revoked is not issued again. It is a batch because a commit
publishes what refused requests of the same connection left pending; redeemed
and revoked may still replace one another (finding 3). The mapping reads `db`,
so every step but `Commit` (and `LookUpKey`, which may answer again) is a
stutter.

### AssertionIssuer

`OpenCase` to `CommitClaim` are `open_case` and `mint_assertion`, with one
action for each write and each commit, over the eligibility database and the
issuer's; `AcceptHandoff` and `CommitHandoff` are the handoff, `FindPickup`,
`ConsumePickup`, `PickupTaken`, `DeliverAssertion` and `AssertionNotLive` the
pickup. `disk` and `draft` are the committed and the pending image of each
database, `writer` who holds its lock. `CommitRefused`, `IssuerCrash` and
`RequestLockedOut` are the faults. Nothing in `src/` writes pickups, so
`ProvisionPickup` is external.

### CommandFrame, PrivilegedAccess, GovernedSearch, DataExport, BreakGlass

`CommandFrame` is `_guard` and `_finish` (`application.py:642` and following):
the replay check, the command's own save, then an audit row and a publication
for each event, then the record of the command; `StopRun` stops a run between
any two of them. The others model each command as one action per outcome the
stores can show, and rely on the frame for replay. `PrivilegedAccess` has the
commands on requests, grants, reviews and sessions (`StartSessionHalf` and
`SealSessionHalf` stop between two saves); `GovernedSearch` the query, its
replay, policy changes and removals, beside a source that changes its mind
(`SourceDecides`); `DataExport` the eleven export commands and `BreakGlass` the
six of emergency access, each keeping what a refused command saved. A request
for an export is stored as the caller filed it, with any approver and any
disclosure assessment it names (`RequestDataExport`); `vouched` remembers which
exports were approved or filed that way.

### AuthorityDirectory, Interventions

`AuthorityDirectory` is the versioned directory of grants: `Holds` is `require`,
`Untouched` is `require` with an expected version, `AuthorityChanges` is
`update`. `Interventions` has one action per command of
`RegionalOperationsService`; `held` is what `_sessions` and `_authority_states`
say of the targets, `privileges` what was materialized, `moved` the targets
whose recorded version is no longer the one requested, and `Restart` the
checkpoint and its recovery, which forgets the versions. A moment before the
last one counts as that one (`_time`), so time only grows. The caller's word
about a newer conflict (`restore`) is taken to be true. One scope, one target
of each level, one kind of privilege.

### Delegation, EventDelivery, BallotBox

`Delegation` has the service's commands on the delegations of one scope, the
passing of days and `ResolveSnapshot`, whose outcome is a function of the
active delegations and of who voted directly. `EventDelivery` follows one
aggregate from `execute` over outbox and dispatcher to the consumer: the broker
may deliver whatever was published at any later time and as often as it likes
(`Consume`), an acknowledgement may be lost (`DispatchPending`, `Redispatch`
with `acknowledged` false), the checkpoint may be rewound (`Rewind`), and on a
leap day a command commits and is not remembered. `AggregateLog` is the same
without outbox, dispatcher and broker: a log of events, one to a version or
none, what the consumer was told of it, and what it applied; the mapping reads
the log off the outbox and takes the delivered evidence for what was told.
`BallotBox` is the voting
service around one ballot with its credentials.

### Governance, FinanceLedger, FinanceReports, RecordDisposal

One action per command; an action named `...Half` or `...Refused` is a command
that saves something and then refuses (`ActivateHalf`, `ReverseHalf`,
`PostAgainRefused`). Accounts have fixed postings (`Lines`) to one another;
content of reports is the snapshot it was computed from; a policy version of
`RecordDisposal` is its retention in days and whether it destroys content, and
a destruction compares the numbers of versions only. `RegisterRecord` stores
any record a caller may submit (`Submitted`: its state, revision, start of
retention and authorization included) over the one the id had,
`AuthorizeDestruction` writes over the authorization its id stood for, and
`ExecuteDestruction` stores the evidence before the record may refuse to be
destroyed. `standing` remembers which records were authorized since they were
last registered.
Each module models one scope or organization: the stores are keyed by it and
no command touches two.

### FinancePayments, FinanceIncome, DocumentRegister

One action per command, with the stores in the order the code saves them.
`FinancePayments` has submission, approval (`review` and `approve` are one
command), authorization for a claim or for any other payable, and settlement,
which saves the claim, then the reimbursement, then the authorization
(`SettleClaim` stops where a taken reimbursement id stops it). `audit` counts
the finished acts about a claim id, the only trace that survives its
replacement. `FinanceIncome` keeps of each gift its giver, its instant and its
last assessment; the window of an assessment is the caller's, the aggregate is
read from the store (`Aggregate`). `DocumentRegister` is one document: a
version's hash covers what never changes, so its number stands for it and the
sequence for the chain. `ApproveDocumentVersion` and `SupersedeVersion` store
their record and then move the version and the document only if the state
machine lets them. The kinds of review a registration requires are any set, the
empty one included, under which an approval may be stored before anybody
reviewed the version (`unreviewed`); `admitters` remembers whose call made a
version approved, which then need not be the approver on record.

### BoardTrees and Guardians

Pure algorithms, over data that a small state machine builds. `BoardTrees` has
the roots, the inclusion and consistency proofs and both verifications of
`crypto/merkle.py` as recursive operators; two boards of one election are fed
independently and the property compares what a reader of roots and proofs
concludes with the histories. A digest is the term it hashes. `Guardians` does
the code's arithmetic in the subgroup of order 5 modulo 11: a ceremony with a
guardian that may deal wrong shares, encryption, the homomorphic sum, shares,
Lagrange interpolation and the verifier's checks. A Chaum-Pedersen proof is
abstracted to the statement it proves.

## 4. Runs

| Run | Instance | Shows |
| --- | --- | --- |
| `Casting` | 2 capabilities, 3 envelopes over 2 ballot ids, 2 keys, a cast leaf and a shared leaf, 1 sweep, 2 submissions, 1 fault, 1 sweep failure | `Promise`: Casting implements Acceptance; the transaction is isolated (`InFlight`); effects follow the committed ballots (`EffectsMatchArtefacts`, `EveryObligationDispatched`) beside a sweep that finds and marks rows without the lock |
| `Publication` | the same with 3 submissions and without sweeps (they write outbox rows, which closing never reads), a batch of two leaves, closing once | the committed store is consistent: `EntitlementsPaid`, `OneLeafPerArtefact`, `ChallengesNeverStarveCasts`; `PublishesTheResult`: Publication implements ElectionResult; `ReturnedBallotsAreSealed`, `RecordStandsOnTheBoard` |
| `VotingCredential` | 2 workers, 2 nonces, 2 keys, 4 requests, 1 crash | `KeepsThePromise`: VotingCredential implements CredentialDesk; `NoDoubleCredential`, `OneCapabilityPerCredential`, `AnsweredMeansDurable` |
| `Access` | the components that hand out access, and documents, below | the properties below |
| `Records` | the components that keep records, below | the properties below |
| `CastingLostMark`, `PublicationClosure`, `VotingCredentialAbsorbing`, `AssertionIssuerCrash`, `BallotBoxTwice`, `GuardiansRecord`, `CastingLostRow` | smaller | findings 1 to 7 |

`MCAccess` and `MCRecords` put together modules that share no state here: the
variable `active` picks one of them in the initial state, and only that one
moves. TLC thus explores the sum of their state spaces in one run, and every
property is checked over the behaviours of its own component; the type
invariant of the run (`AccessTypeOK`, `RecordsTypeOK`) is that of the active
component.

| Component | Bounds | Property |
| --- | --- | --- |
| `AssertionIssuer` | 2 workers, 2 units, 1 pickup digest, 2 mints, 1 crash, 1 refused commit | `ClaimedMeansAssertion`, `AssertionsAreRationed`, `PickupsServeOnce` |
| `CommandFrame` | 2 event ids with 1 and 2 emissions, 2 tries each | `CommandsAreWhole` |
| `PrivilegedAccess` | 3 actors, 1 subject, 1 grant id, 2 session ids, 1 operation | `AccessLeavesEvidence` |
| `GovernedSearch` | 1 record, 2 readers, 1 query, 2 policy versions, 2 instants | `AnswersAreDueAndAudited` |
| `DataExport` | 3 officers, 1 export, 1 artifact read once, 2 hours | `ExportsWereApproved` |
| `BreakGlass` | 4 guards, 1 emergency, 2 requests | `EmergenciesAreGoverned` |
| `Interventions` | 5 people with 10 grants, 2 requests at a time, related levels only, 1 moment, 1 change of a grant or target, 7 steps | `InterventionsAreGoverned` |
| `DocumentRegister` | 3 actors, 2 versions, 2 registrations with a required review or none, 2 reviews, 1 piece of evidence, 1 bundle, 6 changes, related sidelines only | `DocumentsAreGoverned` |
| `Delegation` | 3 voters, 2 delegations, 1 day, 1 snapshot | `VotesAreCarriedOnce` |
| `EventDelivery` | 2 keys, 2 record ids, 3 versions, 2 attempts, 1 rewind | `DeliversItsLog` (implements `AggregateLog`) |
| `FinanceLedger` | 2 accounts, 2 periods, 2 intervals, 3 journal ids, 2 people, 7 commands, 3 numbers | `BooksStand` |
| `FinanceReports` | 2 versions, 2 snapshots, 1 engagement, 3 clerks with two roles each, 10 commands | `ReportsStandOnTheirFigures` |
| `FinancePayments` | 2 claims, 2 authorization ids, 1 reimbursement id, 3 people, 2 submissions, 1 other payable | `PaymentsFollowApprovals` |
| `FinanceIncome` | 2 contribution ids, 2 givers and an unknown one, 2 instants, 3 receipts | `NoGiftEscapesTheAggregate` |
| `RecordDisposal` | 2 records, 1 hold, 1 authorization id, 2 policy versions with a retention of 1 day, 1 day that passes, 3 records to submit (a fresh one, one that carries an authorization and is active, one that is authorized already), 3 revisions, related parts only | `DisposalIsLawful` |
| `BallotBox` | 2 staff, 1 option, 1 credential, 2 snapshots, 2 hours, 3 votes | `VotesAreNotLost` |
| `Governance` | 6 roles of 2 holders, 2 policies, 2 decisions, 1 challenge, 5 commands | `OneInForce` |
| `BoardTrees` | 2 boards, 2 payloads, every pair of sizes up to 7 | `ProofsTellHistories` |
| `Guardians` | 3 guardians, quorum 2, order 5 modulo 11, 2 coefficients, 2 nonces, 2 ballots, every list of up to 3 shares | `EveryQuorumOpensTheSum` |

Bounds. Constants named `Max...` cap counters only; every other constant is the
size of a set. In `Publication`, three submissions are an accepted one, a
conflicting or retried one and one that faults; two capabilities and two leaves
let capacity, duplicate and entitlement refusals all occur; a ballot id with
two envelopes gives changed retries. In `Casting`, two submissions are the one
that faults after its enqueue and the one that takes its place in the outbox. In `VotingCredential`, two workers and four
requests give an issuance followed by two racing redemptions and a revocation;
five requests (2.6 million states) pass as well. Where a store is keyed by ids
the caller chooses, one or two ids are enough for every reuse. Seven entries
cover every shape of a tree on both sides of a power of two. Seven steps of
`Interventions` are two overlapping quarantines of which one is revoked, or a
supervision approved, activated, lent, used after its moment: the shortest
behaviours in which its four parts can go wrong. A behaviour of
`DocumentRegister` adds to the life of one version one sideline (a second
version, a second review, a hold, a revocation, evidence, another registration,
an approval without required reviews) or two that meet (`RelatedSidelines` in
`MCAccess`); all pairs of sidelines, on the module alone, pass as well. A
behaviour of `RecordDisposal` has at most two of a second record, a hold and a
second policy version (`RelatedDisposals` in `MCRecords`); all three together,
on the module alone, pass as well (468,298 states). The nonces of `Guardians` sum
to 0 modulo the order, so that the degenerate ciphertext occurs. The theorems
cover all other sizes where there are theorems.

The runs set `CHECK_DEADLOCK FALSE` because the counters run out: the systems
serve requests and have no final state to reach. Symmetry is used over sets
whose elements the modules never tell apart, and in no run with a liveness
property. In `MCAccess` and `MCRecords` the model values of one symmetry set
serve several components, each of which treats its own alike.

Fairness (`FairSpec`): weak fairness of the step of the transaction that holds
the lock, since nothing in it blocks, and of each sweep, since a publication
worker calls `dispatch_outbox` again and again. Submissions and faults have no
fairness. A sweep failure is bounded by `MaxCrashes`: a worker that always
dies would publish nothing, in the code as in the model. What is owed is
dispatched unless a rolled-back transaction has cost it its row (`RowLost`,
finding 7), which no amount of sweeping brings back. The other modules
claim no liveness: their commands come from callers the code does not schedule,
and an idle connection of `VotingCredential` may hold the write lock for ever.

## 5. Findings

Each of these runs checks one statement of the repository's own texts and finds
it violated by what the code does; `PROJECT.json` quotes both.

1. `CastingLostMark`: a sweep that fails between the mark and the append leaves
   a DISPATCHED row nobody was handed; the docstring says it stays PENDING.
2. `PublicationClosure`: nothing stops a submission after its batch was read;
   RB-45 says closure fixes the tallied set.
3. `VotingCredentialAbsorbing`: a revocation overwrites a redemption another
   connection committed after the revocation read the row.
4. `AssertionIssuerCrash`: a worker that ends between the two commits of a mint
   leaves an assertion without its claim, and the retry mints a second one.
5. `BallotBoxTwice`: two votes of one credential, both received before either
   is validated, are both validated.
6. `GuardiansRecord`: a record whose published plaintext is not what its own
   decryption shares combine to passes the verifier.
7. `CastingLostRow`*: a sweep held inside `mark` while the transaction whose row
   it found rolls back and another commits its own at that index overwrites the
   committed row: that obligation is never dispatched, and the concurrency
   matrix says none is ever lost.

Divergences met while modelling that have no run of their own. Those marked *
were confirmed by executing the code, the others by reading it; the models take
the code's side of each of them where they cover it.

Reference voting service

- Two sweeps beside each other hand over one obligation twice
  (`docs` and `test_concurrency.py:320` say otherwise), and a sweep beside a
  submission hands over an obligation that is then rolled back
  (`FAULT-INJECTION-MATRIX` FI-11).
- `get_publication_state` says `included` before the opening is published
  (`reference/api.py:134`).
- An issuance whose constructor raises has spent its nonce, which the
  connection's next commit makes final ("A partial issuance must not exist.",
  `test_pack15_persistence.py:194`).
- After a write refused as locked, an idle worker may keep its transaction and
  its shared lock; with a waiting writer, commits fail until a restart.
- The verifier accepts a record without its threshold shares* (RV-93 of
  `PACK-16D-REFERENCE-VERIFIER.md:208`); a joint key equal to the identity is
  not refused.

Voting, credential and delegation services

- `validate_credential` looks at neither `valid_from` nor the credential's
  type; a retry of `cast_vote` after the validation raises where its docstring
  says no-op.
- Suspending and unsuspending gives two competing active delegations
  (`domain.py:128` leaves `suspended` out of the blocking states, README.md:46
  "Enforced in storage.py"); drafts A to B and B to C, both activated, make a
  chain (ADR-009:117 "depth 1"); `unsuspend_delegation` accepts drafts and past
  dates; delegations past `valid_until` count until somebody expires them.

Data plane

- On the 29th of February a command commits and its key is not remembered
  (`application.py:354` builds the date a year later), so that a retry is
  performed again; the docstring at 246 says "a replay returns the first result
  without re-performing the effect".
- `commit` moves the version before `outbox.append` may refuse a taken record
  id ("Apply both, or neither", `storage.py:376`): the gap is refused for ever.
- After a rewind, seen events are suppressed without moving the checkpoint, so
  the next new event is a gap for ever. A published record without an
  acknowledgement cannot be dispatched again by `dispatch_pending`, and an
  unreachable broker never counts as an attempt. The consumer's memory of seen
  events does not survive its process.

Privileged access

- `approve` and `deny` overwrite the stored grant, history included
  (`access.py:184` "append-only"); an approver who is not in the list of
  approvers may review; a denied query replayed later raises a conflict instead
  of the denial (`application.py:2665`).
- A cached decision is shown after the source withdrew it
  (`PACK-12-SPECIFICATION.md:448`); `generate_export_artifact` replaces an
  artifact before it is refused, which restarts the count of accesses;
  `revoke_data_export` without an artifact id leaves the artifact accessible; a
  refused re-assessment replaces the record after the approval.
- `request_data_export` stores the caller's approver and disclosure assessment
  (`export.py:456`). `generate_export_artifact` asks for a named approver and
  saves the artifact (`application.py:3668`) before the state machine refuses an
  export nobody approved; `access_export_artifact` then serves it, since it asks
  for the artifact only. A disclosure assessment named by the caller also lets
  `approve_data_export` pass without one recorded.
- A replay of an activation whose notification failed answers success; the
  activation window is not checked; `request_break_glass` overwrites its id.

Control plane

- `regional_operations.py`: the idempotency key is remembered before the
  checks, so that a refused `approve`, `activate` or `revoke` retried under its
  key is answered as done; `request_intervention` replaces an active or ended
  request under its id; its `not_before` moves the service's time
  (`_time(not_before)`), so that asking for a later intervention ends the
  present ones; revoking leaves the lent privilege in use until its end; a
  quarantine outlasts its expiry until it is restored
  (FIR-GOV-004 "temporary intervention has a hard expiry"); a checkpoint drops
  target versions and keys; a suspended authority is not consulted by the
  directory; the principal of a privilege may approve it; a restriction whose
  target is a principal may be materialized as a privilege.
- `credential_lifecycle.py`: an activated break-glass case that expires can
  never be reviewed (`expire_due` at 1398; the register asks for a "mandatory
  post-use review"); ACTIVATE and ROTATE accept objects in any state;
  containing a compromise does not end sessions; the key of `execute` ignores
  the payload; approvals of secret access are unchecked strings.

Finance, compliance, governance

- Posting an entry again burns a number* ("allocated **last**, after every
  check has passed", `application.py:1726`); a reversal under a taken id marks
  the original reversed and is then refused*; posting to a closed account
  succeeds*; opening a period under a known id with another interval replaces a
  closed one*; a replay of `create_finance_account` or `settle_payment` is
  refused.
- `authorize_payment` under a known id replaces an executed or a bound
  authorization (a claim may then stay `payment_authorized` for ever);
  `submit_expense_claim` and `record_contribution` replace a settled claim and
  a receipt that is said to be created once; `settle_payment` with a taken
  reimbursement id leaves the claim settled and its authorization open; a
  claim submitted again may be settled on the authorization of the one before
  it, by the person who authorized its own.
- An auditor who is also organizational administrator may audit and then
  approve one version (docstring of `record_auditor_review`);
  `create_corrected_report_version` under a known successor id replaces even a
  published version; `open_audit_engagement` replaces a concluded engagement; a
  version corrected before it was prepared cannot be superseded.
- `record_retention_start` on an authorized record leaves a stale authorization
  that cannot be renewed until a policy change; `place_legal_hold` and
  `register_governed_record` replace active holds and destroyed records.
- `execute_destruction` never compares `authorization.record_id` with the record
  (`application.py:1012` to 1048; the docstring asks for "a matching, non-stale
  DestructionAuthorization"). A record whose stale authorization's id was used
  again for another record of its revision is destroyed under that one, due or
  not*. `register_governed_record` stores whatever state, revision and
  authorization the caller's record has: registered as `disposal_authorized`
  under a known authorization of its revision, a record is destroyed without a
  retention start*; registered as active, it keeps evidence of a destruction
  that was then refused*.
- Activating a superseded governance policy supersedes the active one before it
  refuses, leaving none; a decision is saved as approved before the transition
  of its challenge may refuse; the kind of a superseded decision is not
  compared; a role's activation does not look at its granter again.
- `register_document` under a known id starts over beside the old versions:
  holds, retention and the count of versions are forgotten, and the document
  may be closed with versions it does not count; `record_version` then stores a
  version and refuses. `approve_version` and `supersede_version` keep the
  record of a refused command, so that a version may be named superseded and
  never become it; a supersession may move the current version to a superseded
  one and a revocation moves it nowhere; registering evidence again restarts
  its chain of custody; a registration with an empty list of required reviews
  lets a draft be approved before anybody reviews it, and its approver review it
  afterwards: the record is stored (`application.py:1122`) before the draft
  refuses to become approved, and a later call of somebody else makes it
  approved while the record keeps the first one's name.
- Identity: a recovery case without a cooling-off period can only be assessed
  again; `assert_action_permitted` takes the caller's word for the step-up.

## 6. Proofs

All proofs hold for every value of the constants that satisfies the named
assumptions of the modules: the sets are arbitrary (finite or not, except where
an assumption says so), the reserves and bounds natural numbers, `None` outside
the sets it stands beside. `PROJECT.json` lists the 57 theorems a reader should
know. Every component but two has its type invariant and its safety property
proved; each proof module that covers several components treats them apart,
because they share no state.

| Module | About |
| --- | --- |
| `CastingProofs`, `PublicationProofs` | the casting boundary and the closing scenario over it |
| `VotingCredentialProofs`, `AssertionIssuerProofs` | the two issuers |
| `AccessProofs` | `CommandFrame`, `BreakGlass`, `DataExport`, `PrivilegedAccess`, `GovernedSearch` |
| `ControlProofs` | `Interventions` with `AuthorityDirectory`, `DocumentRegister` |
| `RecordsProofs` | `EventDelivery`, `Delegation`, `BallotBox`, `Governance` |
| `FinanceProofs` | `FinancePayments`, `FinanceIncome`, `FinanceLedger`, `FinanceReports`, `RecordDisposal` |

### Casting and publication

- `TypeCorrect`: `TypeOK` is inductive.
- `TransactionIsolated`: `InFlight` holds always. It says that the transaction
  in flight has written exactly what its phase says over its snapshot
  (`WritesSoFar`) and that what its checks found is still true of the snapshot
  (`ChecksHold`). It is inductive together with `TypeOK`, because nobody but the
  lock's holder writes anything but outbox rows. The invariants
  of the committed store below all rest on it: it gives the store a commit
  produces as the snapshot with exactly one submission's writes (`Adds`), so
  that each of them is one lemma about adding one ballot to a store.
- `LeavesAreExclusive` (`OneLeafPerArtefact`) needs the stronger link between
  artefacts, reservations, keys and leaves that `Coherent` states.
- `AllIsPaidFor` (`EntitlementsPaid`) follows the counts: a cast adds one
  artefact and consumes one capability that was not, a challenge adds one and
  spends one that was left.
- `CastsHaveTheirLeaves` (`ChallengesNeverStarveCasts`): the leaves a challenge
  may not take lie in the range of leaf numbers, and a cast that found none
  left found each of them held by a cast (`CastsFillTheirLeaves`, an injection
  from leaves to reservations).
- `EffectsFollowArtefacts` (`EffectsMatchArtefacts`): a sweep may write any
  dispatched row over any other, but adds none and makes none pending
  (`MarkedByOne`), so that the outbox in flight is the snapshot's with at most
  one row more and some rows marked (`OutboxInFlight`), and whatever is pending
  is where its transaction put it (`PendingAmong`). That every row still names
  its artefact holds while no transaction has failed (`FoundInPlace`), and the
  property claims no more.
- `ImplementsAcceptance`: `Promise`. The refinement mapping reads the committed
  store (the snapshot while a transaction runs), so every step but `Commit` is a
  stutter, and `Commit` is `Accept`; `InFlight` supplies its guard and effect.
- `PublicationTypeCorrect`, and `RecordStands` (`RecordStandsOnTheBoard`) by an
  invariant that ties the position in the closing sequence to the entries on
  the board. The closing procedure leaves the store alone, so the invariants of
  `Casting` carry over.
- `ReturnedAreSealed` (`ReturnedBallotsAreSealed`): sealing reads a live store
  without its lock. `SealInv` says why that is enough for what was listed: the
  committed store only grows (`CommittedGrows`), so that a listed ballot keeps
  its bytes, its leaf and its class through every read.
- `CountIsExact` (`CountIsExactAndPaidFor`): the record compares three numbers
  only. That equal numbers mean equal sets follows because the sealed leaves
  map onto the ballots seen: a surjection between finite sets of one size is an
  injection, and a subset of a finite set's size is the set. The invariant
  itself is no longer checked by a run: the record part is implied by the next.
- `ImplementsTheResult`: `PublishesTheResult`. Steps of submissions map to
  `Acceptance`'s as before, and leave the roll alone because committed
  reservations stay (`HeldStay`). `Gather` is the call: in a coherent store the
  ballots of the two boxes are the answers of the keys, one to one
  (`AnsweredIsListed`). `Reconcile` is the conclusion: what was read from a
  transaction that rolled back belongs to no listed ballot (`SeenIsHeld`,
  `LeafHeld`), so a leaf that survives the comparison is the ballot's own
  (`RecordedIsRolled`).

### The issuers

- `VotingCredentialProofs`: `TypeCorrect` (`TypeOK` includes that the write
  lock is held from inside a transaction and that `pending` exists exactly with
  it), `AnswersAreDurable`, `OneRedemption`, `RedemptionIsAtomic` and
  `CredentialsAreRationed` (`NoDoubleCredential`). None is inductive: a later
  commit may publish writes an earlier, refused request left pending. `IInv`
  therefore states what holds of every image of the database, committed or
  pending (`Images`), that the ids of requests not yet written are unused in
  both (`FreshIds`), and what a request relies on between its read, its write
  and its commit (`JobsOK`); `Rationed` states the counts of credentials
  and nonces of every image likewise.
- `ImplementsTheDesk` (`KeepsThePromise`): `Accounts` says that what is pending
  is a batch over what is committed, paid for with an injective choice of
  nonces, and `Unredeemed` that a redemption that waits for its commit is not in
  the database yet; a commit then is one step of the desk.
  `RedeemedMeansRedemption`, which the refinement implies, remains as a theorem.
- `AssertionIssuerProofs`: `TypeCorrect`, `PickupsServe`, `ClaimsHaveAssertions`
  and `LocksComeBack`. What a draft has beyond its disk was written by the one
  worker that holds the lock (`DraftsGrow`), and that worker's task says what it
  may be (`Worker`); a consumption of a dead assertion, whose refusal leaves it
  pending, is the one exception (`ConsumptionPending`). A refused commit is the
  one fault that may break `ClaimedMeansAssertion`, and the property says so.
  `MintsAreRationed` (`AssertionsAreRationed`) needs a `Budget`: a unit that is
  neither claimed on disk nor being minted has one assertion fewer to its name
  than the losses allow, so the next one is paid for.

### Access, interventions and documents

- `CommandsStayWhole` (`CommandsAreWhole`), from one assertion per event id
  that ties the stage of its run to what the run has written.
- `EmergenciesAreLawful`: `Governed` counts approvals that are not yet used up
  beside the openings. `ExportsAreApproved` (`ExportsWereApproved`): an
  artifact is saved before the state machine is asked, so the state of an export
  does not protect it; the invariant follows the approver on its record instead,
  who is named by an approval or by whoever filed it (`ArtifactsHaveVouchers`),
  and whom only an approval leaves behind in an export past its approval.
- `EvidenceIsLeft` (`AccessLeavesEvidence`): the history of each grant goes one
  way (every transition raises a rank), which is what makes an ended grant stay
  ended; the chain grows at its end only, so a sealed session keeps its link.
- `SearchAnswersAreDue` (`AnswersAreDueAndAudited`): what a cache entry holds
  was open to its reader at some time and admitted by the policy version in its
  key (`DecisionsInContext`), which is as much as the code promises; and
  nothing is delivered of a query before its audit, row and record.
- `InterventionsStayGoverned` (`InterventionsAreGoverned`): approvals are by
  different people, who are not the requester, so that there are as many people
  as approvals (`ApproversCounted`, a bijection) and the quorum of a request
  still stands when its grants are looked at again; activation is the only step
  that takes force. `InterventionTypeCorrect` and `ManyHands` beside it.
- `DocumentsStayGoverned` (`DocumentsAreGoverned`): the state of a version says
  little, since refused commands leave records behind. The invariant follows
  the records: a version with an approval never is in review again, hence gets
  no review more, and what its approver found about reviews and blocking
  findings still holds, unless it was given when no review was required; then
  the call that made the version approved is followed instead (`admitters`).
  Approvals and authorizations are written once, and a citable version has its
  approval whatever the document forgot.

### Records and money

- `EffectivelyOnce` (`EffectsFollowTheVersions`, which no run checks apart from
  `DeliversItsLog`): the consumer's effects are 1, ..., n and its checkpoint
  never stands past n, so an event that is next in order is n + 1 or one it has
  seen. `ImplementsTheLog` (`DeliversItsLog`) rests on it: an event the
  consumer takes is the next one of the abstract log; a
  command is a logged or an unlogged step of it, and the dispatcher, the broker
  and rewinds are steps that tell or stutter.
- `EveryVoteCarriedOnce` (`VotesAreCarriedOnce`): what a voter carries is the
  votes of a set of voters and no two voters carry the same one (`CarriedBy`),
  so that the votes granted inject into the voters who delegate and are not
  left out (`GrantedFit`), and a voter who is left out carries nothing.
- `NoVoteIsLost` (`VotesAreNotLost`) and `OnePolicyInForce` (`OneInForce`): the
  second needs that versions rise, that the policy in force is the only active
  one, and that a challenge is resolved as its decision says.
- `ClaimsArePaidAsApproved` (`PaymentsFollowApprovals`): the payments executed
  for a claim are never more than its settlements, which are never more than
  its authorizations, approvals and submissions (`ActsInOrder`, `PaidOut`).
- `GiftsAreAggregated` (`NoGiftEscapesTheAggregate`): of two assessed gifts the
  later assessment saw the other, since a gift recorded again loses its own.
- `TheBooksStand` (`BooksStand`), an action property with two invariants: the
  steps keep posted entries and closed periods because every command looks at
  the books of the moment it is executed in.
- `ReportsStand` (`ReportsStandOnTheirFigures`): a version carries the decisions
  of the states behind it and none of the states ahead (`VersionStands`).
- `DestructionIsLawful` (`DisposalIsLawful`): an authorization of the record's
  own that nothing has overtaken (its revision is the record's) still has its
  grounds (`AuthorizationHolds`, `Speaks`), so the check of the revision at
  execution is enough for a record that goes by it. For one that goes by another
  record's authorization, or by one older than its registration, the theorem
  claims what the code checks anew: holds, policy version and first evidence.

### Checked by TLC only

- Liveness: `EveryObligationDispatched`. The prover has no support for fairness
  and ENABLED.
- `ProofsTellHistories` and `EveryQuorumOpensTheSum`: `BoardTrees` and
  `Guardians` are recursive algorithms, and what they compute for every input
  needs induction over data, which the installed provers cannot do. Their
  types stay with TLC for the same reason, since no theorem can stand in a
  module that reaches a RECURSIVE operator.
- `AccessTypeOK` and `RecordsTypeOK` as such, which speak of the composition the
  runs use; the type invariant of every component they join, except those two,
  is a theorem.
- The bound on the changes of all grants together (`Changes` in
  `AuthorityDirectory`), a sum over a set by a recursive fold. No proof
  depends on it.

## 7. Not modelled

Cryptography is outside TLC's reach: a ballot's proofs are valid or not, a
commitment is what it commits to, a hash is injective, a proof is sound. Events,
logging, schemas and message texts have no effect on state.
`release_reservation` and `record_replay` have no caller. The fault hooks of
`append` and `publish_checkpoint` are not used by any caller in the repository.

- Signatures and signer rotation of checkpoints, the salts of sealing, the
  canonical form of the record: data the properties do not tell apart.
- The tally service, eligibility register, membership, organization, account,
  initiative, deliberation, moderation, transparency, AI and closure services:
  registers with a state per record and commands that touch one record, behind
  the frame that `CommandFrame` models.
- In the finance service sponsorships, in-kind benefits, obligations, imports,
  transfers, assets and statements; in the document service determinations of
  signatures and admissibility, content and projections; in the compliance service processing activities, cases and
  notices; in the data plane schema registry, migrations, backfill and
  projections: registers beside the parts that are modelled.
- The consoles and request policy of the control plane render and decide
  without state; its credential lifecycle and the identity service were read
  (section 5) and are left to the plan.
- Several scopes, organizations or elections in one store: stores are keyed by
  them and no command touches two.

`PROJECT.json` lists every component with its status and its reason.
