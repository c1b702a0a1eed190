------------------------------ MODULE Casting ------------------------------
(***************************************************************************)
(* The acceptance boundary of the voting service's reference               *)
(* implementation (casting/transactions.py over casting/store.py) and the  *)
(* outbox sweep that follows it.                                           *)
(*                                                                         *)
(* Submissions from any number of clients are serialised by the store's    *)
(* lock: `request` is the submission that holds it, `phase` how far its    *)
(* transaction has come, `snapshot` what the transaction saved on entry.   *)
(* A refusal or a fault restores the snapshot.  dispatch_outbox takes no   *)
(* lock: its steps interleave with those of the transaction in flight.     *)
(***************************************************************************)
EXTENDS Integers, Sequences, FiniteSets

CONSTANTS
    Capabilities,       \* continuation capabilities the store knows
    Unknown,            \* a capability reference it does not know
    Envelopes,          \* encrypted ballots; the request digest binds one
    BallotIds,          \* public ballot identifiers
    BallotIdOf,         \* [Envelopes -> BallotIds], the envelope's ballot_id
    Keys,               \* idempotency keys
    Batches,            \* batch sequence numbers of the running windows
    CastReserved,       \* CapacityPlan.cast_reserved_per_batch
    ChallengeReserved,  \* CapacityPlan.challenge_reserved_per_batch
    SharedReserve,      \* CapacityPlan.shared_reserve_per_batch
    Dispatchers,        \* callers of dispatch_outbox
    MaxRequests,        \* bound: submissions entering the transaction
    MaxFaults,          \* bound: faults raised inside transactions
    MaxCrashes,         \* bound: faults raised inside sweeps
    None                \* "no value"

ASSUME CastingAssumption ==
    /\ BallotIdOf \in [Envelopes -> BallotIds]
    /\ Unknown \notin Capabilities
    /\ CastReserved \in Nat /\ ChallengeReserved \in Nat /\ SharedReserve \in Nat
    /\ MaxRequests \in Nat /\ MaxFaults \in Nat /\ MaxCrashes \in Nat

(* The maps of ReferenceStore.                                             *)
VARIABLES
    continuations,  \* capability reference -> what it is still good for
    idempotency,    \* scope -> the envelope the key was answered for
    accepted,       \* ballot id -> the ballot as it will be counted
    spoiled,        \* ballot id -> the ballot as it was challenged
    reservations,   \* reservation id -> the leaf it holds
    slotOwner,      \* leaf -> the reservation that holds it
    obligations,    \* the publications that are owed
    outbox          \* their rows, in the order they were enqueued

VARIABLES
    snapshot,   \* the store as it was when the transaction took the lock
    request,    \* the submission holding the lock, or None
    phase,      \* the last step its transaction has taken
    sweep,      \* [Dispatchers -> the local state of dispatch_outbox]
    delivered,  \* obligations a sweep has returned to its caller
    requests, faults, crashes   \* the counters behind the three bounds

ballotVars == <<accepted, spoiled>>
leafVars == <<reservations, slotOwner>>
owedVars == <<obligations, outbox>>
storeVars == <<continuations, idempotency, ballotVars, leafVars, owedVars>>
txVars == <<snapshot, request, phase>>
sweepVars == <<sweep, delivered>>
vars == <<storeVars, txVars, sweepVars, requests, faults, crashes>>

-----------------------------------------------------------------------------
(* Data *)

Ops == {"cast", "challenge"}

(* An idempotency scope is (operation, key); the reservation id a          *)
(* submission uses is "res-<op>-<key>", so the two sets coincide.          *)
Scopes == Ops \X Keys

(* "obl-cast-<ballot>" and "obl-chal-<ballot>".                            *)
Obligations == Ops \X BallotIds

Leaves == 0 .. (CastReserved + ChallengeReserved + SharedReserve - 1)

Requests == [op : Ops, cap : Capabilities \cup {Unknown}, env : Envelopes,
             key : Keys, batch : Batches, valid : BOOLEAN]

ContinuationState == [cast : BOOLEAN, challenge : BOOLEAN, consumed : BOOLEAN]

LeafReservation == [batch : Batches, leaf : Leaves, ref : BallotIds, committed : BOOLEAN]

ASSUME NoneAssumption ==
    /\ None \notin Envelopes /\ None \notin Ops /\ None \notin BallotIds
    /\ None \notin Scopes /\ None \notin LeafReservation
    /\ None \notin Batches \X Leaves

Row == [id : Obligations, state : {"pending", "dispatched"}]

ReferenceStore ==
    [continuations : [Capabilities -> ContinuationState],
     idempotency   : [Scopes -> Envelopes \cup {None}],
     accepted      : [BallotIds -> Envelopes \cup {None}],
     spoiled       : [BallotIds -> Envelopes \cup {None}],
     reservations  : [Scopes -> LeafReservation \cup {None}],
     slotOwner     : [Batches \X Leaves -> Scopes \cup {None}],
     obligations   : SUBSET Obligations,
     outbox        : Seq(Row)]

FreshCapability == [cast |-> TRUE, challenge |-> TRUE, consumed |-> FALSE]

(* What store.transaction() copies on entry.                               *)
Store ==
    [continuations |-> continuations, idempotency |-> idempotency,
     accepted |-> accepted, spoiled |-> spoiled,
     reservations |-> reservations, slotOwner |-> slotOwner,
     obligations |-> obligations, outbox |-> outbox]

Resting == [active |-> FALSE, todo |-> {}, row |-> None, done |-> {}]

(* `todo` is what pending() returned and has not been marked yet, `row`    *)
(* what mark has found and not yet replaced, `done` the list to return.    *)
SweepState == [active : BOOLEAN, todo : SUBSET Obligations,
               row : {None} \cup [index : Nat \ {0}, id : Obligations],
               done : SUBSET Obligations]

(* The phases of a transaction, in the order both submissions take them.   *)
(* "first" and "second" are the two entitlement/artefact mutations, which  *)
(* a cast and a challenge perform in opposite orders.                      *)
Phases == {"idle", "locked", "validated", "verified", "reserved", "first",
           "second", "leafCommitted", "enqueued", "recorded"}

(* trip(fault_hook, ...) is called on reaching these.                      *)
TripPoints == {"validated", "verified", "reserved", "first", "second", "recorded"}

(* Shorthands for the request that holds the lock.                         *)
Id == BallotIdOf[request.env]
Scope == <<request.op, request.key>>
Obligation == <<request.op, Id>>

(* Mutant of CandidateSlots: challenges may take any leaf.                 *)
CandidateSlotsUnbounded(op) ==
    LET own == IF op = "cast" THEN {} ELSE CastReserved .. (CastReserved + ChallengeReserved - 1)
    IN  own \cup (0 .. (CastReserved - 1)) \cup
        ((CastReserved + ChallengeReserved) ..
         (CastReserved + ChallengeReserved + SharedReserve - 1))

(* _candidate_slots: a class's own leaves, then the shared reserve, never  *)
(* the other class's.                                                      *)
CandidateSlots(op) ==
    LET shared == (CastReserved + ChallengeReserved) ..
                  (CastReserved + ChallengeReserved + SharedReserve - 1)
    IN  shared \cup IF op = "cast"
                    THEN 0 .. (CastReserved - 1)
                    ELSE CastReserved .. (CastReserved + ChallengeReserved - 1)

(* Mutant of FreeSlots: the owner of a leaf is not looked at.              *)
FreeSlotsUnchecked(op, n) == CandidateSlots(op)

FreeSlots(op, n) == {l \in CandidateSlots(op) : slotOwner[<<n, l>>] = None}

(* Mutant of FirstFree: the leaf after the one that was found free.        *)
FirstFreeOffByOne(op, n) ==
    1 + CHOOSE l \in FreeSlots(op, n) : \A m \in FreeSlots(op, n) : l <= m

(* reserve_leaf takes the first free candidate.                            *)
FirstFree(op, n) ==
    CHOOSE l \in FreeSlots(op, n) : \A m \in FreeSlots(op, n) : l <= m

HasRow(rows, id) == \E i \in DOMAIN rows : rows[i].id = id

(* Outbox.mark takes the first row that carries the id.                    *)
RowOf(rows, id) ==
    CHOOSE i \in DOMAIN rows :
        rows[i].id = id /\ \A j \in 1 .. (i - 1) : rows[j].id # id

(* Mutant of Pending: a high-water mark in place of each row's own state.  *)
PendingPastHighWater(rows) ==
    {rows[i].id : i \in {j \in DOMAIN rows :
        \A k \in j .. Len(rows) : rows[k].state = "pending"}}

Pending(rows) == {rows[i].id : i \in {j \in DOMAIN rows : rows[j].state = "pending"}}

(* Mutant of Published: only the challenged ballots are looked at.         *)
PublishedIfSpoiled(b) == spoiled[b] # None

(* An artefact under either map makes the ballot id a duplicate.           *)
Published(b) == accepted[b] # None \/ spoiled[b] # None
-----------------------------------------------------------------------------
(* The transaction *)

Init ==
    /\ continuations = [c \in Capabilities |-> FreshCapability]
    /\ idempotency = [s \in Scopes |-> None]
    /\ accepted = [b \in BallotIds |-> None]
    /\ spoiled = [b \in BallotIds |-> None]
    /\ reservations = [s \in Scopes |-> None]
    /\ slotOwner = [l \in Batches \X Leaves |-> None]
    /\ obligations = {}
    /\ outbox = <<>>
    /\ snapshot = None
    /\ request = None
    /\ phase = "idle"
    /\ sweep = [d \in Dispatchers |-> Resting]
    /\ delivered = {}
    /\ requests = 0 /\ faults = 0 /\ crashes = 0

(* A submission enters `with store.transaction()`.                         *)
Begin(r) ==
    /\ phase = "idle"
    /\ requests < MaxRequests
    /\ requests' = requests + 1
    /\ request' = r
    /\ snapshot' = Store
    /\ phase' = "locked"
    /\ UNCHANGED <<storeVars, sweepVars, faults, crashes>>

(* Leaving the `with` block, normally or by an exception.                  *)
Leave ==
    /\ request' = None
    /\ snapshot' = None
    /\ phase' = "idle"

(* Mutants of Rollback: a map the snapshot was not made of.                *)
RollbackButSlots ==
    /\ continuations' = snapshot.continuations
    /\ idempotency' = snapshot.idempotency
    /\ accepted' = snapshot.accepted
    /\ spoiled' = snapshot.spoiled
    /\ reservations' = snapshot.reservations
    /\ slotOwner' = slotOwner
    /\ obligations' = snapshot.obligations
    /\ outbox' = snapshot.outbox
    /\ Leave
    /\ UNCHANGED <<sweepVars, requests, crashes>>

RollbackButOutbox ==
    /\ continuations' = snapshot.continuations
    /\ idempotency' = snapshot.idempotency
    /\ accepted' = snapshot.accepted
    /\ spoiled' = snapshot.spoiled
    /\ reservations' = snapshot.reservations
    /\ slotOwner' = snapshot.slotOwner
    /\ obligations' = snapshot.obligations
    /\ outbox' = outbox
    /\ Leave
    /\ UNCHANGED <<sweepVars, requests, crashes>>

Rollback ==
    /\ continuations' = snapshot.continuations
    /\ idempotency' = snapshot.idempotency
    /\ accepted' = snapshot.accepted
    /\ spoiled' = snapshot.spoiled
    /\ reservations' = snapshot.reservations
    /\ slotOwner' = snapshot.slotOwner
    /\ obligations' = snapshot.obligations
    /\ outbox' = snapshot.outbox
    /\ Leave
    /\ UNCHANGED <<sweepVars, requests, crashes>>

Step(from, to) ==
    /\ phase = from
    /\ phase' = to
    /\ UNCHANGED <<snapshot, request, sweepVars, requests, faults, crashes>>

(* _replay: the same key and the same request return the stored outcome.   *)
Replay ==
    /\ phase = "locked"
    /\ idempotency[Scope] = request.env
    /\ Leave
    /\ UNCHANGED <<storeVars, sweepVars, requests, faults, crashes>>

Conflict ==
    /\ phase = "locked"
    /\ idempotency[Scope] \notin {None, request.env}
    /\ Rollback
    /\ UNCHANGED faults

(* The entitlement the operation needs, as it is checked on entry.         *)
Available(op, state) ==
    IF op = "cast" THEN state.cast /\ ~state.consumed ELSE state.challenge

RefuseCapability ==
    /\ phase = "locked"
    /\ idempotency[Scope] = None
    /\ \/ request.cap = Unknown
       \/ request.cap # Unknown /\ ~Available(request.op, continuations[request.cap])
    /\ Rollback
    /\ UNCHANGED faults

ValidateCapability ==
    /\ Step("locked", "validated")
    /\ idempotency[Scope] = None
    /\ request.cap # Unknown
    /\ Available(request.op, continuations[request.cap])
    /\ UNCHANGED storeVars

(* verify_ballot_proofs and, for a challenge, verify_challenge_opening.    *)
RefuseProofs ==
    /\ phase = "validated"
    /\ ~request.valid
    /\ Rollback
    /\ UNCHANGED faults

VerifyProofs ==
    /\ Step("validated", "verified")
    /\ request.valid
    /\ UNCHANGED storeVars

RefuseDuplicate ==
    /\ phase = "verified"
    /\ Published(Id)
    /\ Rollback
    /\ UNCHANGED faults

RefuseCapacity ==
    /\ phase = "verified"
    /\ ~Published(Id)
    /\ FreeSlots(request.op, request.batch) = {}
    /\ Rollback
    /\ UNCHANGED faults

ReserveLeaf ==
    LET l == FirstFree(request.op, request.batch) IN
    /\ Step("verified", "reserved")
    /\ ~Published(Id)
    /\ FreeSlots(request.op, request.batch) # {}
    /\ slotOwner' = [slotOwner EXCEPT ![<<request.batch, l>>] = Scope]
    /\ reservations' = [reservations EXCEPT ![Scope] =
          [batch |-> request.batch, leaf |-> l, ref |-> Id, committed |-> FALSE]]
    /\ UNCHANGED <<continuations, idempotency, ballotVars, owedVars>>

(* A cast persists the ballot, then consumes the capability.               *)
PersistCast ==
    /\ Step("reserved", "first")
    /\ request.op = "cast"
    /\ accepted' = [accepted EXCEPT ![Id] = request.env]
    /\ UNCHANGED <<continuations, idempotency, spoiled, leafVars, owedVars>>

(* Mutant of Consumed: the cast entitlement goes, the capability stays.    *)
ConsumedForgotten(state) == [cast |-> FALSE, challenge |-> FALSE, consumed |-> FALSE]

Consumed(state) == [cast |-> FALSE, challenge |-> FALSE, consumed |-> TRUE]

ConsumeForCast ==
    /\ Step("first", "second")
    /\ request.op = "cast"
    /\ continuations' = [continuations EXCEPT ![request.cap] = Consumed(@)]
    /\ UNCHANGED <<idempotency, ballotVars, leafVars, owedVars>>

(* Mutant of ChallengeSpent: the new state is computed and dropped.        *)
ChallengeSpentDropped(state) == state

(* A challenge spends its entitlement, then persists the spoiled ballot;   *)
(* spend_public_challenge refuses a consumed capability.                   *)
ChallengeSpent(state) == [state EXCEPT !.challenge = FALSE]

SpendPublicChallenge ==
    /\ Step("reserved", "first")
    /\ request.op = "challenge"
    /\ ~continuations[request.cap].consumed
    /\ continuations' = [continuations EXCEPT ![request.cap] = ChallengeSpent(@)]
    /\ UNCHANGED <<idempotency, ballotVars, leafVars, owedVars>>

PersistSpoiled ==
    /\ Step("first", "second")
    /\ request.op = "challenge"
    /\ spoiled' = [spoiled EXCEPT ![Id] = request.env]
    /\ UNCHANGED <<continuations, idempotency, accepted, leafVars, owedVars>>

(* commit_reservation looks the reservation up by its id; InFlight shows   *)
(* that the lookup cannot fail.                                            *)
CommitReservation ==
    /\ Step("second", "leafCommitted")
    /\ reservations[Scope] # None
    /\ reservations' = [reservations EXCEPT ![Scope] =
          [batch |-> @.batch, leaf |-> @.leaf, ref |-> @.ref, committed |-> TRUE]]
    /\ UNCHANGED <<continuations, idempotency, ballotVars, slotOwner, owedVars>>

EnqueueObligation ==
    /\ Step("leafCommitted", "enqueued")
    /\ obligations' = obligations \cup {Obligation}
    /\ outbox' = Append(outbox, [id |-> Obligation, state |-> "pending"])
    /\ UNCHANGED <<continuations, idempotency, ballotVars, leafVars>>

RecordIdempotency ==
    /\ Step("enqueued", "recorded")
    /\ idempotency' = [idempotency EXCEPT ![Scope] = request.env]
    /\ UNCHANGED <<continuations, ballotVars, leafVars, owedVars>>

Commit ==
    /\ phase = "recorded"
    /\ Leave
    /\ UNCHANGED <<storeVars, sweepVars, requests, faults, crashes>>

(* An exception at a trip point rolls everything back.                     *)
Fault ==
    /\ phase \in TripPoints
    /\ faults < MaxFaults
    /\ faults' = faults + 1
    /\ Rollback

Submission ==
    \/ \E r \in Requests : Begin(r)
    \/ Replay \/ Conflict \/ RefuseCapability \/ ValidateCapability
    \/ RefuseProofs \/ VerifyProofs \/ RefuseDuplicate \/ RefuseCapacity
    \/ ReserveLeaf \/ PersistCast \/ ConsumeForCast
    \/ SpendPublicChallenge \/ PersistSpoiled
    \/ CommitReservation \/ EnqueueObligation \/ RecordIdempotency
    \/ Commit \/ Fault
-----------------------------------------------------------------------------
(* dispatch_outbox, which holds no lock *)

Abandon(d) == sweep' = [sweep EXCEPT ![d] = Resting]

(* outbox.pending() lists the rows to dispatch; the order in which they    *)
(* are taken makes no difference to any property and is left open.         *)
StartSweep(d) ==
    /\ ~sweep[d].active
    /\ Pending(outbox) # {}
    /\ sweep' = [sweep EXCEPT ![d] = [active |-> TRUE, todo |-> Pending(outbox),
                                      row |-> None, done |-> {}]]
    /\ UNCHANGED <<storeVars, txVars, delivered, requests, faults, crashes>>

(* A fault before the mark: the exception drops the list built so far.     *)
CrashBeforeMark(d) ==
    /\ sweep[d].active /\ sweep[d].todo # {} /\ sweep[d].row = None
    /\ crashes < MaxCrashes
    /\ crashes' = crashes + 1
    /\ Abandon(d)
    /\ UNCHANGED <<storeVars, txVars, delivered, requests, faults>>

(* Outbox.mark, in two steps.  It looks the row up in the list it finds... *)
FindRow(d, id) ==
    /\ id \in sweep[d].todo /\ sweep[d].row = None
    /\ HasRow(outbox, id)
    /\ sweep' = [sweep EXCEPT ![d].row = [index |-> RowOf(outbox, id), id |-> id]]
    /\ UNCHANGED <<storeVars, txVars, delivered, requests, faults, crashes>>

(* ... raising KeyError if a rollback has removed it since pending() ...   *)
RowVanished(d, id) ==
    /\ id \in sweep[d].todo /\ sweep[d].row = None
    /\ ~HasRow(outbox, id)
    /\ Abandon(d)
    /\ UNCHANGED <<storeVars, txVars, delivered, requests, faults, crashes>>

(* ... builds the new row, and assigns it to that index of the list it     *)
(* finds then.  A rollback and another submission in between can have put  *)
(* the row of another obligation there, ...                                *)
MarkRow(d) ==
    LET found == sweep[d].row IN
    /\ found # None
    /\ found.index \in DOMAIN outbox
    /\ outbox' = [outbox EXCEPT ![found.index] = [id |-> found.id, state |-> "dispatched"]]
    /\ UNCHANGED <<continuations, idempotency, ballotVars, leafVars, obligations,
                   txVars, delivered, requests, faults>>

(* ... or have left the list too short for the index: IndexError.          *)
IndexPastEnd(d) ==
    /\ sweep[d].row # None
    /\ sweep[d].row.index \notin DOMAIN outbox
    /\ Abandon(d)
    /\ UNCHANGED <<storeVars, txVars, delivered, requests, faults, crashes>>

(* Marked, then appended to the list that will be returned.                *)
Dispatch(d) ==
    /\ MarkRow(d)
    /\ LET id == sweep[d].row.id IN
       sweep' = [sweep EXCEPT ![d] = [active |-> TRUE, todo |-> @.todo \ {id},
                                      row |-> None, done |-> @.done \cup {id}]]
    /\ UNCHANGED crashes

(* Marked, and the exception comes before the append.                      *)
CrashAfterMark(d) ==
    /\ MarkRow(d)
    /\ crashes < MaxCrashes
    /\ crashes' = crashes + 1
    /\ Abandon(d)

ReturnDispatched(d) ==
    /\ sweep[d].active /\ sweep[d].todo = {}
    /\ delivered' = delivered \cup sweep[d].done
    /\ Abandon(d)
    /\ UNCHANGED <<storeVars, txVars, requests, faults, crashes>>

DispatchOutbox(d) ==
    \/ StartSweep(d)
    \/ CrashBeforeMark(d)
    \/ \E id \in sweep[d].todo : FindRow(d, id) \/ RowVanished(d, id)
    \/ IndexPastEnd(d) \/ Dispatch(d) \/ CrashAfterMark(d)
    \/ ReturnDispatched(d)

Next == Submission \/ \E d \in Dispatchers : DispatchOutbox(d)

Spec == Init /\ [][Next]_vars

(* The holder of the lock runs on: nothing inside the transaction blocks.  *)
TransactionStep ==
    \/ Replay \/ Conflict \/ RefuseCapability \/ ValidateCapability
    \/ RefuseProofs \/ VerifyProofs \/ RefuseDuplicate \/ RefuseCapacity
    \/ ReserveLeaf \/ PersistCast \/ ConsumeForCast
    \/ SpendPublicChallenge \/ PersistSpoiled
    \/ CommitReservation \/ EnqueueObligation \/ RecordIdempotency \/ Commit

FairSpec == Spec /\ WF_vars(TransactionStep) /\ \A d \in Dispatchers : WF_vars(DispatchOutbox(d))

-----------------------------------------------------------------------------
(* Properties *)

(* What a client that takes the lock, or that waits for its answer, can    *)
(* rely on: the store before the transaction in flight.                    *)
Committed == IF phase = "idle" THEN Store ELSE snapshot

Accepted(s) == {b \in BallotIds : s.accepted[b] # None}
Spoiled(s) == {b \in BallotIds : s.spoiled[b] # None}
Artefacts(s) == {<<"cast", b>> : b \in Accepted(s)} \cup {<<"challenge", b>> : b \in Spoiled(s)}
Held(s) == {k \in Scopes : s.reservations[k] # None}

(* Every variable keeps its type; the lock is held exactly while a         *)
(* request and its snapshot exist.                                         *)
TypeOK ==
    /\ Store \in ReferenceStore
    /\ phase \in Phases
    /\ IF phase = "idle"
       THEN request = None /\ snapshot = None
       ELSE request \in Requests /\ snapshot \in ReferenceStore
    /\ sweep \in [Dispatchers -> SweepState]
    /\ delivered \subseteq Obligations
    /\ requests \in 0 .. MaxRequests
    /\ faults \in 0 .. MaxFaults
    /\ crashes \in 0 .. MaxCrashes

(* "A capability is never spent by a submission that does not commit", and *)
(* none commits without spending: as many capabilities are consumed as     *)
(* ballots are accepted, and every spoiled ballot has cost a capability    *)
(* its challenge.  The store keeps no link between the two maps, so the    *)
(* counts are all that can be compared.                                    *)
EntitlementsPaid ==
    LET s == Committed
        consumed == {c \in Capabilities : s.continuations[c].consumed}
        challengeSpent == {c \in Capabilities : ~s.continuations[c].challenge}
    IN  /\ Cardinality(Accepted(s)) = Cardinality(consumed)
        /\ Cardinality(Spoiled(s)) <= Cardinality(challengeSpent)
        /\ Cardinality(challengeSpent \ consumed) <= Cardinality(Spoiled(s))

(* Reservation precedes acceptance and never outlives a rollback: outside  *)
(* a transaction the held reservations are all committed, each artefact    *)
(* has exactly one of them, and slot_owner names exactly the leaves they   *)
(* hold.                                                                   *)
OneLeafPerArtefact ==
    LET s == Committed IN
    /\ \A k \in Held(s) : /\ s.reservations[k].committed
                          /\ <<k[1], s.reservations[k].ref>> \in Artefacts(s)
                          /\ s.slotOwner[<<s.reservations[k].batch, s.reservations[k].leaf>>] = k
    /\ \A a \in Artefacts(s) : \E k \in Held(s) :
          /\ <<k[1], s.reservations[k].ref>> = a
          /\ \A j \in Held(s) : s.reservations[j].ref = a[2] => j = k
    /\ \A l \in Batches \X Leaves : s.slotOwner[l] # None =>
          /\ s.slotOwner[l] \in Held(s)
          /\ <<s.reservations[s.slotOwner[l]].batch, s.reservations[s.slotOwner[l]].leaf>> = l

(* Public challenges can never starve casts (TC-75): a cast finds no leaf  *)
(* in a batch only when that batch already carries as many casts as it     *)
(* reserves leaves for them.                                               *)
ChallengesNeverStarveCasts ==
    \A n \in Batches :
        (\A l \in CandidateSlots("cast") : Committed.slotOwner[<<n, l>>] # None) =>
            Cardinality({k \in Held(Committed) : k[1] = "cast" /\ Committed.reservations[k].batch = n})
                >= CastReserved

(* The acceptance and the duty to publish it commit together: one          *)
(* obligation and one more row for every artefact, and whatever is still   *)
(* PENDING is owed once and for a stored artefact, whatever unlocked       *)
(* sweeps do meanwhile.  Which artefact each row names is certain only as  *)
(* long as no transaction has failed after its enqueue: mark's write may   *)
(* then hit the row of a later one (NoObligationIsLost).                   *)
OutboxMatchesArtefacts ==
    LET s == Committed
        pending == {i \in DOMAIN s.outbox : s.outbox[i].state = "pending"}
    IN  /\ s.obligations = Artefacts(s)
        /\ Len(s.outbox) = Cardinality(Artefacts(s))
        /\ \A i \in pending : /\ s.outbox[i].id \in Artefacts(s)
                              /\ \A j \in pending : s.outbox[i].id = s.outbox[j].id => i = j
        /\ faults = 0 => {s.outbox[i].id : i \in DOMAIN s.outbox} = Artefacts(s)

(* A key is answered for good with the ballot it was first used for: each  *)
(* stored answer names an artefact the store holds byte for byte, through  *)
(* the reservation made under that key, and each artefact has one.         *)
AnswersMatchArtefacts ==
    LET s == Committed IN
    /\ \A k \in Scopes : s.idempotency[k] # None =>
          LET b == BallotIdOf[s.idempotency[k]]
          IN  /\ (IF k[1] = "cast" THEN s.accepted[b] ELSE s.spoiled[b]) = s.idempotency[k]
              /\ s.reservations[k] # None /\ s.reservations[k].ref = b
    /\ \A a \in Artefacts(s) : Cardinality({k \in Scopes :
          s.idempotency[k] # None /\ <<k[1], BallotIdOf[s.idempotency[k]]>> = a}) = 1

(* What a submission owes and answers stands and falls with the ballot it  *)
(* stored.                                                                 *)
EffectsMatchArtefacts == OutboxMatchesArtefacts /\ AnswersMatchArtefacts

(* The last phases of a transaction: those in which its first, ... write   *)
(* has already been made.                                                  *)
From == [recorded      |-> {"recorded"},
         enqueued      |-> {"enqueued", "recorded"},
         leafCommitted |-> {"leafCommitted", "enqueued", "recorded"},
         second        |-> {"second", "leafCommitted", "enqueued", "recorded"},
         first         |-> {"first", "second", "leafCommitted", "enqueued", "recorded"},
         reserved      |-> {"reserved", "first", "second", "leafCommitted", "enqueued",
                            "recorded"}]

Wrote(p) == phase \in From[p]

(* What the checks of the transaction in flight found still holds of its   *)
(* snapshot when it writes.                                                *)
ChecksHold ==
    /\ phase \notin {"idle", "locked"} =>
          /\ snapshot.idempotency[Scope] = None
          /\ request.cap \in Capabilities
          /\ Available(request.op, snapshot.continuations[request.cap])
    /\ Wrote("reserved") =>
          /\ snapshot.accepted[Id] = None /\ snapshot.spoiled[Id] = None
          /\ reservations[Scope] # None
          /\ reservations[Scope].leaf \in CandidateSlots(request.op)
          /\ snapshot.slotOwner[<<request.batch, reservations[Scope].leaf>>] = None

(* The transaction in flight has written exactly what its phase says over  *)
(* its snapshot.  The outbox is left out: sweeps mark its rows meanwhile.  *)
WritesSoFar ==
    phase # "idle" =>
    /\ idempotency = IF Wrote("recorded")
                           THEN [snapshot.idempotency EXCEPT ![Scope] = request.env]
                           ELSE snapshot.idempotency
    /\ accepted = IF request.op = "cast" /\ Wrote("first")
                        THEN [snapshot.accepted EXCEPT ![Id] = request.env]
                        ELSE snapshot.accepted
    /\ spoiled = IF request.op = "challenge" /\ Wrote("second")
                       THEN [snapshot.spoiled EXCEPT ![Id] = request.env]
                       ELSE snapshot.spoiled
    /\ continuations =
          IF request.op = "cast" /\ Wrote("second")
          THEN [snapshot.continuations EXCEPT ![request.cap] = Consumed(@)]
          ELSE IF request.op = "challenge" /\ Wrote("first")
          THEN [snapshot.continuations EXCEPT ![request.cap] = ChallengeSpent(@)]
          ELSE snapshot.continuations
    /\ obligations = IF Wrote("enqueued")
                           THEN snapshot.obligations \cup {Obligation}
                           ELSE snapshot.obligations
    /\ IF Wrote("reserved")
       THEN LET l == reservations[Scope].leaf IN
            /\ slotOwner = [snapshot.slotOwner EXCEPT ![<<request.batch, l>>] = Scope]
            /\ reservations = [snapshot.reservations EXCEPT ![Scope] =
                  [batch |-> request.batch, leaf |-> l, ref |-> Id,
                   committed |-> Wrote("leafCommitted")]]
       ELSE /\ slotOwner = snapshot.slotOwner
            /\ reservations = snapshot.reservations

(* Nothing another actor does can slip between a check and the write it    *)
(* allowed, nor a write be missing when the lock is released.              *)
InFlight == ChecksHold /\ WritesSoFar

(* The leaf a ballot holds in the committed store.                         *)
LeafOf(s, b) ==
    LET holder == {k \in Held(s) : s.reservations[k].ref = b}
    IN  IF holder = {} THEN None
        ELSE LET k == CHOOSE h \in holder : TRUE
             IN  <<s.reservations[k].batch, s.reservations[k].leaf>>

EntitlementOf(c) ==
    IF c.consumed THEN "spent" ELSE IF c.challenge THEN "full" ELSE "castOnly"

BoxOf(s, b) ==
    IF s.accepted[b] # None THEN "cast"
    ELSE IF s.spoiled[b] # None THEN "challenge" ELSE None

A == INSTANCE Acceptance WITH
        CastLeaves <- CandidateSlots("cast"),
        ChallengeLeaves <- CandidateSlots("challenge"),
        entitlement <- [c \in Capabilities |-> EntitlementOf(Committed.continuations[c])],
        box <- [b \in BallotIds |-> BoxOf(Committed, b)],
        leaf <- [b \in BallotIds |-> LeafOf(Committed, b)],
        answer <- Committed.idempotency,
        owed <- {o[2] : o \in Committed.obligations}

(* The ten-step transaction, its refusals and its rollbacks, interleaved   *)
(* with unlocked sweeps, look to its clients like the single step of       *)
(* Acceptance or like nothing at all.                                      *)
Promise == A!ASpec

(* A mark's late write has replaced the only row of an obligation.         *)
RowLost(o) == faults > 0 /\ ~HasRow(Committed.outbox, o)

(* Once submissions have stopped coming, every obligation that committed   *)
(* ends up DISPATCHED, although a rollback can restore a PENDING copy of a *)
(* row a sweep had marked - unless its row is lost.                        *)
EveryObligationDispatched ==
    \A o \in Obligations :
        (o \in Committed.obligations) ~>
            [](\/ RowLost(o)
               \/ \E i \in DOMAIN Committed.outbox :
                      Committed.outbox[i] = [id |-> o, state |-> "dispatched"])

(* PACK-16D-CONCURRENCY-TEST-MATRIX.md:78 "an obligation is never lost":   *)
(* what is owed has its row in the outbox.                                 *)
NoObligationIsLost ==
    \A o \in Committed.obligations : HasRow(Committed.outbox, o)

(* transactions.py:291 "a crash between the two leaves the row PENDING and *)
(* the next sweep retries it": whatever is marked DISPATCHED has been, or  *)
(* is about to be, handed to the caller.                                   *)
NothingMarkedIsLost ==
    \A i \in DOMAIN outbox : outbox[i].state = "dispatched" =>
        outbox[i].id \in delivered \cup UNION {sweep[d].done : d \in Dispatchers}
=============================================================================
