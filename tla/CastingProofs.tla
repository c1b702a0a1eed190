--------------------------- MODULE CastingProofs ---------------------------
(***************************************************************************)
(* Theorems about Casting, for every set of capabilities, envelopes, keys, *)
(* batches and dispatchers and every capacity plan.                        *)
(***************************************************************************)
EXTENDS Casting, WellFoundedInduction, NaturalsInduction, FiniteSetTheorems, TLAPS

(***************************************************************************)
(* Helpers                                                                 *)
(***************************************************************************)

(* A non-empty set of naturals has a least element.                        *)
LEMMA LeastNatural ==
    ASSUME NEW S \in SUBSET Nat, S # {}
    PROVE  \E m \in S : \A n \in S : m <= n
<1>1. \E m \in S : \A n \in S : <<n, m>> \notin OpToRel(<, Nat)
  BY NatLessThanWellFounded, WFMin, Zenon
<1>2. PICK m \in S : \A n \in S : <<n, m>> \notin OpToRel(<, Nat)
  BY <1>1
<1>3. \A n \in S : ~(n < m)
  BY <1>2, Zenon DEF OpToRel
<1>4. QED
  BY <1>3

(* The first free leaf is one of the candidates, and free.                 *)
LEMMA FirstFreeIsFree ==
    ASSUME NEW op \in Ops, NEW n \in Batches, FreeSlots(op, n) # {}
    PROVE  /\ FirstFree(op, n) \in CandidateSlots(op)
           /\ FirstFree(op, n) \in Leaves
           /\ slotOwner[<<n, FirstFree(op, n)>>] = None
<1>1. CandidateSlots(op) \subseteq Leaves /\ Leaves \subseteq Nat
  BY CastingAssumption DEF CandidateSlots, Leaves, Ops
<1>2. FreeSlots(op, n) \in SUBSET Nat
  BY <1>1 DEF FreeSlots
<1>3. FirstFree(op, n) \in FreeSlots(op, n)
  BY <1>2, LeastNatural DEF FirstFree
<1>4. QED
  BY <1>1, <1>3 DEF FreeSlots

(* A row put at an index of the outbox leaves a sequence of rows.          *)
LEMMA RowReplaced ==
    ASSUME NEW rows \in Seq(Row), NEW i \in DOMAIN rows, NEW r \in Row
    PROVE  /\ [rows EXCEPT ![i] = r] \in Seq(Row)
           /\ Len([rows EXCEPT ![i] = r]) = Len(rows)
           /\ DOMAIN [rows EXCEPT ![i] = r] = DOMAIN rows
<1>1. Len(rows) \in Nat /\ DOMAIN rows = 1 .. Len(rows) /\ rows \in [1 .. Len(rows) -> Row]
  OBVIOUS
<1>2. [rows EXCEPT ![i] = r] \in [1 .. Len(rows) -> Row]
  BY <1>1
<1>3. QED
  BY <1>1, <1>2

(* mark finds a row that carries the id it looks for.                      *)
LEMMA RowOfFinds ==
    ASSUME NEW rows \in Seq(Row), NEW id, HasRow(rows, id)
    PROVE  RowOf(rows, id) \in DOMAIN rows /\ rows[RowOf(rows, id)].id = id
<1> DEFINE carrying == {i \in DOMAIN rows : rows[i].id = id}
<1>1. DOMAIN rows = 1 .. Len(rows) /\ Len(rows) \in Nat
  OBVIOUS
<1>2. carrying \in SUBSET Nat /\ carrying # {}
  BY <1>1 DEF HasRow
<1>3. PICK i \in carrying : \A j \in carrying : i <= j
  BY <1>2, LeastNatural
<1>4. \A j \in 1 .. (i - 1) : rows[j].id # id
  BY <1>1, <1>3
<1>5. QED
  BY <1>3, <1>4 DEF RowOf

(***************************************************************************)
(* Type correctness                                                        *)
(***************************************************************************)

StoreTypes ==
    /\ continuations \in [Capabilities -> ContinuationState]
    /\ idempotency \in [Scopes -> Envelopes \cup {None}]
    /\ accepted \in [BallotIds -> Envelopes \cup {None}]
    /\ spoiled \in [BallotIds -> Envelopes \cup {None}]
    /\ reservations \in [Scopes -> LeafReservation \cup {None}]
    /\ slotOwner \in [Batches \X Leaves -> Scopes \cup {None}]
    /\ obligations \in SUBSET Obligations
    /\ outbox \in Seq(Row)

LEMMA StoreIsTyped == Store \in ReferenceStore <=> StoreTypes
BY DEF Store, ReferenceStore, StoreTypes

LEMMA StoreIsTypedPrimed == Store' \in ReferenceStore <=> StoreTypes'
BY DEF Store, ReferenceStore, StoreTypes

(* The request that holds the lock, with the types of its fields.          *)
LEMMA RequestFields ==
    ASSUME TypeOK, phase # "idle"
    PROVE  /\ request.op \in Ops /\ request.key \in Keys
           /\ request.cap \in Capabilities \cup {Unknown}
           /\ request.env \in Envelopes /\ request.batch \in Batches
           /\ Scope \in Scopes /\ Id \in BallotIds /\ Obligation \in Obligations
           /\ StoreTypes /\ snapshot \in ReferenceStore
BY CastingAssumption, StoreIsTyped
   DEF TypeOK, Requests, Scope, Scopes, Id, Obligation, Obligations

LEMMA InitType == Init => TypeOK
<1> SUFFICES ASSUME Init PROVE TypeOK
  OBVIOUS
<1>1. StoreTypes
  BY DEF Init, StoreTypes, FreshCapability, ContinuationState
<1>2. QED
  BY <1>1, StoreIsTyped, CastingAssumption DEF Init, TypeOK, Phases, Resting, SweepState

(* A rollback restores a store.                                            *)
LEMMA RollbackType ==
    ASSUME TypeOK, phase # "idle", Rollback, faults' \in 0 .. MaxFaults
    PROVE  TypeOK'
<1>1. StoreTypes'
  BY DEF TypeOK, Rollback, ReferenceStore, StoreTypes
<1>2. QED
  BY <1>1, StoreIsTypedPrimed DEF TypeOK, Rollback, Leave, Phases, sweepVars

(* A step of the transaction keeps every type if it keeps the store's.     *)
LEMMA StepType ==
    ASSUME TypeOK, NEW p, NEW q \in Phases \ {"idle"}, p # "idle", Step(p, q), StoreTypes'
    PROVE  TypeOK'
BY StoreIsTypedPrimed DEF TypeOK, Step, sweepVars

LEMMA UnchangedStore == ASSUME StoreTypes, UNCHANGED storeVars PROVE StoreTypes'
BY DEF StoreTypes, storeVars, ballotVars, leafVars, owedVars

(* Every write of the transaction keeps the store's types.                 *)
LEMMA WriteTypes ==
    ASSUME TypeOK,
           \/ ReserveLeaf \/ PersistCast \/ ConsumeForCast \/ SpendPublicChallenge
           \/ PersistSpoiled \/ CommitReservation \/ EnqueueObligation \/ RecordIdempotency
    PROVE  StoreTypes'
<1> USE DEF ballotVars, leafVars, owedVars
<1>0. /\ phase # "idle"
      /\ request.op \in Ops /\ request.cap \in Capabilities \cup {Unknown}
      /\ request.env \in Envelopes /\ request.batch \in Batches
      /\ Scope \in Scopes /\ Id \in BallotIds /\ Obligation \in Obligations
      /\ StoreTypes
  BY RequestFields DEF Step, ReserveLeaf, PersistCast, ConsumeForCast,
     SpendPublicChallenge, PersistSpoiled, CommitReservation, EnqueueObligation,
     RecordIdempotency
<1>1. CASE ReserveLeaf
  <2> DEFINE l == FirstFree(request.op, request.batch)
  <2>1. l \in Leaves
    BY <1>0, <1>1, FirstFreeIsFree DEF ReserveLeaf
  <2>2. [batch |-> request.batch, leaf |-> l, ref |-> Id, committed |-> FALSE]
           \in LeafReservation
    BY <1>0, <2>1 DEF LeafReservation
  <2>3. QED
    BY <1>0, <1>1, <2>1, <2>2 DEF ReserveLeaf, StoreTypes
<1>2. CASE PersistCast
  BY <1>0, <1>2 DEF PersistCast, StoreTypes
<1>3. CASE PersistSpoiled
  BY <1>0, <1>3 DEF PersistSpoiled, StoreTypes
<1>4. CASE ConsumeForCast
  BY <1>0, <1>4 DEF ConsumeForCast, StoreTypes, Consumed, ContinuationState
<1>5. CASE SpendPublicChallenge
  BY <1>0, <1>5 DEF SpendPublicChallenge, StoreTypes, ChallengeSpent, ContinuationState
<1>6. CASE CommitReservation
  <2>1. reservations[Scope] \in LeafReservation
    BY <1>0, <1>6 DEF CommitReservation, StoreTypes
  <2>2. [batch |-> reservations[Scope].batch, leaf |-> reservations[Scope].leaf,
         ref |-> reservations[Scope].ref, committed |-> TRUE] \in LeafReservation
    BY <2>1 DEF LeafReservation
  <2>3. QED
    BY <1>0, <1>6, <2>2 DEF CommitReservation, StoreTypes
<1>7. CASE EnqueueObligation
  BY <1>0, <1>7 DEF EnqueueObligation, StoreTypes, Row
<1>8. CASE RecordIdempotency
  BY <1>0, <1>8 DEF RecordIdempotency, StoreTypes
<1>9. QED
  BY <1>1, <1>2, <1>3, <1>4, <1>5, <1>6, <1>7, <1>8

LEMMA SubmissionType == ASSUME TypeOK, Submission PROVE TypeOK'
<1>1. ASSUME NEW r \in Requests, Begin(r) PROVE TypeOK'
  <2>1. StoreTypes' /\ Store \in ReferenceStore
    BY <1>1, StoreIsTyped, UnchangedStore DEF Begin, TypeOK
  <2>2. QED
    BY <1>1, <2>1, StoreIsTypedPrimed, CastingAssumption
       DEF Begin, TypeOK, Phases, sweepVars
<1>2. CASE Conflict \/ RefuseCapability \/ RefuseProofs \/ RefuseDuplicate \/ RefuseCapacity
           \/ Fault
  <2>1. phase # "idle" /\ Rollback
    BY <1>2 DEF Conflict, RefuseCapability, RefuseProofs, RefuseDuplicate,
       RefuseCapacity, Fault, TripPoints
  <2>2. faults' \in 0 .. MaxFaults
    BY <1>2, CastingAssumption DEF Conflict, RefuseCapability, RefuseProofs,
       RefuseDuplicate, RefuseCapacity, Fault, TypeOK
  <2>3. QED
    BY <2>1, <2>2, RollbackType
<1>3. CASE Replay \/ Commit
  <2>1. StoreTypes'
    BY <1>3, StoreIsTyped, UnchangedStore DEF Replay, Commit, TypeOK
  <2>2. QED
    BY <1>3, <2>1, StoreIsTypedPrimed DEF Replay, Commit, Leave, TypeOK, Phases, sweepVars
<1>4. CASE ValidateCapability \/ VerifyProofs
  <2>1. StoreTypes'
    BY <1>4, StoreIsTyped, UnchangedStore DEF ValidateCapability, VerifyProofs, TypeOK
  <2>2. CASE ValidateCapability
    BY <2>1, <2>2, StepType DEF ValidateCapability, Phases
  <2>3. CASE VerifyProofs
    BY <2>1, <2>3, StepType DEF VerifyProofs, Phases
  <2>4. QED
    BY <1>4, <2>2, <2>3
<1>5. CASE \/ ReserveLeaf \/ PersistCast \/ ConsumeForCast \/ SpendPublicChallenge
           \/ PersistSpoiled \/ CommitReservation \/ EnqueueObligation \/ RecordIdempotency
  <2>1. StoreTypes'
    BY <1>5, WriteTypes
  <2>2. \E p, q \in Phases \ {"idle"} : Step(p, q)
    BY <1>5 DEF ReserveLeaf, PersistCast, ConsumeForCast, SpendPublicChallenge,
       PersistSpoiled, CommitReservation, EnqueueObligation, RecordIdempotency, Phases
  <2>3. QED
    BY <2>1, <2>2, StepType
<1>6. QED
  BY <1>1, <1>2, <1>3, <1>4, <1>5 DEF Submission

(* What a step of a sweep can do to the outbox.                            *)
LEMMA SweepWrites ==
    ASSUME TypeOK, NEW d \in Dispatchers, DispatchOutbox(d)
    PROVE  /\ \/ UNCHANGED outbox
              \/ /\ sweep[d].row # None
                 /\ sweep[d].row.id \in Obligations /\ sweep[d].row.index \in DOMAIN outbox
                 /\ outbox' = [outbox EXCEPT ![sweep[d].row.index] =
                                   [id |-> sweep[d].row.id, state |-> "dispatched"]]
           /\ UNCHANGED <<continuations, idempotency, ballotVars, leafVars, obligations,
                          txVars, requests, faults>>
<1>1. sweep[d] \in SweepState
  BY DEF TypeOK
<1>2. CASE Dispatch(d) \/ CrashAfterMark(d)
  <2>1. MarkRow(d)
    BY <1>2 DEF Dispatch, CrashAfterMark
  <2>2. sweep[d].row # None => sweep[d].row.id \in Obligations
    BY <1>1 DEF SweepState
  <2>3. QED
    BY <2>1, <2>2 DEF MarkRow
<1>3. CASE ~(Dispatch(d) \/ CrashAfterMark(d))
  BY <1>3 DEF DispatchOutbox, StartSweep, CrashBeforeMark, FindRow, RowVanished, IndexPastEnd,
     ReturnDispatched, storeVars, owedVars
<1>4. QED
  BY <1>2, <1>3

LEMMA DispatchType ==
    ASSUME TypeOK, NEW d \in Dispatchers, DispatchOutbox(d)
    PROVE  TypeOK'
<1> DEFINE SweepTypes == sweep \in [Dispatchers -> SweepState]
<1>1. StoreTypes /\ SweepTypes /\ delivered \subseteq Obligations /\ crashes \in 0 .. MaxCrashes
  BY StoreIsTyped DEF TypeOK
<1>2. Resting \in SweepState
  BY DEF Resting, SweepState
<1>3. StoreTypes'
  <2>1. UNCHANGED <<continuations, idempotency, ballotVars, leafVars, obligations>>
    BY SweepWrites
  <2>2. outbox' \in Seq(Row)
    <3>1. CASE UNCHANGED outbox
      BY <3>1, <1>1 DEF StoreTypes
    <3>2. CASE ~UNCHANGED outbox
      <4>1. /\ sweep[d].row.index \in DOMAIN outbox
            /\ [id |-> sweep[d].row.id, state |-> "dispatched"] \in Row
            /\ outbox' = [outbox EXCEPT ![sweep[d].row.index] =
                              [id |-> sweep[d].row.id, state |-> "dispatched"]]
        BY <3>2, SweepWrites DEF Row
      <4>2. QED
        BY <4>1, <1>1, RowReplaced DEF StoreTypes
    <3>3. QED
      BY <3>1, <3>2
  <2>3. QED
    BY <1>1, <2>1, <2>2 DEF StoreTypes, ballotVars, leafVars
<1>4. UNCHANGED <<snapshot, request, phase, requests, faults>>
  BY SweepWrites DEF txVars
<1>5. SweepTypes' /\ crashes' \in 0 .. MaxCrashes /\ delivered' \subseteq Obligations
  <2>1. CASE StartSweep(d)
    <3>1. Pending(outbox) \in SUBSET Obligations
      <4>1. \A i \in DOMAIN outbox : outbox[i] \in Row
        BY <1>1 DEF StoreTypes
      <4>2. QED
        BY <4>1 DEF Pending, Row
    <3>2. [active |-> TRUE, todo |-> Pending(outbox), row |-> None, done |-> {}] \in SweepState
      BY <3>1 DEF SweepState
    <3>3. QED
      BY <2>1, <3>2, <1>1 DEF StartSweep
  <2>2. CASE Abandon(d) /\ delivered' = delivered /\ crashes' \in {crashes, crashes + 1}
             /\ (crashes' = crashes \/ crashes < MaxCrashes)
    <3>1. crashes' \in 0 .. MaxCrashes
      BY <2>2, <1>1, CastingAssumption
    <3>2. QED
      BY <2>2, <3>1, <1>1, <1>2 DEF Abandon
  <2>3. ASSUME NEW id \in sweep[d].todo, FindRow(d, id)
        PROVE SweepTypes' /\ crashes' \in 0 .. MaxCrashes /\ delivered' \subseteq Obligations
    <3> DEFINE found == [index |-> RowOf(outbox, id), id |-> id]
               local == [sweep[d] EXCEPT !.row = found]
    <3>1. /\ sweep' = [sweep EXCEPT ![d] = local]
          /\ delivered' = delivered /\ crashes' = crashes
      BY <2>3 DEF FindRow
    <3>2. sweep[d] \in SweepState /\ id \in Obligations
      BY <1>1 DEF SweepState
    <3>3. found \in [index : Nat \ {0}, id : Obligations]
      <4>1. RowOf(outbox, id) \in DOMAIN outbox
        BY <2>3, <1>1, RowOfFinds DEF FindRow, StoreTypes
      <4>2. DOMAIN outbox \subseteq Nat \ {0}
        BY <1>1 DEF StoreTypes
      <4>3. QED
        BY <3>2, <4>1, <4>2
    <3> HIDE DEF found
    <3>4. local \in SweepState
      BY <3>2, <3>3 DEF SweepState
    <3> HIDE DEF local
    <3>5. QED
      BY <3>1, <3>4, <1>1
  <2>4. CASE Dispatch(d)
    <3> DEFINE id == sweep[d].row.id
               local == [active |-> TRUE, todo |-> sweep[d].todo \ {id},
                         row |-> None, done |-> sweep[d].done \cup {id}]
    <3>1. /\ sweep' = [sweep EXCEPT ![d] = local]
          /\ delivered' = delivered /\ crashes' = crashes /\ sweep[d].row # None
      BY <2>4 DEF Dispatch, MarkRow
    <3>2. sweep[d] \in SweepState
      BY <1>1
    <3>3. id \in Obligations
      BY <3>1, <3>2 DEF SweepState
    <3> HIDE DEF id
    <3>4. local \in SweepState
      BY <3>2, <3>3 DEF SweepState
    <3> HIDE DEF local
    <3>5. QED
      BY <3>1, <3>4, <1>1
  <2>5. CASE ReturnDispatched(d)
    <3>1. /\ Abandon(d) /\ crashes' = crashes
          /\ delivered' = delivered \cup sweep[d].done
      BY <2>5 DEF ReturnDispatched
    <3>2. sweep[d].done \subseteq Obligations
      BY <1>1 DEF SweepState
    <3>3. QED
      BY <3>1, <3>2, <1>1, <1>2 DEF Abandon
  <2>6. CASE \/ CrashBeforeMark(d) \/ CrashAfterMark(d) \/ IndexPastEnd(d)
             \/ \E id \in sweep[d].todo : RowVanished(d, id)
    BY <2>2, <2>6 DEF CrashBeforeMark, CrashAfterMark, IndexPastEnd, RowVanished, MarkRow
  <2>7. QED
    BY <2>1, <2>3, <2>4, <2>5, <2>6 DEF DispatchOutbox
<1>6. QED
  BY <1>3, <1>4, <1>5, StoreIsTypedPrimed DEF TypeOK

(* TypeOK: every variable keeps its type, and the lock is held exactly     *)
(* while there is a request and a snapshot to restore.                     *)
THEOREM TypeCorrect == Spec => []TypeOK
<1>1. ASSUME TypeOK, [Next]_vars PROVE TypeOK'
  <2>1. CASE Next
    BY <1>1, <2>1, SubmissionType, DispatchType DEF Next
  <2>2. CASE UNCHANGED vars
    BY <1>1, <2>2 DEF vars, storeVars, ballotVars, leafVars, owedVars, txVars, sweepVars,
       TypeOK, Store
  <2>3. QED
    BY <1>1, <2>1, <2>2
<1>2. QED
  BY InitType, <1>1, PTL DEF Spec

(***************************************************************************)
(* The transaction in flight                                               *)
(***************************************************************************)

(* In which phases each write has been made.                               *)
LEMMA WrotePhases ==
    ASSUME phase \in Phases
    PROVE  /\ Wrote("reserved") <=> phase \notin {"idle", "locked", "validated", "verified"}
           /\ Wrote("first") <=> phase \in {"first", "second", "leafCommitted", "enqueued",
                                            "recorded"}
           /\ Wrote("second") <=> phase \in {"second", "leafCommitted", "enqueued", "recorded"}
           /\ Wrote("leafCommitted") <=> phase \in {"leafCommitted", "enqueued", "recorded"}
           /\ Wrote("enqueued") <=> phase \in {"enqueued", "recorded"}
           /\ Wrote("recorded") <=> phase = "recorded"
BY DEF Wrote, From, Phases

LEMMA WrotePhasesPrimed ==
    ASSUME phase' \in Phases
    PROVE  /\ Wrote("reserved")' <=> phase' \notin {"idle", "locked", "validated", "verified"}
           /\ Wrote("first")' <=> phase' \in {"first", "second", "leafCommitted", "enqueued",
                                              "recorded"}
           /\ Wrote("second")' <=> phase' \in {"second", "leafCommitted", "enqueued", "recorded"}
           /\ Wrote("leafCommitted")' <=> phase' \in {"leafCommitted", "enqueued", "recorded"}
           /\ Wrote("enqueued")' <=> phase' \in {"enqueued", "recorded"}
           /\ Wrote("recorded")' <=> phase' = "recorded"
BY DEF Wrote, From, Phases

(* A transaction that ends, one way or the other, leaves nothing in flight.*)
LEMMA LeaveInFlight == ASSUME Leave PROVE InFlight'
BY DEF Leave, InFlight, ChecksHold, WritesSoFar, Wrote, From

LEMMA BeginInFlight ==
    ASSUME TypeOK, NEW r \in Requests, Begin(r)
    PROVE  InFlight'
BY DEF Begin, InFlight, ChecksHold, WritesSoFar, Wrote, From, Store, storeVars, ballotVars,
       leafVars, owedVars

(* The two checks that only advance the phase.                             *)
LEMMA CheckInFlight ==
    ASSUME TypeOK, InFlight, ValidateCapability \/ VerifyProofs
    PROVE  InFlight'
<1> USE DEF Step, storeVars, ballotVars, leafVars, owedVars
<1>1. UNCHANGED <<request, snapshot, storeVars, Scope, Id, Obligation>>
  BY DEF ValidateCapability, VerifyProofs, Scope, Id, Obligation
<1>2. CASE ValidateCapability
  <2>1. ChecksHold'
    BY <1>1, <1>2, RequestFields
       DEF ValidateCapability, InFlight, WritesSoFar, ChecksHold, Wrote, From
  <2>2. WritesSoFar'
    BY <1>1, <1>2 DEF ValidateCapability, InFlight, WritesSoFar, Wrote, From
  <2>3. QED
    BY <2>1, <2>2 DEF InFlight
<1>3. CASE VerifyProofs
  <2>1. ChecksHold'
    BY <1>1, <1>3 DEF VerifyProofs, InFlight, ChecksHold, Wrote, From
  <2>2. WritesSoFar'
    BY <1>1, <1>3 DEF VerifyProofs, InFlight, WritesSoFar, Wrote, From
  <2>3. QED
    BY <2>1, <2>2 DEF InFlight
<1>4. QED
  BY <1>2, <1>3

LEMMA ReserveInFlight == ASSUME TypeOK, InFlight, ReserveLeaf PROVE InFlight'
<1> USE DEF ballotVars, leafVars, owedVars
<1> DEFINE l == FirstFree(request.op, request.batch)
           r == [batch |-> request.batch, leaf |-> l, ref |-> Id, committed |-> FALSE]
<1>1. /\ phase = "verified" /\ phase' = "reserved"
      /\ UNCHANGED <<request, snapshot, Scope, Id, Obligation>>
  BY DEF ReserveLeaf, Step, Scope, Id, Obligation
<1>2. /\ Scope \in Scopes /\ Id \in BallotIds /\ StoreTypes
      /\ request.op \in Ops /\ request.batch \in Batches
  BY <1>1, RequestFields
<1>3. /\ l \in CandidateSlots(request.op) /\ l \in Leaves
      /\ slotOwner[<<request.batch, l>>] = None
  BY <1>2, FirstFreeIsFree DEF ReserveLeaf
<1>4. reservations' = [reservations EXCEPT ![Scope] = r] /\ reservations'[Scope] = r
  BY <1>2 DEF ReserveLeaf, StoreTypes
<1>5. r # None
  <2>1. r \in LeafReservation
    BY <1>2, <1>3 DEF LeafReservation
  <2>2. QED
    BY <2>1, NoneAssumption
<1>6. ChecksHold'
  BY <1>1, <1>3, <1>4, <1>5
     DEF ReserveLeaf, InFlight, WritesSoFar, ChecksHold, Wrote, From, Published
<1>7. WritesSoFar'
  <2>1. /\ slotOwner = snapshot.slotOwner /\ reservations = snapshot.reservations
        /\ idempotency = snapshot.idempotency /\ accepted = snapshot.accepted
        /\ spoiled = snapshot.spoiled /\ continuations = snapshot.continuations
        /\ obligations = snapshot.obligations
    BY <1>1 DEF InFlight, WritesSoFar, Wrote, From
  <2>2. reservations'[Scope].leaf = l
    BY <1>4
  <2>3. /\ slotOwner' = [snapshot.slotOwner EXCEPT ![<<request.batch, l>>] = Scope]
        /\ reservations' = [snapshot.reservations EXCEPT ![Scope] = r]
        /\ UNCHANGED <<idempotency, accepted, spoiled, continuations, obligations>>
    BY <1>4, <2>1 DEF ReserveLeaf
  <2>4. /\ Wrote("leafCommitted")' = FALSE /\ Wrote("reserved")' = TRUE
        /\ Wrote("recorded")' = FALSE /\ Wrote("first")' = FALSE
        /\ Wrote("second")' = FALSE /\ Wrote("enqueued")' = FALSE
    BY <1>1 DEF Wrote, From
  <2>5. Scope' = Scope /\ Id' = Id /\ request' = request /\ snapshot' = snapshot
    BY <1>1
  <2>6. QED
    BY <2>1, <2>2, <2>3, <2>4, <2>5 DEF WritesSoFar
<1>8. QED
  BY <1>6, <1>7 DEF InFlight

(* WritesSoFar in two parts: the leaf, and the other maps.                 *)
MapsWritten ==
    /\ idempotency = IF Wrote("recorded")
                     THEN [snapshot.idempotency EXCEPT ![Scope] = request.env]
                     ELSE snapshot.idempotency
    /\ accepted = IF request.op = "cast" /\ Wrote("first")
                  THEN [snapshot.accepted EXCEPT ![Id] = request.env] ELSE snapshot.accepted
    /\ spoiled = IF request.op = "challenge" /\ Wrote("second")
                 THEN [snapshot.spoiled EXCEPT ![Id] = request.env] ELSE snapshot.spoiled
    /\ continuations =
          IF request.op = "cast" /\ Wrote("second")
          THEN [snapshot.continuations EXCEPT ![request.cap] = Consumed(@)]
          ELSE IF request.op = "challenge" /\ Wrote("first")
          THEN [snapshot.continuations EXCEPT ![request.cap] = ChallengeSpent(@)]
          ELSE snapshot.continuations
    /\ obligations = IF Wrote("enqueued") THEN snapshot.obligations \cup {Obligation}
                                          ELSE snapshot.obligations

LeafWritten ==
    IF Wrote("reserved")
    THEN LET l == reservations[Scope].leaf IN
         /\ slotOwner = [snapshot.slotOwner EXCEPT ![<<request.batch, l>>] = Scope]
         /\ reservations = [snapshot.reservations EXCEPT ![Scope] =
               [batch |-> request.batch, leaf |-> l, ref |-> Id,
                committed |-> Wrote("leafCommitted")]]
    ELSE slotOwner = snapshot.slotOwner /\ reservations = snapshot.reservations

LEMMA WritesParts == WritesSoFar <=> (phase # "idle" => MapsWritten /\ LeafWritten)
BY Zenon DEF WritesSoFar, MapsWritten, LeafWritten

LEMMA WritesPartsPrimed == WritesSoFar' <=> (phase' # "idle" => MapsWritten' /\ LeafWritten')
BY Zenon DEF WritesSoFar, MapsWritten, LeafWritten

LEMMA LeafKept ==
    ASSUME LeafWritten, UNCHANGED <<request, snapshot, reservations, slotOwner, Scope, Id>>,
           Wrote("reserved")' = Wrote("reserved"),
           Wrote("leafCommitted")' = Wrote("leafCommitted")
    PROVE  LeafWritten'
BY DEF LeafWritten

(* The other writes, one lemma for each.                                  *)
LEMMA PersistCastInFlight == ASSUME TypeOK, InFlight, PersistCast PROVE InFlight'
<1>1. /\ phase = "reserved" /\ phase' = "first"
      /\ UNCHANGED <<request, snapshot, reservations, slotOwner, Scope, Id, Obligation>>
  BY DEF PersistCast, Step, Scope, Id, Obligation, leafVars
<1>2. /\ Wrote("reserved") = TRUE
      /\ Wrote("first") = FALSE
      /\ Wrote("second") = FALSE
      /\ Wrote("leafCommitted") = FALSE
      /\ Wrote("enqueued") = FALSE
      /\ Wrote("recorded") = FALSE
  BY <1>1 DEF Wrote, From
<1>3. /\ Wrote("reserved")' = TRUE
      /\ Wrote("first")' = TRUE
      /\ Wrote("second")' = FALSE
      /\ Wrote("leafCommitted")' = FALSE
      /\ Wrote("enqueued")' = FALSE
      /\ Wrote("recorded")' = FALSE
  BY <1>1 DEF Wrote, From
<1>4. ChecksHold'
  BY <1>1, <1>2, <1>3 DEF InFlight, ChecksHold
<1>5. WritesSoFar'
  <2>1. MapsWritten /\ LeafWritten
    BY <1>1, WritesParts DEF InFlight
  <2>2. LeafWritten'
    BY <1>1, <1>2, <1>3, <2>1, LeafKept
  <2>3. MapsWritten'
    BY <1>1, <1>2, <1>3, <2>1 DEF PersistCast, MapsWritten, leafVars, owedVars
  <2>4. QED
    BY <2>2, <2>3, WritesPartsPrimed
<1>6. QED
  BY <1>4, <1>5 DEF InFlight

LEMMA ConsumeForCastInFlight == ASSUME TypeOK, InFlight, ConsumeForCast PROVE InFlight'
<1>1. /\ phase = "first" /\ phase' = "second"
      /\ UNCHANGED <<request, snapshot, reservations, slotOwner, Scope, Id, Obligation>>
  BY DEF ConsumeForCast, Step, Scope, Id, Obligation, leafVars
<1>2. /\ Wrote("reserved") = TRUE
      /\ Wrote("first") = TRUE
      /\ Wrote("second") = FALSE
      /\ Wrote("leafCommitted") = FALSE
      /\ Wrote("enqueued") = FALSE
      /\ Wrote("recorded") = FALSE
  BY <1>1 DEF Wrote, From
<1>3. /\ Wrote("reserved")' = TRUE
      /\ Wrote("first")' = TRUE
      /\ Wrote("second")' = TRUE
      /\ Wrote("leafCommitted")' = FALSE
      /\ Wrote("enqueued")' = FALSE
      /\ Wrote("recorded")' = FALSE
  BY <1>1 DEF Wrote, From
<1>4. ChecksHold'
  BY <1>1, <1>2, <1>3 DEF InFlight, ChecksHold
<1>5. WritesSoFar'
  <2>1. MapsWritten /\ LeafWritten
    BY <1>1, WritesParts DEF InFlight
  <2>2. LeafWritten'
    BY <1>1, <1>2, <1>3, <2>1, LeafKept
  <2>3. MapsWritten'
    BY <1>1, <1>2, <1>3, <2>1 DEF ConsumeForCast, MapsWritten, ballotVars, leafVars, owedVars
  <2>4. QED
    BY <2>2, <2>3, WritesPartsPrimed
<1>6. QED
  BY <1>4, <1>5 DEF InFlight

LEMMA SpendPublicChallengeInFlight == ASSUME TypeOK, InFlight, SpendPublicChallenge PROVE InFlight'
<1>1. /\ phase = "reserved" /\ phase' = "first"
      /\ UNCHANGED <<request, snapshot, reservations, slotOwner, Scope, Id, Obligation>>
  BY DEF SpendPublicChallenge, Step, Scope, Id, Obligation, leafVars
<1>2. /\ Wrote("reserved") = TRUE
      /\ Wrote("first") = FALSE
      /\ Wrote("second") = FALSE
      /\ Wrote("leafCommitted") = FALSE
      /\ Wrote("enqueued") = FALSE
      /\ Wrote("recorded") = FALSE
  BY <1>1 DEF Wrote, From
<1>3. /\ Wrote("reserved")' = TRUE
      /\ Wrote("first")' = TRUE
      /\ Wrote("second")' = FALSE
      /\ Wrote("leafCommitted")' = FALSE
      /\ Wrote("enqueued")' = FALSE
      /\ Wrote("recorded")' = FALSE
  BY <1>1 DEF Wrote, From
<1>4. ChecksHold'
  BY <1>1, <1>2, <1>3 DEF InFlight, ChecksHold
<1>5. WritesSoFar'
  <2>1. MapsWritten /\ LeafWritten
    BY <1>1, WritesParts DEF InFlight
  <2>2. LeafWritten'
    BY <1>1, <1>2, <1>3, <2>1, LeafKept
  <2>3. MapsWritten'
    BY <1>1, <1>2, <1>3, <2>1 DEF SpendPublicChallenge, MapsWritten, ballotVars, leafVars, owedVars
  <2>4. QED
    BY <2>2, <2>3, WritesPartsPrimed
<1>6. QED
  BY <1>4, <1>5 DEF InFlight

LEMMA PersistSpoiledInFlight == ASSUME TypeOK, InFlight, PersistSpoiled PROVE InFlight'
<1>1. /\ phase = "first" /\ phase' = "second"
      /\ UNCHANGED <<request, snapshot, reservations, slotOwner, Scope, Id, Obligation>>
  BY DEF PersistSpoiled, Step, Scope, Id, Obligation, leafVars
<1>2. /\ Wrote("reserved") = TRUE
      /\ Wrote("first") = TRUE
      /\ Wrote("second") = FALSE
      /\ Wrote("leafCommitted") = FALSE
      /\ Wrote("enqueued") = FALSE
      /\ Wrote("recorded") = FALSE
  BY <1>1 DEF Wrote, From
<1>3. /\ Wrote("reserved")' = TRUE
      /\ Wrote("first")' = TRUE
      /\ Wrote("second")' = TRUE
      /\ Wrote("leafCommitted")' = FALSE
      /\ Wrote("enqueued")' = FALSE
      /\ Wrote("recorded")' = FALSE
  BY <1>1 DEF Wrote, From
<1>4. ChecksHold'
  BY <1>1, <1>2, <1>3 DEF InFlight, ChecksHold
<1>5. WritesSoFar'
  <2>1. MapsWritten /\ LeafWritten
    BY <1>1, WritesParts DEF InFlight
  <2>2. LeafWritten'
    BY <1>1, <1>2, <1>3, <2>1, LeafKept
  <2>3. MapsWritten'
    BY <1>1, <1>2, <1>3, <2>1 DEF PersistSpoiled, MapsWritten, leafVars, owedVars
  <2>4. QED
    BY <2>2, <2>3, WritesPartsPrimed
<1>6. QED
  BY <1>4, <1>5 DEF InFlight

LEMMA EnqueueObligationInFlight == ASSUME TypeOK, InFlight, EnqueueObligation PROVE InFlight'
<1>1. /\ phase = "leafCommitted" /\ phase' = "enqueued"
      /\ UNCHANGED <<request, snapshot, reservations, slotOwner, Scope, Id, Obligation>>
  BY DEF EnqueueObligation, Step, Scope, Id, Obligation, leafVars
<1>2. /\ Wrote("reserved") = TRUE
      /\ Wrote("first") = TRUE
      /\ Wrote("second") = TRUE
      /\ Wrote("leafCommitted") = TRUE
      /\ Wrote("enqueued") = FALSE
      /\ Wrote("recorded") = FALSE
  BY <1>1 DEF Wrote, From
<1>3. /\ Wrote("reserved")' = TRUE
      /\ Wrote("first")' = TRUE
      /\ Wrote("second")' = TRUE
      /\ Wrote("leafCommitted")' = TRUE
      /\ Wrote("enqueued")' = TRUE
      /\ Wrote("recorded")' = FALSE
  BY <1>1 DEF Wrote, From
<1>4. ChecksHold'
  BY <1>1, <1>2, <1>3 DEF InFlight, ChecksHold
<1>5. WritesSoFar'
  <2>1. MapsWritten /\ LeafWritten
    BY <1>1, WritesParts DEF InFlight
  <2>2. LeafWritten'
    BY <1>1, <1>2, <1>3, <2>1, LeafKept
  <2>3. MapsWritten'
    BY <1>1, <1>2, <1>3, <2>1 DEF EnqueueObligation, MapsWritten, ballotVars, leafVars
  <2>4. QED
    BY <2>2, <2>3, WritesPartsPrimed
<1>6. QED
  BY <1>4, <1>5 DEF InFlight

LEMMA RecordIdempotencyInFlight == ASSUME TypeOK, InFlight, RecordIdempotency PROVE InFlight'
<1>1. /\ phase = "enqueued" /\ phase' = "recorded"
      /\ UNCHANGED <<request, snapshot, reservations, slotOwner, Scope, Id, Obligation>>
  BY DEF RecordIdempotency, Step, Scope, Id, Obligation, leafVars
<1>2. /\ Wrote("reserved") = TRUE
      /\ Wrote("first") = TRUE
      /\ Wrote("second") = TRUE
      /\ Wrote("leafCommitted") = TRUE
      /\ Wrote("enqueued") = TRUE
      /\ Wrote("recorded") = FALSE
  BY <1>1 DEF Wrote, From
<1>3. /\ Wrote("reserved")' = TRUE
      /\ Wrote("first")' = TRUE
      /\ Wrote("second")' = TRUE
      /\ Wrote("leafCommitted")' = TRUE
      /\ Wrote("enqueued")' = TRUE
      /\ Wrote("recorded")' = TRUE
  BY <1>1 DEF Wrote, From
<1>4. ChecksHold'
  BY <1>1, <1>2, <1>3 DEF InFlight, ChecksHold
<1>5. WritesSoFar'
  <2>1. MapsWritten /\ LeafWritten
    BY <1>1, WritesParts DEF InFlight
  <2>2. LeafWritten'
    BY <1>1, <1>2, <1>3, <2>1, LeafKept
  <2>3. MapsWritten'
    BY <1>1, <1>2, <1>3, <2>1 DEF RecordIdempotency, MapsWritten, ballotVars, leafVars, owedVars
  <2>4. QED
    BY <2>2, <2>3, WritesPartsPrimed
<1>6. QED
  BY <1>4, <1>5 DEF InFlight

LEMMA CommitReservationInFlight ==
    ASSUME TypeOK, InFlight, CommitReservation
    PROVE  InFlight'
<1> DEFINE old == reservations[Scope]
           new == [batch |-> old.batch, leaf |-> old.leaf, ref |-> old.ref, committed |-> TRUE]
<1>1. /\ phase = "second" /\ phase' = "leafCommitted"
      /\ UNCHANGED <<request, snapshot, slotOwner, Scope, Id, Obligation,
                     continuations, idempotency, accepted, spoiled, obligations>>
  BY DEF CommitReservation, Step, Scope, Id, Obligation, ballotVars, owedVars
<1>2. /\ Wrote("reserved") = TRUE /\ Wrote("first") = TRUE /\ Wrote("second") = TRUE
      /\ Wrote("leafCommitted") = FALSE /\ Wrote("enqueued") = FALSE
      /\ Wrote("recorded") = FALSE
  BY <1>1 DEF Wrote, From
<1>3. /\ Wrote("reserved")' = TRUE /\ Wrote("first")' = TRUE /\ Wrote("second")' = TRUE
      /\ Wrote("leafCommitted")' = TRUE /\ Wrote("enqueued")' = FALSE
      /\ Wrote("recorded")' = FALSE
  BY <1>1 DEF Wrote, From
<1>4. /\ Scope \in Scopes /\ old \in LeafReservation
      /\ reservations \in [Scopes -> LeafReservation \cup {None}]
      /\ snapshot.reservations \in [Scopes -> LeafReservation \cup {None}]
  BY <1>1, RequestFields DEF CommitReservation, StoreTypes, ReferenceStore
<1>5. /\ reservations = [snapshot.reservations EXCEPT ![Scope] =
            [batch |-> request.batch, leaf |-> old.leaf, ref |-> Id, committed |-> FALSE]]
      /\ old = [batch |-> request.batch, leaf |-> old.leaf, ref |-> Id, committed |-> FALSE]
      /\ new = [batch |-> request.batch, leaf |-> old.leaf, ref |-> Id, committed |-> TRUE]
      /\ new \in LeafReservation
  <2> DEFINE rec == [batch |-> request.batch, leaf |-> old.leaf, ref |-> Id, committed |-> FALSE]
  <2>1. reservations = [snapshot.reservations EXCEPT ![Scope] = rec]
    BY <1>1, <1>2 DEF InFlight, WritesSoFar
  <2>2. old = rec
    BY <1>4, <2>1, Zenon
  <2>3. new = [batch |-> request.batch, leaf |-> old.leaf, ref |-> Id, committed |-> TRUE]
    <3>1. rec.batch = request.batch /\ rec.ref = Id
      OBVIOUS
    <3>2. old.batch = request.batch /\ old.ref = Id
      BY <2>2, <3>1, Zenon
    <3>3. QED
      BY <3>2
  <2>4. new \in LeafReservation
    BY <1>4 DEF LeafReservation
  <2>5. QED
    BY <2>1, <2>2, <2>3, <2>4
<1>6. reservations' = [reservations EXCEPT ![Scope] = new] /\ reservations'[Scope] = new
  BY <1>4 DEF CommitReservation
<1>7. /\ reservations'[Scope] # None
      /\ reservations'[Scope].leaf = old.leaf
  BY <1>5, <1>6, NoneAssumption
<1>8. ChecksHold'
  BY <1>1, <1>2, <1>3, <1>7 DEF InFlight, ChecksHold
<1>9. WritesSoFar'
  <2>1. reservations' = [snapshot.reservations EXCEPT ![Scope] =
           [batch |-> request.batch, leaf |-> old.leaf, ref |-> Id, committed |-> TRUE]]
    BY <1>4, <1>5, <1>6
  <2>2. QED
    BY <1>1, <1>2, <1>3, <1>7, <2>1 DEF InFlight, WritesSoFar
<1>10. QED
  BY <1>8, <1>9 DEF InFlight

(* Sweeps touch nothing but the outbox.                                    *)
LEMMA DispatchInFlight ==
    ASSUME TypeOK, InFlight, NEW d \in Dispatchers, DispatchOutbox(d)
    PROVE  InFlight'
<1>1. UNCHANGED <<request, snapshot, phase, continuations, idempotency, accepted, spoiled,
                  reservations, slotOwner, obligations>>
  BY SweepWrites DEF txVars, ballotVars, leafVars
<1>2. QED
  BY <1>1 DEF InFlight, ChecksHold, WritesSoFar, Wrote, Scope, Id, Obligation

LEMMA NextInFlight == ASSUME TypeOK, InFlight, [Next]_vars PROVE InFlight'
<1>1. CASE Submission
  <2>1. CASE \E r \in Requests : Begin(r)
    BY <2>1, BeginInFlight
  <2>2. CASE Conflict \/ RefuseCapability \/ RefuseProofs \/ RefuseDuplicate \/ RefuseCapacity
             \/ Fault \/ Replay \/ Commit
    <3>1. Leave
      BY <2>2 DEF Conflict, RefuseCapability, RefuseProofs, RefuseDuplicate, RefuseCapacity,
         Fault, Replay, Commit, Rollback
    <3>2. QED
      BY <3>1, LeaveInFlight
  <2>3. QED
    BY <1>1, <2>1, <2>2, CheckInFlight, ReserveInFlight, PersistCastInFlight,
       ConsumeForCastInFlight, SpendPublicChallengeInFlight, PersistSpoiledInFlight,
       CommitReservationInFlight, EnqueueObligationInFlight, RecordIdempotencyInFlight
       DEF Submission
<1>2. CASE \E d \in Dispatchers : DispatchOutbox(d)
  BY <1>2, DispatchInFlight
<1>3. CASE UNCHANGED vars
  BY <1>3 DEF InFlight, ChecksHold, WritesSoFar, Wrote, Scope, Id, Obligation, vars, storeVars,
     ballotVars, leafVars, owedVars, txVars, sweepVars
<1>4. QED
  BY <1>1, <1>2, <1>3 DEF Next

(* InFlight: between taking the lock and releasing it, the store is the    *)
(* snapshot plus exactly the writes of the phases passed, and every check  *)
(* the transaction made still holds of what it goes on to overwrite.       *)
THEOREM TransactionIsolated == Spec => []InFlight
<1>1. Init => InFlight
  BY DEF Init, InFlight, ChecksHold, WritesSoFar, Wrote, From
<1>2. QED
  BY <1>1, NextInFlight, TypeCorrect, PTL DEF Spec

(***************************************************************************)
(* What every committed store satisfies                                    *)
(***************************************************************************)

(* The inductive invariant behind OneLeafPerArtefact and Promise: keys,    *)
(* reservations, leaves and artefacts of a committed store are in a one to *)
(* one correspondence, and no ballot is in both boxes.                     *)
Coherent(s) ==
    /\ \A k \in Held(s) :
          /\ s.reservations[k].committed
          /\ s.idempotency[k] # None
          /\ BallotIdOf[s.idempotency[k]] = s.reservations[k].ref
          /\ s.slotOwner[<<s.reservations[k].batch, s.reservations[k].leaf>>] = k
          /\ BoxOf(s, s.reservations[k].ref) = k[1]
    /\ \A k \in Scopes : s.idempotency[k] # None => k \in Held(s)
    /\ \A j, k \in Held(s) : s.reservations[j].ref = s.reservations[k].ref => j = k
    /\ \A l \in Batches \X Leaves : s.slotOwner[l] # None =>
          /\ s.slotOwner[l] \in Held(s)
          /\ <<s.reservations[s.slotOwner[l]].batch, s.reservations[s.slotOwner[l]].leaf>> = l
    /\ \A b \in BallotIds : s.accepted[b] = None \/ s.spoiled[b] = None
    /\ \A b \in BallotIds : BoxOf(s, b) # None =>
          \E k \in Held(s) : s.reservations[k].ref = b

(* Store t is store s with the ballot e added under key k at leaf l of     *)
(* batch n, as a transaction adds it, none of the four having been in use. *)
Adds(s, t, k, e, n, l) ==
    LET b == BallotIdOf[e]
        r == [batch |-> n, leaf |-> l, ref |-> b, committed |-> TRUE]
    IN  /\ s.idempotency[k] = None /\ s.slotOwner[<<n, l>>] = None
        /\ s.accepted[b] = None /\ s.spoiled[b] = None
        /\ t.idempotency = [s.idempotency EXCEPT ![k] = e]
        /\ t.reservations = [s.reservations EXCEPT ![k] = r]
        /\ t.slotOwner = [s.slotOwner EXCEPT ![<<n, l>>] = k]
        /\ t.accepted = IF k[1] = "cast" THEN [s.accepted EXCEPT ![b] = e] ELSE s.accepted
        /\ t.spoiled = IF k[1] = "challenge" THEN [s.spoiled EXCEPT ![b] = e] ELSE s.spoiled

(* A store to which one ballot is added stays coherent.                    *)
LEMMA AddingABallot ==
    ASSUME NEW s \in ReferenceStore, NEW t \in ReferenceStore, Coherent(s),
           NEW k \in Scopes, NEW e \in Envelopes, NEW n \in Batches, NEW l \in Leaves,
           Adds(s, t, k, e, n, l)
    PROVE  Coherent(t)
<1> DEFINE b == BallotIdOf[e]
           r == [batch |-> n, leaf |-> l, ref |-> b, committed |-> TRUE]
<1>1. /\ b \in BallotIds /\ k[1] \in {"cast", "challenge"}
      /\ e # None /\ k # None
      /\ r \in LeafReservation /\ r # None
      /\ r.batch = n /\ r.leaf = l /\ r.ref = b /\ r.committed
  <2>1. b \in BallotIds /\ k[1] \in {"cast", "challenge"}
    BY CastingAssumption DEF Scopes, Ops
  <2>2. r \in LeafReservation
    BY <2>1 DEF LeafReservation
  <2>3. r.batch = n /\ r.leaf = l /\ r.ref = b /\ r.committed
    OBVIOUS
  <2>4. QED
    BY <2>1, <2>2, <2>3, NoneAssumption
<1>2. /\ s.idempotency \in [Scopes -> Envelopes \cup {None}]
      /\ s.reservations \in [Scopes -> LeafReservation \cup {None}]
      /\ s.slotOwner \in [Batches \X Leaves -> Scopes \cup {None}]
      /\ s.accepted \in [BallotIds -> Envelopes \cup {None}]
      /\ s.spoiled \in [BallotIds -> Envelopes \cup {None}]
  BY DEF ReferenceStore
<1>3. /\ t.reservations[k] = r /\ t.idempotency[k] = e
      /\ \A j \in Scopes : j # k => /\ t.reservations[j] = s.reservations[j]
                                    /\ t.idempotency[j] = s.idempotency[j]
  BY <1>2 DEF Adds
<1>4. /\ t.slotOwner[<<n, l>>] = k
      /\ \A m \in Batches \X Leaves : m # <<n, l>> => t.slotOwner[m] = s.slotOwner[m]
  BY <1>2 DEF Adds
<1>5. /\ t.accepted[b] = IF k[1] = "cast" THEN e ELSE None
      /\ t.spoiled[b] = IF k[1] = "challenge" THEN e ELSE None
      /\ \A c \in BallotIds : c # b => /\ t.accepted[c] = s.accepted[c]
                                       /\ t.spoiled[c] = s.spoiled[c]
  BY <1>1, <1>2 DEF Adds
<1>6. /\ BoxOf(s, b) = None /\ BoxOf(t, b) = k[1]
      /\ \A c \in BallotIds : c # b => BoxOf(t, c) = BoxOf(s, c)
  BY <1>1, <1>5 DEF BoxOf, Adds
<1>7. k \notin Held(s) /\ Held(t) = Held(s) \cup {k} /\ Held(s) \subseteq Scopes
  <2>1. k \notin Held(s)
    <3>1. \A j \in Held(s) : s.idempotency[j] # None
      BY DEF Coherent
    <3>2. QED
      BY <3>1 DEF Adds
  <2>2. \A j \in Scopes : t.reservations[j] # None <=> s.reservations[j] # None \/ j = k
    BY <1>1, <1>3
  <2>3. QED
    BY <2>1, <2>2 DEF Held
<1>8. \A j \in Held(s) :
        /\ s.reservations[j] \in LeafReservation /\ j # k
        /\ s.reservations[j].ref \in BallotIds \ {b}
        /\ <<s.reservations[j].batch, s.reservations[j].leaf>> \in Batches \X Leaves
        /\ <<s.reservations[j].batch, s.reservations[j].leaf>> # <<n, l>>
  <2> SUFFICES ASSUME NEW j \in Held(s)
               PROVE  /\ s.reservations[j] \in LeafReservation /\ j # k
                      /\ s.reservations[j].ref \in BallotIds \ {b}
                      /\ <<s.reservations[j].batch, s.reservations[j].leaf>>
                            \in Batches \X Leaves
                      /\ <<s.reservations[j].batch, s.reservations[j].leaf>> # <<n, l>>
    OBVIOUS
  <2>1. s.reservations[j] \in LeafReservation
    BY <1>2 DEF Held
  <2>2. /\ s.reservations[j].ref \in BallotIds
        /\ s.reservations[j].batch \in Batches /\ s.reservations[j].leaf \in Leaves
    BY <2>1 DEF LeafReservation
  <2>3. j \in Scopes /\ j # None /\ j[1] # None
    BY <1>7, NoneAssumption DEF Scopes
  <2>4. BoxOf(s, s.reservations[j].ref) = j[1]
    BY DEF Coherent
  <2>5. s.slotOwner[<<s.reservations[j].batch, s.reservations[j].leaf>>] = j
    BY DEF Coherent
  <2>6. s.slotOwner[<<n, l>>] = None
    BY DEF Adds
  <2>7. QED
    BY <2>1, <2>2, <2>3, <2>4, <2>5, <2>6, <1>6, <1>7
<1>9. \A j \in Held(t) :
        /\ t.reservations[j].committed
        /\ t.idempotency[j] # None
        /\ BallotIdOf[t.idempotency[j]] = t.reservations[j].ref
        /\ t.slotOwner[<<t.reservations[j].batch, t.reservations[j].leaf>>] = j
        /\ BoxOf(t, t.reservations[j].ref) = j[1]
  <2>1. ASSUME NEW j \in Held(s)
        PROVE  /\ t.reservations[j].committed
               /\ t.idempotency[j] # None
               /\ BallotIdOf[t.idempotency[j]] = t.reservations[j].ref
               /\ t.slotOwner[<<t.reservations[j].batch, t.reservations[j].leaf>>] = j
               /\ BoxOf(t, t.reservations[j].ref) = j[1]
    <3>1. /\ s.reservations[j].committed
          /\ s.idempotency[j] # None
          /\ BallotIdOf[s.idempotency[j]] = s.reservations[j].ref
          /\ s.slotOwner[<<s.reservations[j].batch, s.reservations[j].leaf>>] = j
          /\ BoxOf(s, s.reservations[j].ref) = j[1]
      BY DEF Coherent
    <3>2. t.reservations[j] = s.reservations[j] /\ t.idempotency[j] = s.idempotency[j]
      BY <1>3, <1>7, <1>8
    <3>3. QED
      BY <3>1, <3>2, <1>4, <1>6, <1>8
  <2>2. /\ t.reservations[k].committed
        /\ t.idempotency[k] # None
        /\ BallotIdOf[t.idempotency[k]] = t.reservations[k].ref
        /\ t.slotOwner[<<t.reservations[k].batch, t.reservations[k].leaf>>] = k
        /\ BoxOf(t, t.reservations[k].ref) = k[1]
    BY <1>1, <1>3, <1>4, <1>6
  <2>3. QED
    BY <2>1, <2>2, <1>7
<1>10. \A j \in Scopes : t.idempotency[j] # None => j \in Held(t)
  BY <1>3, <1>7 DEF Coherent
<1>11. \A i, j \in Held(t) : t.reservations[i].ref = t.reservations[j].ref => i = j
  <2>1. \A i, j \in Held(s) : s.reservations[i].ref = s.reservations[j].ref => i = j
    BY DEF Coherent
  <2>2. \A j \in Held(s) : /\ t.reservations[j] = s.reservations[j]
                           /\ t.reservations[j].ref # t.reservations[k].ref
    <3>1. \A j \in Held(s) : j \in Scopes /\ j # k /\ s.reservations[j].ref # b
      BY <1>7, <1>8
    <3>2. t.reservations[k].ref = b
      BY <1>1, <1>3
    <3>3. QED
      BY <3>1, <3>2, <1>3
  <2>3. QED
    BY <2>1, <2>2, <1>7
<1>12. \A m \in Batches \X Leaves : t.slotOwner[m] # None =>
         /\ t.slotOwner[m] \in Held(t)
         /\ <<t.reservations[t.slotOwner[m]].batch, t.reservations[t.slotOwner[m]].leaf>> = m
  <2> SUFFICES ASSUME NEW m \in Batches \X Leaves, t.slotOwner[m] # None
               PROVE  /\ t.slotOwner[m] \in Held(t)
                      /\ <<t.reservations[t.slotOwner[m]].batch,
                           t.reservations[t.slotOwner[m]].leaf>> = m
    OBVIOUS
  <2>1. CASE m = <<n, l>>
    BY <2>1, <1>1, <1>3, <1>4, <1>7
  <2>2. CASE m # <<n, l>>
    <3>1. t.slotOwner[m] = s.slotOwner[m] /\ s.slotOwner[m] # None
      BY <2>2, <1>4
    <3>2. /\ s.slotOwner[m] \in Held(s)
          /\ <<s.reservations[s.slotOwner[m]].batch, s.reservations[s.slotOwner[m]].leaf>> = m
      BY <3>1 DEF Coherent
    <3>3. QED
      BY <3>1, <3>2, <1>3, <1>7, <1>8
  <2>3. QED
    BY <2>1, <2>2
<1>13. \A c \in BallotIds : t.accepted[c] = None \/ t.spoiled[c] = None
  BY <1>1, <1>5 DEF Coherent
<1>14. \A c \in BallotIds : BoxOf(t, c) # None => \E j \in Held(t) : t.reservations[j].ref = c
  <2>1. \A c \in BallotIds : BoxOf(s, c) # None => \E j \in Held(s) : s.reservations[j].ref = c
    BY DEF Coherent
  <2>2. QED
    BY <2>1, <1>1, <1>3, <1>6, <1>7, <1>8
<1>15. QED
  BY <1>9, <1>10, <1>11, <1>12, <1>13, <1>14 DEF Coherent

(* What a transaction about to commit has made of its snapshot.            *)
LEMMA CommitWrites ==
    ASSUME TypeOK, InFlight, phase = "recorded"
    PROVE  \E l \in CandidateSlots(request.op) :
             /\ Adds(snapshot, Store, Scope, request.env, request.batch, l)
             /\ request.cap \in Capabilities
             /\ Available(request.op, snapshot.continuations[request.cap])
             /\ Store.continuations = [snapshot.continuations EXCEPT ![request.cap] =
                   IF request.op = "cast" THEN Consumed(@) ELSE ChallengeSpent(@)]
             /\ Store.obligations = snapshot.obligations \cup {Obligation}
<1> DEFINE l == reservations[Scope].leaf
           r == [batch |-> request.batch, leaf |-> l, ref |-> Id, committed |-> TRUE]
<1>1. /\ Wrote("reserved") = TRUE /\ Wrote("first") = TRUE /\ Wrote("second") = TRUE
      /\ Wrote("leafCommitted") = TRUE /\ Wrote("enqueued") = TRUE
      /\ Wrote("recorded") = TRUE
  BY DEF Wrote, From
<1>2. request.op \in {"cast", "challenge"}
  BY RequestFields DEF Ops
<1>3. continuations =
        [snapshot.continuations EXCEPT ![request.cap] =
           IF request.op = "cast" THEN Consumed(@) ELSE ChallengeSpent(@)]
  <2>1. CASE request.op = "cast"
    BY <1>1, <2>1 DEF InFlight, WritesSoFar
  <2>2. CASE request.op = "challenge"
    BY <1>1, <2>2 DEF InFlight, WritesSoFar
  <2>3. QED
    BY <1>2, <2>1, <2>2
<1>4. /\ idempotency = [snapshot.idempotency EXCEPT ![Scope] = request.env]
      /\ accepted = IF request.op = "cast"
                    THEN [snapshot.accepted EXCEPT ![Id] = request.env]
                    ELSE snapshot.accepted
      /\ spoiled = IF request.op = "challenge"
                   THEN [snapshot.spoiled EXCEPT ![Id] = request.env]
                   ELSE snapshot.spoiled
      /\ slotOwner = [snapshot.slotOwner EXCEPT ![<<request.batch, l>>] = Scope]
      /\ reservations = [snapshot.reservations EXCEPT ![Scope] = r]
      /\ obligations = snapshot.obligations \cup {Obligation}
  BY <1>1 DEF InFlight, WritesSoFar
<1>5. /\ l \in CandidateSlots(request.op)
      /\ snapshot.idempotency[Scope] = None
      /\ request.cap \in Capabilities
      /\ Available(request.op, snapshot.continuations[request.cap])
      /\ snapshot.accepted[Id] = None /\ snapshot.spoiled[Id] = None
      /\ snapshot.slotOwner[<<request.batch, l>>] = None
  BY <1>1 DEF InFlight, ChecksHold
<1>6. /\ Store.idempotency = idempotency /\ Store.accepted = accepted
      /\ Store.spoiled = spoiled /\ Store.slotOwner = slotOwner
      /\ Store.reservations = reservations /\ Store.continuations = continuations
      /\ Store.obligations = obligations
  BY DEF Store
<1>7. Scope[1] = request.op /\ Id = BallotIdOf[request.env]
  BY DEF Scope, Id
<1>8. Adds(snapshot, Store, Scope, request.env, request.batch, l)
  BY <1>4, <1>5, <1>6, <1>7, Zenon DEF Adds
<1>9. QED
  BY <1>3, <1>4, <1>5, <1>6, <1>8, Zenon

LEMMA CoherentCommit ==
    ASSUME TypeOK, InFlight, phase = "recorded", Coherent(snapshot)
    PROVE  Coherent(Store)
<1>1. PICK l \in CandidateSlots(request.op) :
        Adds(snapshot, Store, Scope, request.env, request.batch, l)
  BY CommitWrites
<1>2. /\ Scope \in Scopes /\ request.env \in Envelopes /\ request.batch \in Batches
      /\ request.op \in Ops /\ snapshot \in ReferenceStore
      /\ Store \in ReferenceStore
  BY RequestFields, StoreIsTyped
<1>3. l \in Leaves
  BY <1>1, <1>2, CastingAssumption DEF CandidateSlots, Leaves, Ops
<1>4. QED
  BY <1>1, <1>2, <1>3, AddingABallot

(* Two stores that differ in their outbox at most.                         *)
SameView(s, t) ==
    /\ t.continuations = s.continuations /\ t.idempotency = s.idempotency
    /\ t.accepted = s.accepted /\ t.spoiled = s.spoiled
    /\ t.reservations = s.reservations /\ t.slotOwner = s.slotOwner
    /\ t.obligations = s.obligations

(* Only a commit changes what the committed store says.                    *)
LEMMA OthersKeepView ==
    ASSUME TypeOK, InFlight, [Next]_vars, ~Commit
    PROVE  SameView(Committed, Committed')
<1> USE DEF Committed, SameView
<1>1. CASE UNCHANGED <<phase, snapshot, continuations, idempotency, ballotVars, leafVars,
                       obligations>>
  BY <1>1 DEF Store, ballotVars, leafVars
<1>2. CASE phase # "idle" /\ phase' # "idle" /\ snapshot' = snapshot
  BY <1>2
<1>3. CASE phase # "idle" /\ Rollback
  <2>1. Committed = snapshot /\ Committed' = Store'
    BY <1>3 DEF Rollback, Leave
  <2>2. QED
    BY <1>3, <2>1 DEF Rollback, Store
<1>4. CASE Replay
  <2>1. Committed = snapshot /\ Committed' = Store'
    BY <1>4 DEF Replay, Leave
  <2>2. /\ Wrote("reserved") = FALSE /\ Wrote("first") = FALSE /\ Wrote("second") = FALSE
        /\ Wrote("enqueued") = FALSE /\ Wrote("recorded") = FALSE /\ phase # "idle"
    BY <1>4 DEF Replay, Wrote, From
  <2>3. QED
    BY <1>4, <2>1, <2>2
       DEF Replay, Store, InFlight, WritesSoFar, storeVars, ballotVars, leafVars, owedVars
<1>5. CASE \E r \in Requests : Begin(r)
  BY <1>5 DEF Begin
<1>6. CASE Submission
  <2>1. CASE Conflict \/ RefuseCapability \/ RefuseProofs \/ RefuseDuplicate
             \/ RefuseCapacity \/ Fault
    <3>1. phase # "idle" /\ Rollback
      BY <2>1 DEF Conflict, RefuseCapability, RefuseProofs, RefuseDuplicate, RefuseCapacity,
         Fault, TripPoints
    <3>2. QED
      BY <3>1, <1>3
  <2>2. CASE \/ ValidateCapability \/ VerifyProofs \/ ReserveLeaf \/ PersistCast
             \/ ConsumeForCast \/ SpendPublicChallenge \/ PersistSpoiled
             \/ CommitReservation \/ EnqueueObligation \/ RecordIdempotency
    <3>1. phase # "idle" /\ phase' # "idle" /\ snapshot' = snapshot
      BY <2>2 DEF ValidateCapability, VerifyProofs, ReserveLeaf, PersistCast, ConsumeForCast,
         SpendPublicChallenge, PersistSpoiled, CommitReservation, EnqueueObligation,
         RecordIdempotency, Step
    <3>2. QED
      BY <3>1, <1>2
  <2>3. QED
    BY <1>4, <1>5, <1>6, <2>1, <2>2 DEF Submission
<1>7. CASE \E d \in Dispatchers : DispatchOutbox(d)
  <2>1. UNCHANGED <<phase, snapshot, continuations, idempotency, ballotVars, leafVars,
                    obligations>>
    BY <1>7, SweepWrites DEF txVars
  <2>2. QED
    BY <2>1, <1>1
<1>8. CASE UNCHANGED vars
  BY <1>1, <1>8 DEF vars, txVars, storeVars, owedVars
<1>9. QED
  BY <1>6, <1>7, <1>8 DEF Next

LEMMA CoherentView ==
    ASSUME NEW s, NEW t, Coherent(s), SameView(s, t)
    PROVE  Coherent(t)
<1>1. Held(t) = Held(s) /\ \A b : BoxOf(t, b) = BoxOf(s, b)
  BY DEF Held, BoxOf, SameView
<1>2. QED
  BY <1>1 DEF Coherent, SameView

LEMMA NextCoherent ==
    ASSUME TypeOK, InFlight, Coherent(Committed), [Next]_vars
    PROVE  Coherent(Committed)'
<1>1. CASE Commit
  <2>1. Committed = snapshot /\ Committed' = Store /\ phase = "recorded"
    BY <1>1 DEF Commit, Leave, Store, storeVars, ballotVars, leafVars, owedVars, Committed
  <2>2. Coherent(Store)
    BY <2>1, CoherentCommit
  <2>3. QED
    BY <2>1, <2>2
<1>2. CASE ~Commit
  BY <1>2, OthersKeepView, CoherentView
<1>3. QED
  BY <1>1, <1>2

LEMMA InitCoherent == Init => Coherent(Committed)
<1> SUFFICES ASSUME Init PROVE Coherent(Store)
  BY DEF Init, Committed
<1>1. /\ Held(Store) = {} /\ \A b \in BallotIds : BoxOf(Store, b) = None
      /\ \A k \in Scopes : Store.idempotency[k] = None
      /\ \A l \in Batches \X Leaves : Store.slotOwner[l] = None
      /\ \A b \in BallotIds : Store.accepted[b] = None
  BY DEF Init, Store, Held, BoxOf
<1>2. QED
  BY <1>1 DEF Coherent

LEMMA CommittedCoherent == Spec => []Coherent(Committed)
<1>1. QED
  BY InitCoherent, NextCoherent, TypeCorrect, TransactionIsolated, PTL DEF Spec

(* A coherent store holds exactly one leaf for every artefact.             *)
LEMMA CoherentLeaves ==
    ASSUME NEW s \in ReferenceStore, Coherent(s)
    PROVE  /\ \A k \in Held(s) : <<k[1], s.reservations[k].ref>> \in Artefacts(s)
           /\ \A a \in Artefacts(s) : \E k \in Held(s) :
                 /\ <<k[1], s.reservations[k].ref>> = a
                 /\ \A j \in Held(s) : s.reservations[j].ref = a[2] => j = k
<1>1. ASSUME NEW k \in Held(s)
      PROVE  /\ k[1] \in {"cast", "challenge"}
             /\ s.reservations[k].ref \in BallotIds
             /\ BoxOf(s, s.reservations[k].ref) = k[1]
  <2>1. k \in Scopes /\ s.reservations[k] \in LeafReservation
    BY DEF Held, ReferenceStore
  <2>2. BoxOf(s, s.reservations[k].ref) = k[1]
    BY DEF Coherent
  <2>3. QED
    BY <2>1, <2>2 DEF Scopes, Ops, LeafReservation
<1>2. None # "cast" /\ None # "challenge"
  BY NoneAssumption DEF Ops
<1>3. \A k \in Held(s) : <<k[1], s.reservations[k].ref>> \in Artefacts(s)
  BY <1>1, <1>2 DEF BoxOf, Artefacts, Accepted, Spoiled
<1>4. ASSUME NEW a \in Artefacts(s)
      PROVE  \E k \in Held(s) : /\ <<k[1], s.reservations[k].ref>> = a
                                /\ \A j \in Held(s) : s.reservations[j].ref = a[2] => j = k
  <2>1. a[2] \in BallotIds /\ a = <<BoxOf(s, a[2]), a[2]>> /\ BoxOf(s, a[2]) # None
    <3>1. \A b \in BallotIds : s.accepted[b] = None \/ s.spoiled[b] = None
      BY DEF Coherent
    <3>2. QED
      BY <3>1, <1>2 DEF Artefacts, Accepted, Spoiled, BoxOf
  <2>2. PICK k \in Held(s) : s.reservations[k].ref = a[2]
    BY <2>1 DEF Coherent
  <2>3. \A j \in Held(s) : s.reservations[j].ref = a[2] => j = k
    BY <2>2 DEF Coherent
  <2>4. QED
    BY <2>1, <2>2, <2>3, <1>1
<1>5. QED
  BY <1>3, <1>4

(* OneLeafPerArtefact: in every store a client can rely on, no reservation *)
(* outlives its transaction, every artefact owns exactly one leaf, and no  *)
(* leaf has two owners.                                                    *)
THEOREM LeavesAreExclusive == Spec => []OneLeafPerArtefact
<1>1. TypeOK /\ Coherent(Committed) => OneLeafPerArtefact
  <2> SUFFICES ASSUME TypeOK, Coherent(Committed) PROVE OneLeafPerArtefact
    OBVIOUS
  <2>1. Committed \in ReferenceStore
    BY DEF Committed, TypeOK
  <2>2. /\ \A k \in Held(Committed) :
              <<k[1], Committed.reservations[k].ref>> \in Artefacts(Committed)
        /\ \A a \in Artefacts(Committed) : \E k \in Held(Committed) :
              /\ <<k[1], Committed.reservations[k].ref>> = a
              /\ \A j \in Held(Committed) : Committed.reservations[j].ref = a[2] => j = k
    BY <2>1, CoherentLeaves
  <2>3. QED
    BY <2>2 DEF OneLeafPerArtefact, Coherent
<1>2. QED
  BY <1>1, TypeCorrect, CommittedCoherent, PTL

(***************************************************************************)
(* The transaction implements the abstract acceptance                      *)
(***************************************************************************)

(* In a coherent store a ballot's leaf is the one its key's reservation    *)
(* holds.                                                                  *)
LEMMA LeafOfHeld ==
    ASSUME NEW s \in ReferenceStore, Coherent(s)
    PROVE  /\ \A k \in Held(s) : LeafOf(s, s.reservations[k].ref)
                                   = <<s.reservations[k].batch, s.reservations[k].leaf>>
           /\ \A b : (\A k \in Held(s) : s.reservations[k].ref # b) => LeafOf(s, b) = None
<1>1. ASSUME NEW k \in Held(s)
      PROVE  LeafOf(s, s.reservations[k].ref)
               = <<s.reservations[k].batch, s.reservations[k].leaf>>
  <2> DEFINE holder == {h \in Held(s) : s.reservations[h].ref = s.reservations[k].ref}
  <2>1. holder = {k}
    BY DEF Coherent
  <2>2. (CHOOSE h \in holder : TRUE) = k
    BY <2>1
  <2>3. QED
    BY <2>1, <2>2 DEF LeafOf
<1>2. ASSUME NEW b, \A k \in Held(s) : s.reservations[k].ref # b
      PROVE  LeafOf(s, b) = None
  <2>1. {h \in Held(s) : s.reservations[h].ref = b} = {}
    BY <1>2
  <2>2. QED
    BY <2>1 DEF LeafOf
<1>3. QED
  BY <1>1, <1>2

(* Adding a ballot gives it the leaf it was added at, which nobody had,    *)
(* and leaves the others where they are.                                   *)
LEMMA AddsALeaf ==
    ASSUME NEW s \in ReferenceStore, NEW t \in ReferenceStore, Coherent(s),
           NEW k \in Scopes, NEW e \in Envelopes, NEW n \in Batches, NEW l \in Leaves,
           Adds(s, t, k, e, n, l)
    PROVE  /\ LeafOf(t, BallotIdOf[e]) = <<n, l>>
           /\ \A c \in BallotIds : c # BallotIdOf[e] => LeafOf(t, c) = LeafOf(s, c)
           /\ \A c \in BallotIds : LeafOf(s, c) # <<n, l>>
<1> DEFINE b == BallotIdOf[e]
           r == [batch |-> n, leaf |-> l, ref |-> b, committed |-> TRUE]
<1>1. Coherent(t)
  BY AddingABallot
<1>2. b \in BallotIds /\ r \in LeafReservation /\ r # None
  <2>1. b \in BallotIds
    BY CastingAssumption
  <2>2. r \in LeafReservation
    BY <2>1 DEF LeafReservation
  <2>3. QED
    BY <2>1, <2>2, NoneAssumption
<1>3. /\ t.reservations[k] = r /\ k \notin Held(s)
      /\ \A j \in Scopes : j # k => t.reservations[j] = s.reservations[j]
  <2>1. s.reservations \in [Scopes -> LeafReservation \cup {None}]
    BY DEF ReferenceStore
  <2>2. t.reservations = [s.reservations EXCEPT ![k] = r] /\ s.idempotency[k] = None
    BY DEF Adds
  <2>3. k \notin Held(s)
    BY <2>2 DEF Coherent
  <2>4. QED
    BY <2>1, <2>2, <2>3
<1>4. Held(t) = Held(s) \cup {k}
  BY <1>2, <1>3 DEF Held
<1>5. LeafOf(t, b) = <<n, l>>
  <2>1. LeafOf(t, t.reservations[k].ref) = <<t.reservations[k].batch, t.reservations[k].leaf>>
    BY <1>1, <1>4, LeafOfHeld
  <2>2. t.reservations[k].ref = b /\ t.reservations[k].batch = n /\ t.reservations[k].leaf = l
    BY <1>3
  <2>3. QED
    BY <2>1, <2>2
<1>6. \A j \in Held(s) : j # k /\ j \in Scopes
  BY <1>3 DEF Held
<1>7. ASSUME NEW c \in BallotIds, c # b PROVE LeafOf(t, c) = LeafOf(s, c)
  <2>1. CASE \E j \in Held(s) : s.reservations[j].ref = c
    <3>1. PICK j \in Held(s) : s.reservations[j].ref = c
      BY <2>1
    <3>2. j \in Held(t) /\ t.reservations[j] = s.reservations[j]
      BY <1>3, <1>4, <1>6
    <3>3. LeafOf(s, c) = <<s.reservations[j].batch, s.reservations[j].leaf>>
      BY <3>1, LeafOfHeld, Zenon
    <3>4. LeafOf(t, c) = <<t.reservations[j].batch, t.reservations[j].leaf>>
      BY <3>1, <3>2, <1>1, LeafOfHeld, Zenon
    <3>5. QED
      BY <3>2, <3>3, <3>4
  <2>2. CASE \A j \in Held(s) : s.reservations[j].ref # c
    <3>1. t.reservations[k].ref = b
      BY <1>3
    <3>2. \A j \in Held(t) : t.reservations[j].ref # c
      BY <2>2, <3>1, <1>3, <1>4, <1>6, <1>7
    <3>3. QED
      BY <2>2, <3>2, <1>1, LeafOfHeld, Zenon
  <2>3. QED
    BY <2>1, <2>2
<1>8. ASSUME NEW c \in BallotIds PROVE LeafOf(s, c) # <<n, l>>
  <2>1. CASE \E j \in Held(s) : s.reservations[j].ref = c
    <3>1. PICK j \in Held(s) : s.reservations[j].ref = c
      BY <2>1
    <3>2. s.slotOwner[<<s.reservations[j].batch, s.reservations[j].leaf>>] = j
      BY DEF Coherent
    <3>3. s.slotOwner[<<n, l>>] = None /\ j # None
      BY <1>6, NoneAssumption DEF Adds
    <3>4. LeafOf(s, c) = <<s.reservations[j].batch, s.reservations[j].leaf>>
      BY <3>1, LeafOfHeld, Zenon
    <3>5. QED
      BY <3>2, <3>3, <3>4
  <2>2. CASE \A j \in Held(s) : s.reservations[j].ref # c
    <3>1. LeafOf(s, c) = None
      BY <2>2, LeafOfHeld, Zenon
    <3>2. QED
      BY <3>1, NoneAssumption
  <2>3. QED
    BY <2>1, <2>2
<1>9. QED
  BY <1>5, <1>7, <1>8

(* ... and puts it in the box its operation is for.                        *)
LEMMA AddsToABox ==
    ASSUME NEW s \in ReferenceStore, NEW t \in ReferenceStore,
           NEW k \in Scopes, NEW e \in Envelopes, NEW n, NEW l,
           Adds(s, t, k, e, n, l)
    PROVE  /\ BoxOf(s, BallotIdOf[e]) = None /\ BoxOf(t, BallotIdOf[e]) = k[1]
           /\ \A c \in BallotIds : c # BallotIdOf[e] => BoxOf(t, c) = BoxOf(s, c)
<1>1. BallotIdOf[e] \in BallotIds /\ k[1] \in {"cast", "challenge"} /\ e # None
  BY CastingAssumption, NoneAssumption DEF Scopes, Ops
<1>2. /\ s.accepted \in [BallotIds -> Envelopes \cup {None}]
      /\ s.spoiled \in [BallotIds -> Envelopes \cup {None}]
  BY DEF ReferenceStore
<1>3. QED
  BY <1>1, <1>2 DEF BoxOf, Adds

LEMMA InitPromise == Init => A!AInit
<1> SUFFICES ASSUME Init PROVE A!AInit
  OBVIOUS
<1>1. Committed = Store
  BY DEF Init, Committed
<1>2. /\ Store.continuations = [c \in Capabilities |-> FreshCapability]
      /\ Store.idempotency = [k \in Scopes |-> None]
      /\ Store.obligations = {}
      /\ Held(Store) = {} /\ \A b \in BallotIds : BoxOf(Store, b) = None
  BY DEF Init, Store, Held, BoxOf
<1>3. \A b \in BallotIds : LeafOf(Store, b) = None
  BY <1>2 DEF LeafOf
<1>4. \A c \in Capabilities : EntitlementOf(Store.continuations[c]) = "full"
  BY <1>2 DEF EntitlementOf, FreshCapability
<1>5. QED
  BY <1>1, <1>2, <1>3, <1>4 DEF A!AInit, A!Ops, Scopes, Ops

LEMMA Stuttering ==
    ASSUME SameView(Committed, Committed')
    PROVE  UNCHANGED A!avars
<1>1. \A b : BoxOf(Committed', b) = BoxOf(Committed, b)
  BY DEF BoxOf, SameView
<1>2. \A b : LeafOf(Committed', b) = LeafOf(Committed, b)
  BY DEF LeafOf, Held, SameView
<1>3. QED
  BY <1>1, <1>2 DEF A!avars, SameView

(* A consumed capability has no challenge left either.                     *)
Exhausted(conts) == \A c \in Capabilities : conts[c].consumed => ~conts[c].challenge

Exhaustion ==
    /\ Exhausted(continuations)
    /\ phase # "idle" => Exhausted(snapshot.continuations)

LEMMA NextExhaustion == ASSUME TypeOK, Exhaustion, [Next]_vars PROVE Exhaustion'
<1> USE DEF Exhaustion
<1>1. /\ continuations \in [Capabilities -> ContinuationState]
      /\ phase # "idle" => snapshot.continuations \in [Capabilities -> ContinuationState]
  BY DEF TypeOK, Store, ReferenceStore
<1>2. CASE UNCHANGED <<continuations, snapshot, phase>>
  BY <1>2 DEF Exhausted
<1>3. CASE Rollback /\ phase # "idle"
  BY <1>3 DEF Rollback, Leave, Exhausted
<1>4. CASE UNCHANGED continuations /\ (Leave \/ (phase # "idle" /\ UNCHANGED snapshot))
  BY <1>4 DEF Leave, Exhausted
<1>5. CASE \E r \in Requests : Begin(r)
  BY <1>5 DEF Begin, Store, storeVars, Exhausted
<1>6. CASE ConsumeForCast \/ SpendPublicChallenge
  <2>1. UNCHANGED snapshot /\ phase # "idle"
    BY <1>6 DEF ConsumeForCast, SpendPublicChallenge, Step
  <2>2. Exhausted(snapshot.continuations)'
    BY <2>1 DEF Exhausted
  <2>3. \A c \in Capabilities : \/ continuations'[c] = continuations[c]
                               \/ continuations'[c] = Consumed(continuations[c])
                               \/ continuations'[c] = ChallengeSpent(continuations[c])
    BY <1>1, <1>6 DEF ConsumeForCast, SpendPublicChallenge
  <2>4. \A u \in ContinuationState : /\ Consumed(u).challenge = FALSE
                                    /\ ChallengeSpent(u).challenge = FALSE
    BY DEF Consumed, ChallengeSpent, ContinuationState
  <2>5. Exhausted(continuations)'
    BY <1>1, <2>3, <2>4 DEF Exhausted
  <2>6. QED
    BY <2>2, <2>5
<1>7. CASE Submission
  <2>1. CASE Conflict \/ RefuseCapability \/ RefuseProofs \/ RefuseDuplicate
             \/ RefuseCapacity \/ Fault
    <3>1. phase # "idle" /\ Rollback
      BY <2>1 DEF Conflict, RefuseCapability, RefuseProofs, RefuseDuplicate, RefuseCapacity,
         Fault, TripPoints
    <3>2. QED
      BY <3>1, <1>3
  <2>2. CASE \/ ValidateCapability \/ VerifyProofs \/ ReserveLeaf \/ PersistCast
             \/ PersistSpoiled \/ CommitReservation \/ EnqueueObligation
             \/ RecordIdempotency \/ Replay \/ Commit
    <3>1. UNCHANGED continuations /\ (Leave \/ (phase # "idle" /\ UNCHANGED snapshot))
      BY <2>2 DEF ValidateCapability, VerifyProofs, ReserveLeaf, PersistCast, PersistSpoiled,
         CommitReservation, EnqueueObligation, RecordIdempotency, Replay, Commit, Step,
         storeVars
    <3>2. QED
      BY <3>1, <1>4
  <2>3. QED
    BY <1>5, <1>6, <1>7, <2>1, <2>2 DEF Submission
<1>8. CASE \E d \in Dispatchers : DispatchOutbox(d)
  <2>1. UNCHANGED <<continuations, snapshot, phase>>
    BY <1>8, SweepWrites DEF txVars
  <2>2. QED
    BY <2>1, <1>2
<1>9. CASE UNCHANGED vars
  BY <1>2, <1>9 DEF vars, txVars, storeVars
<1>10. QED
  BY <1>7, <1>8, <1>9 DEF Next

LEMMA CapabilitiesExhaust == Spec => []Exhaustion
<1>1. Init => Exhaustion
  BY DEF Init, Exhaustion, Exhausted, FreshCapability
<1>2. QED
  BY <1>1, NextExhaustion, TypeCorrect, PTL DEF Spec

LEMMA CommitAccepts ==
    ASSUME TypeOK, InFlight, Coherent(Committed), Exhaustion, Commit
    PROVE  A!ANext
<1> DEFINE s == snapshot
           t == Store
<1>1. /\ Committed = s /\ Committed' = t /\ phase = "recorded"
  BY DEF Commit, Leave, Store, storeVars, ballotVars, leafVars, owedVars, Committed
<1>2. PICK l \in CandidateSlots(request.op) :
        /\ Adds(s, t, Scope, request.env, request.batch, l)
        /\ request.cap \in Capabilities
        /\ Available(request.op, s.continuations[request.cap])
        /\ t.continuations = [s.continuations EXCEPT ![request.cap] =
              IF request.op = "cast" THEN Consumed(@) ELSE ChallengeSpent(@)]
        /\ t.obligations = s.obligations \cup {Obligation}
  BY <1>1, CommitWrites
<1>3. /\ Scope \in Scopes /\ request.env \in Envelopes /\ request.batch \in Batches
      /\ request.op \in Ops /\ request.key \in Keys /\ Id \in BallotIds
      /\ s \in ReferenceStore /\ t \in ReferenceStore
      /\ Scope = <<request.op, request.key>> /\ Id = BallotIdOf[request.env]
      /\ Obligation[2] = Id
  BY <1>1, RequestFields, StoreIsTyped DEF Scope, Id, Obligation
<1>4. l \in Leaves
  BY <1>2, <1>3, CastingAssumption DEF CandidateSlots, Leaves, Ops
<1> HIDE DEF s, t
<1>5. /\ LeafOf(t, Id) = <<request.batch, l>>
      /\ \A c \in BallotIds : c # Id => LeafOf(t, c) = LeafOf(s, c)
      /\ \A c \in BallotIds : LeafOf(s, c) # <<request.batch, l>>
  BY <1>1, <1>2, <1>3, <1>4, AddsALeaf
<1>6. /\ BoxOf(s, Id) = None /\ BoxOf(t, Id) = request.op
      /\ \A c \in BallotIds : c # Id => BoxOf(t, c) = BoxOf(s, c)
  BY <1>2, <1>3, AddsToABox
<1>7. /\ EntitlementOf(t.continuations[request.cap]) = A!Left(request.op)
      /\ IF request.op = "cast"
         THEN EntitlementOf(s.continuations[request.cap]) \in {"full", "castOnly"}
         ELSE EntitlementOf(s.continuations[request.cap]) = "full"
      /\ \A c \in Capabilities : c # request.cap => t.continuations[c] = s.continuations[c]
  <2> DEFINE old == s.continuations[request.cap]
  <2>1. s.continuations \in [Capabilities -> ContinuationState] /\ old \in ContinuationState
    BY <1>2, <1>3 DEF ReferenceStore
  <2>2. old.consumed => ~old.challenge
    BY <1>1, <1>2 DEF Exhaustion, Exhausted, s
  <2>3. CASE request.op = "cast"
    <3>1. t.continuations = [s.continuations EXCEPT ![request.cap] = Consumed(@)]
      BY <1>2, <2>3
    <3>2. ~old.consumed
      BY <1>2, <2>3 DEF Available
    <3>3. QED
      BY <2>1, <2>3, <3>1, <3>2, <1>2 DEF EntitlementOf, Consumed, A!Left
  <2>4. CASE request.op = "challenge"
    <3>1. t.continuations = [s.continuations EXCEPT ![request.cap] = ChallengeSpent(@)]
      BY <1>2, <2>4
    <3>2. old.challenge
      BY <1>2, <2>4 DEF Available
    <3>3. /\ ChallengeSpent(old).consumed = old.consumed /\ ChallengeSpent(old).challenge = FALSE
      BY <2>1 DEF ChallengeSpent, ContinuationState
    <3>4. t.continuations[request.cap] = ChallengeSpent(old)
      BY <2>1, <3>1, <1>2
    <3>5. QED
      BY <2>1, <2>2, <2>4, <3>1, <3>2, <3>3, <3>4, <1>2 DEF EntitlementOf, A!Left
  <2>5. QED
    BY <1>3, <2>3, <2>4 DEF Ops
<1>8. {o[2] : o \in t.obligations} = {o[2] : o \in s.obligations} \cup {Id}
  BY <1>2, <1>3
<1>9. s.idempotency[Scope] = None /\ t.idempotency = [s.idempotency EXCEPT ![Scope] = request.env]
  BY <1>2 DEF Adds
<1>10. l \in A!Eligible(request.op)
  BY <1>2, <1>3 DEF A!Eligible, Ops
<1>11. A!Accept(request.op, request.cap, request.env, request.key, request.batch, l)
  <2>1. A!Entitled(request.op, request.cap)
    BY <1>1, <1>2, <1>7 DEF A!Entitled
  <2>2. [c \in Capabilities |-> EntitlementOf(t.continuations[c])]
          = [[c \in Capabilities |-> EntitlementOf(s.continuations[c])]
               EXCEPT ![request.cap] = A!Left(request.op)]
    BY <1>2, <1>7
  <2>3. [c \in BallotIds |-> BoxOf(t, c)]
          = [[c \in BallotIds |-> BoxOf(s, c)] EXCEPT ![Id] = request.op]
    BY <1>3, <1>6
  <2>4. [c \in BallotIds |-> LeafOf(t, c)]
          = [[c \in BallotIds |-> LeafOf(s, c)] EXCEPT ![Id] = <<request.batch, l>>]
    BY <1>3, <1>5
  <2>5. t.idempotency = [s.idempotency EXCEPT ![<<request.op, request.key>>] = request.env]
        /\ s.idempotency[<<request.op, request.key>>] = None
    BY <1>3, <1>9, Zenon
  <2>6. [c \in BallotIds |-> BoxOf(s, c)][Id] = None
    BY <1>3, <1>6
  <2>7. \A c \in BallotIds : [d \in BallotIds |-> LeafOf(s, d)][c] # <<request.batch, l>>
    BY <1>5
  <2>8. QED
    BY <1>1, <1>3, <1>8, <1>10, <2>1, <2>2, <2>3, <2>4, <2>5, <2>6, <2>7, Zenon DEF A!Accept
<1>12. QED
  BY <1>2, <1>3, <1>10, <1>11 DEF A!ANext, A!Ops, Ops

(* Every step of the boundary is one of Acceptance or nothing at all.      *)
LEMMA AcceptsOrStutters ==
    ASSUME TypeOK, InFlight, Coherent(Committed), Exhaustion, [Next]_vars
    PROVE  [A!ANext]_A!avars
<1>1. CASE Commit
  BY <1>1, CommitAccepts
<1>2. CASE ~Commit
  BY <1>2, OthersKeepView, Stuttering
<1>3. QED
  BY <1>1, <1>2

(* Promise: the transaction, with every refusal, rollback and interleaved  *)
(* sweep, implements the single indivisible step of Acceptance.            *)
THEOREM ImplementsAcceptance == Spec => Promise
  BY InitPromise, AcceptsOrStutters, TypeCorrect, TransactionIsolated, CommittedCoherent,
     CapabilitiesExhaust, PTL
     DEF Spec, Promise, A!ASpec

(***************************************************************************)
(* What committed submissions have paid                                    *)
(***************************************************************************)

Spent(conts) == {c \in Capabilities : conts[c].consumed}
Challenged(conts) == {c \in Capabilities : ~conts[c].challenge}

(* EntitlementsPaid of one store, with the finiteness that its counts need.*)
Paid(s) ==
    /\ IsFiniteSet(Accepted(s)) /\ IsFiniteSet(Spoiled(s))
    /\ IsFiniteSet(Spent(s.continuations)) /\ IsFiniteSet(Challenged(s.continuations))
    /\ Cardinality(Accepted(s)) = Cardinality(Spent(s.continuations))
    /\ Cardinality(Spoiled(s)) <= Cardinality(Challenged(s.continuations))
    /\ Cardinality(Challenged(s.continuations) \ Spent(s.continuations))
          <= Cardinality(Spoiled(s))

(* Adding a ballot adds it to the artefacts of its kind, and to no others. *)
LEMMA AddsAnArtefact ==
    ASSUME NEW s \in ReferenceStore, NEW t \in ReferenceStore,
           NEW k \in Scopes, NEW e \in Envelopes, NEW n, NEW l,
           Adds(s, t, k, e, n, l)
    PROVE  /\ BallotIdOf[e] \in BallotIds
           /\ BallotIdOf[e] \notin Accepted(s) /\ BallotIdOf[e] \notin Spoiled(s)
           /\ k[1] = "cast" => /\ Accepted(t) = Accepted(s) \cup {BallotIdOf[e]}
                               /\ Spoiled(t) = Spoiled(s)
           /\ k[1] = "challenge" => /\ Accepted(t) = Accepted(s)
                                    /\ Spoiled(t) = Spoiled(s) \cup {BallotIdOf[e]}
<1>1. BallotIdOf[e] \in BallotIds /\ k[1] \in {"cast", "challenge"} /\ e # None
  BY CastingAssumption, NoneAssumption DEF Scopes, Ops
<1>2. /\ s.accepted \in [BallotIds -> Envelopes \cup {None}]
      /\ s.spoiled \in [BallotIds -> Envelopes \cup {None}]
  BY DEF ReferenceStore
<1>3. QED
  BY <1>1, <1>2 DEF Accepted, Spoiled, Adds

(* A cast takes everything that was left of a capability ...               *)
LEMMA CastSpends ==
    ASSUME NEW conts \in [Capabilities -> ContinuationState], NEW after,
           NEW c \in Capabilities, ~conts[c].consumed,
           after = [conts EXCEPT ![c] = Consumed(@)]
    PROVE  /\ c \notin Spent(conts) /\ Spent(after) = Spent(conts) \cup {c}
           /\ Challenged(after) = Challenged(conts) \cup {c}
<1>1. /\ Consumed(conts[c]).consumed = TRUE /\ Consumed(conts[c]).challenge = FALSE
      /\ after[c] = Consumed(conts[c]) /\ \A d \in Capabilities : d # c => after[d] = conts[d]
  BY DEF Consumed
<1>2. QED
  BY <1>1 DEF Spent, Challenged

(* ... and a challenge the challenge alone.                                *)
LEMMA ChallengeSpends ==
    ASSUME NEW conts \in [Capabilities -> ContinuationState], NEW after, Exhausted(conts),
           NEW c \in Capabilities, conts[c].challenge,
           after = [conts EXCEPT ![c] = ChallengeSpent(@)]
    PROVE  /\ c \notin Spent(conts) /\ Spent(after) = Spent(conts)
           /\ c \notin Challenged(conts) /\ Challenged(after) = Challenged(conts) \cup {c}
<1>1. conts[c] \in ContinuationState
  OBVIOUS
<1>2. /\ ChallengeSpent(conts[c]).consumed = conts[c].consumed
      /\ ChallengeSpent(conts[c]).challenge = FALSE
      /\ after[c] = ChallengeSpent(conts[c])
      /\ \A d \in Capabilities : d # c => after[d] = conts[d]
  BY <1>1 DEF ChallengeSpent, ContinuationState
<1>3. QED
  BY <1>1, <1>2 DEF Spent, Challenged, Exhausted

(* Counting up sets that gain an element each.                             *)
LEMMA OneMore ==
    ASSUME NEW S, IsFiniteSet(S), NEW x, x \notin S
    PROVE  /\ IsFiniteSet(S \cup {x}) /\ Cardinality(S) \in Nat
           /\ Cardinality(S \cup {x}) = Cardinality(S) + 1
BY FS_AddElement, FS_CardinalityType

LEMMA NoFewer ==
    ASSUME NEW S, NEW T, IsFiniteSet(S), T \subseteq S
    PROVE  /\ IsFiniteSet(T) /\ Cardinality(T) \in Nat /\ Cardinality(S) \in Nat
           /\ Cardinality(T) <= Cardinality(S)
BY FS_Subset, FS_CardinalityType

LEMMA PaidCommit ==
    ASSUME TypeOK, InFlight, phase = "recorded", Paid(snapshot), Exhaustion
    PROVE  Paid(Store)
<1>1. PICK l \in CandidateSlots(request.op) :
        /\ Adds(snapshot, Store, Scope, request.env, request.batch, l)
        /\ request.cap \in Capabilities
        /\ Available(request.op, snapshot.continuations[request.cap])
        /\ Store.continuations = [snapshot.continuations EXCEPT ![request.cap] =
              IF request.op = "cast" THEN Consumed(@) ELSE ChallengeSpent(@)]
  BY CommitWrites
<1>2. /\ Scope \in Scopes /\ request.env \in Envelopes /\ request.op \in {"cast", "challenge"}
      /\ snapshot \in ReferenceStore /\ Store \in ReferenceStore /\ Scope[1] = request.op
  BY RequestFields, StoreIsTyped DEF Scope, Ops
<1>3. /\ snapshot.continuations \in [Capabilities -> ContinuationState]
      /\ Exhausted(snapshot.continuations)
  BY <1>2 DEF ReferenceStore, Exhaustion
<1> DEFINE c     == request.cap
           b     == BallotIdOf[request.env]
           spent == Spent(snapshot.continuations)
           gone  == Challenged(snapshot.continuations)
           acc   == Accepted(snapshot)
           spoil == Spoiled(snapshot)
<1>4. /\ IsFiniteSet(acc) /\ IsFiniteSet(spoil) /\ IsFiniteSet(spent) /\ IsFiniteSet(gone)
      /\ Cardinality(acc) = Cardinality(spent)
      /\ Cardinality(spoil) <= Cardinality(gone)
      /\ Cardinality(gone \ spent) <= Cardinality(spoil)
  BY DEF Paid
<1>5. CASE request.op = "cast"
  <2>1. /\ ~snapshot.continuations[c].consumed
        /\ Store.continuations = [snapshot.continuations EXCEPT ![c] = Consumed(@)]
    BY <1>1, <1>5 DEF Available
  <2>2. /\ c \notin spent /\ Spent(Store.continuations) = spent \cup {c}
        /\ Challenged(Store.continuations) = gone \cup {c}
    BY <1>1, <1>3, <2>1, CastSpends
  <2>3. /\ b \notin acc /\ Accepted(Store) = acc \cup {b} /\ Spoiled(Store) = spoil
    BY <1>1, <1>2, <1>5, AddsAnArtefact
  <2> HIDE DEF c, b, spent, gone, acc, spoil
  <2>4. /\ IsFiniteSet(acc \cup {b}) /\ Cardinality(acc \cup {b}) = Cardinality(acc) + 1
        /\ IsFiniteSet(spent \cup {c}) /\ Cardinality(spent \cup {c}) = Cardinality(spent) + 1
    BY <1>4, <2>2, <2>3, OneMore
  <2>5. /\ IsFiniteSet(gone \cup {c}) /\ Cardinality(gone) <= Cardinality(gone \cup {c})
        /\ Cardinality(gone) \in Nat /\ Cardinality(gone \cup {c}) \in Nat
    <3>1. IsFiniteSet(gone \cup {c})
      BY <1>4, FS_AddElement
    <3>2. QED
      BY <3>1, NoFewer
  <2>6. /\ Cardinality((gone \cup {c}) \ (spent \cup {c})) <= Cardinality(gone \ spent)
        /\ Cardinality((gone \cup {c}) \ (spent \cup {c})) \in Nat
        /\ Cardinality(gone \ spent) \in Nat
    <3>1. IsFiniteSet(gone \ spent)
      BY <1>4, NoFewer
    <3>2. (gone \cup {c}) \ (spent \cup {c}) \subseteq gone \ spent
      OBVIOUS
    <3>3. QED
      BY <3>1, <3>2, NoFewer
  <2>7. Cardinality(spoil) \in Nat
    BY <1>4, FS_CardinalityType
  <2>8. QED
    BY <1>4, <2>2, <2>3, <2>4, <2>5, <2>6, <2>7 DEF Paid
<1>6. CASE request.op = "challenge"
  <2>1. /\ snapshot.continuations[c].challenge
        /\ Store.continuations = [snapshot.continuations EXCEPT ![c] = ChallengeSpent(@)]
    BY <1>1, <1>6 DEF Available
  <2>2. /\ c \notin spent /\ Spent(Store.continuations) = spent
        /\ c \notin gone /\ Challenged(Store.continuations) = gone \cup {c}
    BY <1>1, <1>3, <2>1, ChallengeSpends
  <2>3. /\ b \notin spoil /\ Spoiled(Store) = spoil \cup {b} /\ Accepted(Store) = acc
    BY <1>1, <1>2, <1>6, AddsAnArtefact
  <2> HIDE DEF c, b, spent, gone, acc, spoil
  <2>4. /\ IsFiniteSet(spoil \cup {b}) /\ Cardinality(spoil \cup {b}) = Cardinality(spoil) + 1
        /\ IsFiniteSet(gone \cup {c}) /\ Cardinality(gone \cup {c}) = Cardinality(gone) + 1
        /\ Cardinality(spoil) \in Nat /\ Cardinality(gone) \in Nat
    BY <1>4, <2>2, <2>3, OneMore
  <2>5. (gone \cup {c}) \ spent = (gone \ spent) \cup {c}
    BY <2>2
  <2>6. /\ Cardinality((gone \cup {c}) \ spent) = Cardinality(gone \ spent) + 1
        /\ Cardinality(gone \ spent) \in Nat
    <3>1. IsFiniteSet(gone \ spent) /\ c \notin gone \ spent
      BY <1>4, <2>2, NoFewer
    <3>2. Cardinality((gone \ spent) \cup {c}) = Cardinality(gone \ spent) + 1
      BY <3>1, OneMore
    <3>3. QED
      BY <2>5, <3>1, <3>2, FS_CardinalityType
  <2>7. QED
    BY <1>4, <2>2, <2>3, <2>4, <2>6 DEF Paid
<1>7. QED
  BY <1>2, <1>5, <1>6

LEMMA NextPaid ==
    ASSUME TypeOK, InFlight, Exhaustion, Paid(Committed), [Next]_vars
    PROVE  Paid(Committed)'
<1>1. CASE Commit
  <2>1. Committed = snapshot /\ Committed' = Store /\ phase = "recorded"
    BY <1>1 DEF Commit, Leave, Store, storeVars, ballotVars, leafVars, owedVars, Committed
  <2>2. Paid(Store)
    BY <2>1, PaidCommit
  <2>3. QED
    BY <2>1, <2>2
<1>2. CASE ~Commit
  <2>1. SameView(Committed, Committed')
    BY <1>2, OthersKeepView
  <2>2. QED
    BY <2>1 DEF SameView, Paid, Accepted, Spoiled
<1>3. QED
  BY <1>1, <1>2

LEMMA InitPaid == Init => Paid(Committed)
<1> SUFFICES ASSUME Init PROVE Paid(Store)
  BY DEF Init, Committed
<1>1. /\ Accepted(Store) = {} /\ Spoiled(Store) = {}
      /\ Spent(Store.continuations) = {} /\ Challenged(Store.continuations) = {}
  BY DEF Init, Store, Accepted, Spoiled, Spent, Challenged, FreshCapability
<1>2. {} \ {} = {} /\ IsFiniteSet({}) /\ Cardinality({}) = 0
  BY FS_EmptySet
<1>3. QED
  BY <1>1, <1>2 DEF Paid

(* EntitlementsPaid: in every store a client can rely on, as many          *)
(* capabilities are consumed as ballots were accepted, and the challenges  *)
(* spent cover the spoiled ballots.                                        *)
THEOREM AllIsPaidFor == Spec => []EntitlementsPaid
<1>1. Spec => []Paid(Committed)
  BY InitPaid, NextPaid, TypeCorrect, TransactionIsolated, CapabilitiesExhaust, PTL DEF Spec
<1>2. Paid(Committed) => EntitlementsPaid
  BY DEF Paid, Spent, Challenged, EntitlementsPaid
<1>3. QED
  BY <1>1, <1>2, PTL

(***************************************************************************)
(* Challenges never starve casts                                           *)
(***************************************************************************)

(* The held reservations are finitely many, and each holds a leaf that its *)
(* operation may take.                                                     *)
InItsClass(s) ==
    /\ IsFiniteSet(Held(s))
    /\ \A k \in Held(s) : s.reservations[k].leaf \in CandidateSlots(k[1])

LEMMA InItsClassCommit ==
    ASSUME TypeOK, InFlight, phase = "recorded", InItsClass(snapshot)
    PROVE  InItsClass(Store)
<1>1. PICK l \in CandidateSlots(request.op) :
        Adds(snapshot, Store, Scope, request.env, request.batch, l)
  BY CommitWrites
<1>2. /\ snapshot.reservations \in [Scopes -> LeafReservation \cup {None}]
      /\ Scope \in Scopes /\ Scope[1] = request.op
  BY RequestFields DEF ReferenceStore, Scope
<1> DEFINE r == [batch |-> request.batch, leaf |-> l, ref |-> BallotIdOf[request.env],
                 committed |-> TRUE]
<1>3. /\ Store.reservations = [snapshot.reservations EXCEPT ![Scope] = r]
      /\ r.leaf = l
  BY <1>1 DEF Adds
<1> HIDE DEF r
<1>4. /\ Store.reservations[Scope] = r
      /\ \A k \in Scopes : k # Scope => Store.reservations[k] = snapshot.reservations[k]
  BY <1>2, <1>3
<1>5. Held(Store) \subseteq Held(snapshot) \cup {Scope}
  BY <1>4 DEF Held
<1>6. IsFiniteSet(Held(Store))
  <2>1. IsFiniteSet(Held(snapshot) \cup {Scope})
    BY FS_AddElement DEF InItsClass
  <2>2. QED
    BY <1>5, <2>1, FS_Subset
<1>7. ASSUME NEW k \in Held(Store) PROVE Store.reservations[k].leaf \in CandidateSlots(k[1])
  <2>1. CASE k = Scope
    BY <2>1, <1>2, <1>3, <1>4
  <2>2. CASE k # Scope
    <3>1. k \in Held(snapshot) /\ k \in Scopes
      BY <2>2, <1>5 DEF Held
    <3>2. QED
      BY <2>2, <3>1, <1>4 DEF InItsClass
  <2>3. QED
    BY <2>1, <2>2
<1>8. QED
  BY <1>6, <1>7 DEF InItsClass

LEMMA NextInItsClass ==
    ASSUME TypeOK, InFlight, InItsClass(Committed), [Next]_vars
    PROVE  InItsClass(Committed)'
<1>1. CASE Commit
  <2>1. Committed = snapshot /\ Committed' = Store /\ phase = "recorded"
    BY <1>1 DEF Commit, Leave, Store, storeVars, ballotVars, leafVars, owedVars, Committed
  <2>2. InItsClass(Store)
    BY <2>1, InItsClassCommit
  <2>3. QED
    BY <2>1, <2>2 DEF InItsClass, CandidateSlots
<1>2. CASE ~Commit
  <2>1. SameView(Committed, Committed')
    BY <1>2, OthersKeepView
  <2>2. QED
    BY <2>1 DEF SameView, InItsClass, Held, CandidateSlots
<1>3. QED
  BY <1>1, <1>2

LEMMA InitInItsClass == Init => InItsClass(Committed)
<1> SUFFICES ASSUME Init PROVE InItsClass(Store)
  BY DEF Init, Committed
<1>1. Held(Store) = {}
  BY DEF Init, Store, Held
<1>2. QED
  BY <1>1, FS_EmptySet DEF InItsClass

(* A batch whose cast leaves are all taken carries a cast for each leaf    *)
(* that is reserved for casts.                                             *)
LEMMA CastsFillTheirLeaves ==
    ASSUME NEW s \in ReferenceStore, Coherent(s), InItsClass(s), NEW n \in Batches,
           \A l \in CandidateSlots("cast") : s.slotOwner[<<n, l>>] # None
    PROVE  Cardinality({k \in Held(s) : k[1] = "cast" /\ s.reservations[k].batch = n})
              >= CastReserved
<1> DEFINE casts == {k \in Held(s) : k[1] = "cast" /\ s.reservations[k].batch = n}
           own   == 0 .. (CastReserved - 1)
           owner == [l \in own |-> s.slotOwner[<<n, l>>]]
<1>1. \A l \in own : l \in CandidateSlots("cast") /\ l \in Leaves
                     /\ l \notin CandidateSlots("challenge")
  BY CastingAssumption DEF CandidateSlots, Leaves
<1>2. ASSUME NEW l \in own
      PROVE  owner[l] \in casts /\ s.reservations[owner[l]].leaf = l
  <2>1. /\ owner[l] = s.slotOwner[<<n, l>>] /\ owner[l] # None
        /\ <<n, l>> \in Batches \X Leaves
    BY <1>1
  <2>2. /\ owner[l] \in Held(s)
        /\ <<s.reservations[owner[l]].batch, s.reservations[owner[l]].leaf>> = <<n, l>>
    <3>1. \A m \in Batches \X Leaves : s.slotOwner[m] # None =>
            /\ s.slotOwner[m] \in Held(s)
            /\ <<s.reservations[s.slotOwner[m]].batch,
                 s.reservations[s.slotOwner[m]].leaf>> = m
      BY DEF Coherent
    <3> HIDE DEF owner
    <3>2. QED
      BY <2>1, <3>1
  <2>3. /\ owner[l][1] \in {"cast", "challenge"}
        /\ s.reservations[owner[l]].leaf \in CandidateSlots(owner[l][1])
    BY <2>2 DEF InItsClass, Held, Scopes, Ops
  <2> HIDE DEF owner
  <2>4. QED
    BY <2>2, <2>3, <1>1
<1>3. IsFiniteSet(casts)
  BY NoFewer DEF InItsClass
<1>4. owner \in [own -> casts]
  BY <1>2
<1>5. \A l, m \in own : owner[l] = owner[m] => l = m
  <2> HIDE DEF owner
  <2>1. QED
    BY <1>2
<1> HIDE DEF casts, owner
<1>6. owner \in Injection(own, casts)
  BY <1>4, <1>5 DEF Injection, IsInjective
<1>7. Cardinality(own) <= Cardinality(casts)
  BY <1>3, <1>6, FS_Injection
<1>8. Cardinality(own) = CastReserved
  BY CastingAssumption, FS_Interval
<1>9. QED
  BY <1>7, <1>8, <1>3, CastingAssumption, FS_CardinalityType DEF casts

(* ChallengesNeverStarveCasts: a cast finds no leaf in a batch only when   *)
(* as many casts hold one there as the capacity plan reserves for them.    *)
THEOREM CastsHaveTheirLeaves == Spec => []ChallengesNeverStarveCasts
<1>1. Spec => []InItsClass(Committed)
  BY InitInItsClass, NextInItsClass, TypeCorrect, TransactionIsolated, PTL DEF Spec
<1>2. TypeOK /\ Coherent(Committed) /\ InItsClass(Committed) => ChallengesNeverStarveCasts
  <2> SUFFICES ASSUME TypeOK, Coherent(Committed), InItsClass(Committed)
               PROVE  ChallengesNeverStarveCasts
    OBVIOUS
  <2>1. Committed \in ReferenceStore
    BY DEF Committed, TypeOK
  <2>2. QED
    BY <2>1, CastsFillTheirLeaves DEF ChallengesNeverStarveCasts
<1>3. QED
  BY <1>1, <1>2, TypeCorrect, CommittedCoherent, PTL

(***************************************************************************)
(* The outbox and the answers stand and fall with the artefacts            *)
(***************************************************************************)

Ids(rows) == {rows[i].id : i \in DOMAIN rows}

(* The rows still to be dispatched are of the given artefacts, one each.   *)
PendingAmong(rows, artefacts) ==
    \A i \in DOMAIN rows : rows[i].state = "pending" =>
        /\ rows[i].id \in artefacts
        /\ \A j \in DOMAIN rows :
              rows[j].state = "pending" /\ rows[j].id = rows[i].id => i = j

(* One obligation and one row for each artefact of a store.                *)
Owed(s) ==
    /\ IsFiniteSet(Artefacts(s))
    /\ s.obligations = Artefacts(s)
    /\ Len(s.outbox) = Cardinality(Artefacts(s))
    /\ PendingAmong(s.outbox, Artefacts(s))

(* What any number of marks can leave of an outbox: a row that is still    *)
(* PENDING has not been written to.                                        *)
MarkedIn(rows, before) ==
    /\ DOMAIN rows = DOMAIN before /\ Len(rows) = Len(before)
    /\ \A i \in DOMAIN before : rows[i].state = "pending" => rows[i] = before[i]

SameIds(rows, before) == \A i \in DOMAIN before : rows[i].id = before[i].id

(* The outbox of the transaction in flight without the sweeps' marks.      *)
Enqueued ==
    IF Wrote("enqueued")
    THEN Append(snapshot.outbox, [id |-> Obligation, state |-> "pending"])
    ELSE snapshot.outbox

OutboxInFlight == phase # "idle" => MarkedIn(outbox, Enqueued)

(* As long as nothing was rolled back after its enqueue, what mark has     *)
(* found stays where it was found.                                         *)
FoundInPlace ==
    faults = 0 =>
        /\ phase # "idle" => SameIds(outbox, Enqueued)
        /\ \A d \in Dispatchers : sweep[d].row # None =>
              /\ sweep[d].row.index \in DOMAIN outbox
              /\ outbox[sweep[d].row.index].id = sweep[d].row.id

LEMMA MarkedByOne ==
    ASSUME NEW rows \in Seq(Row), NEW before, MarkedIn(rows, before),
           NEW i \in DOMAIN rows, NEW id \in Obligations
    PROVE  MarkedIn([rows EXCEPT ![i] = [id |-> id, state |-> "dispatched"]], before)
<1> DEFINE r == [id |-> id, state |-> "dispatched"]
           marked == [rows EXCEPT ![i] = r]
<1>1. r \in Row /\ r.state # "pending"
  BY DEF Row
<1>2. DOMAIN marked = DOMAIN rows /\ Len(marked) = Len(rows)
  BY <1>1, RowReplaced
<1>3. \A j \in DOMAIN rows : marked[j] = IF j = i THEN r ELSE rows[j]
  OBVIOUS
<1> HIDE DEF r, marked
<1>4. MarkedIn(marked, before)
  BY <1>1, <1>2, <1>3 DEF MarkedIn
<1>5. QED
  BY <1>4 DEF r, marked

LEMMA MarkedAndAppended ==
    ASSUME NEW rows \in Seq(Row), NEW before \in Seq(Row), MarkedIn(rows, before), NEW r \in Row
    PROVE  /\ MarkedIn(Append(rows, r), Append(before, r))
           /\ SameIds(rows, before) => SameIds(Append(rows, r), Append(before, r))
<1>1. /\ Len(rows) = Len(before) /\ Len(before) \in Nat
      /\ DOMAIN before = 1 .. Len(before)
      /\ Len(Append(rows, r)) = Len(before) + 1 /\ Len(Append(before, r)) = Len(before) + 1
      /\ DOMAIN Append(rows, r) = 1 .. (Len(before) + 1)
      /\ DOMAIN Append(before, r) = 1 .. (Len(before) + 1)
      /\ \A i \in 1 .. Len(before) : Append(rows, r)[i] = rows[i] /\ Append(before, r)[i] = before[i]
      /\ Append(rows, r)[Len(before) + 1] = r /\ Append(before, r)[Len(before) + 1] = r
  BY DEF MarkedIn
<1> DEFINE n == Len(before)
           longer == Append(rows, r)
           after == Append(before, r)
<1> HIDE DEF n, longer, after
<1>2. \A i \in 1 .. (n + 1) : i \in 1 .. n \/ i = n + 1
  BY <1>1 DEF n
<1>3. MarkedIn(longer, after)
  BY <1>1, <1>2 DEF MarkedIn, n, longer, after
<1>4. SameIds(rows, before) => SameIds(longer, after)
  BY <1>1, <1>2 DEF SameIds, n, longer, after
<1>5. QED
  BY <1>3, <1>4 DEF longer, after

(* The steps of a transaction that leave the outbox alone.                 *)
LEMMA StepsKeepRows ==
    ASSUME \/ ValidateCapability \/ VerifyProofs \/ ReserveLeaf \/ PersistCast
           \/ ConsumeForCast \/ SpendPublicChallenge \/ PersistSpoiled
           \/ CommitReservation \/ RecordIdempotency
    PROVE  /\ UNCHANGED <<outbox, snapshot, request, sweep, faults>>
           /\ phase # "idle" /\ phase' # "idle"
           /\ (Wrote("enqueued")' = Wrote("enqueued"))
<1>1. /\ UNCHANGED <<outbox, snapshot, request, sweep, faults>>
      /\ phase # "idle" /\ phase' # "idle"
      /\ \/ phase' = "recorded" /\ phase = "enqueued"
         \/ /\ phase \notin {"enqueued", "recorded"}
            /\ phase' \notin {"enqueued", "recorded"}
  BY DEF ValidateCapability, VerifyProofs, ReserveLeaf, PersistCast, ConsumeForCast,
     SpendPublicChallenge, PersistSpoiled, CommitReservation, RecordIdempotency, Step,
     storeVars, owedVars, sweepVars
<1>2. Wrote("enqueued")' = Wrote("enqueued")
  BY <1>1 DEF Wrote, From
<1>3. QED
  BY <1>1, <1>2

LEMMA NextOutboxInFlight ==
    ASSUME TypeOK, OutboxInFlight, [Next]_vars
    PROVE  OutboxInFlight'
<1>0. outbox \in Seq(Row) /\ DOMAIN outbox = 1 .. Len(outbox) /\ Len(outbox) \in Nat
  BY StoreIsTyped DEF TypeOK, StoreTypes
<1>1. CASE Leave
  BY <1>1 DEF Leave, OutboxInFlight
<1>2. CASE \E r \in Requests : Begin(r)
  <2>1. phase' = "locked" /\ snapshot' = Store /\ outbox' = outbox
    BY <1>2 DEF Begin, storeVars, owedVars
  <2>2. Enqueued' = outbox'
    BY <2>1 DEF Wrote, From, Enqueued, Store
  <2>3. QED
    BY <2>2 DEF OutboxInFlight, MarkedIn
<1>3. CASE /\ UNCHANGED <<outbox, snapshot, request>>
           /\ phase # "idle" /\ (Wrote("enqueued")' = Wrote("enqueued"))
  BY <1>3 DEF OutboxInFlight, Enqueued, Obligation, Id
<1>4. CASE EnqueueObligation
  <2>1. /\ phase = "leafCommitted" /\ phase' = "enqueued" /\ UNCHANGED <<snapshot, request>>
        /\ outbox' = Append(outbox, [id |-> Obligation, state |-> "pending"])
    BY <1>4 DEF EnqueueObligation, Step
  <2>2. snapshot.outbox \in Seq(Row) /\ [id |-> Obligation, state |-> "pending"] \in Row
    BY <2>1, RequestFields DEF ReferenceStore, Row
  <2>3. /\ Enqueued = snapshot.outbox
        /\ Enqueued' = Append(snapshot.outbox, [id |-> Obligation, state |-> "pending"])
    BY <2>1 DEF Enqueued, Wrote, From, Obligation, Id
  <2>4. MarkedIn(outbox, snapshot.outbox)
    BY <2>1, <2>3 DEF OutboxInFlight
  <2>5. QED
    BY <1>0, <2>1, <2>2, <2>3, <2>4, MarkedAndAppended DEF OutboxInFlight
<1>5. CASE Submission
  <2>1. CASE Conflict \/ RefuseCapability \/ RefuseProofs \/ RefuseDuplicate \/ RefuseCapacity
             \/ Fault \/ Replay \/ Commit
    <3>1. Leave
      BY <2>1 DEF Conflict, RefuseCapability, RefuseProofs, RefuseDuplicate, RefuseCapacity,
         Fault, Replay, Commit, Rollback
    <3>2. QED
      BY <3>1, <1>1
  <2>2. CASE \/ ValidateCapability \/ VerifyProofs \/ ReserveLeaf \/ PersistCast
             \/ ConsumeForCast \/ SpendPublicChallenge \/ PersistSpoiled
             \/ CommitReservation \/ RecordIdempotency
    BY <2>2, <1>3, StepsKeepRows
  <2>3. QED
    BY <1>2, <1>4, <1>5, <2>1, <2>2 DEF Submission
<1>6. CASE \E d \in Dispatchers : DispatchOutbox(d)
  <2>1. PICK d \in Dispatchers : DispatchOutbox(d)
    BY <1>6
  <2>2. UNCHANGED <<phase, snapshot, request>>
    BY <2>1, SweepWrites DEF txVars
  <2>3. Enqueued' = Enqueued
    BY <2>2 DEF Enqueued, Wrote, Obligation, Id
  <2>4. CASE UNCHANGED outbox
    BY <2>2, <2>3, <2>4 DEF OutboxInFlight
  <2>5. CASE ~UNCHANGED outbox
    <3>1. PICK i \in DOMAIN outbox, id \in Obligations :
            outbox' = [outbox EXCEPT ![i] = [id |-> id, state |-> "dispatched"]]
      BY <2>1, <2>5, SweepWrites
    <3>2. MarkedIn(outbox, Enqueued) => MarkedIn(outbox', Enqueued)
      BY <1>0, <3>1, MarkedByOne
    <3>3. QED
      BY <2>2, <2>3, <3>2 DEF OutboxInFlight
  <2>6. QED
    BY <2>4, <2>5
<1>7. CASE UNCHANGED vars
  BY <1>7 DEF OutboxInFlight, Enqueued, Wrote, Obligation, Id, vars, storeVars, owedVars, txVars
<1>8. QED
  BY <1>5, <1>6, <1>7 DEF Next

LEMMA OutboxIsolated == Spec => []OutboxInFlight
<1>1. Init => OutboxInFlight
  BY DEF Init, OutboxInFlight
<1>2. QED
  BY <1>1, NextOutboxInFlight, TypeCorrect, PTL DEF Spec

(* Only a commit adds rows to the committed store; everything else at most *)
(* marks some.                                                             *)
LEMMA OthersKeepRows ==
    ASSUME TypeOK, OutboxInFlight, [Next]_vars, ~Commit
    PROVE  MarkedIn(Committed'.outbox, Committed.outbox)
<1>0. /\ Store.outbox = outbox /\ Store'.outbox = outbox' /\ outbox \in Seq(Row)
      /\ \A rows : MarkedIn(rows, rows)
  BY StoreIsTyped DEF Store, TypeOK, StoreTypes, MarkedIn
<1>1. CASE UNCHANGED <<phase, snapshot, outbox>>
  BY <1>0, <1>1 DEF Committed
<1>2. CASE phase # "idle" /\ phase' # "idle" /\ snapshot' = snapshot
  BY <1>0, <1>2 DEF Committed
<1>3. CASE phase # "idle" /\ Rollback
  BY <1>0, <1>3 DEF Rollback, Leave, Committed
<1>4. CASE Replay
  <2>1. /\ Committed = snapshot /\ Committed' = Store' /\ outbox' = outbox /\ phase # "idle"
    BY <1>4 DEF Replay, Leave, storeVars, owedVars, Committed
  <2>2. Enqueued = snapshot.outbox
    BY <1>4 DEF Replay, Wrote, From, Enqueued
  <2>3. QED
    BY <1>0, <2>1, <2>2 DEF OutboxInFlight
<1>5. CASE \E r \in Requests : Begin(r)
  <2>1. Committed' = Committed
    BY <1>5 DEF Begin, Committed
  <2>2. QED
    BY <1>0, <2>1
<1>6. CASE Submission
  <2>1. CASE Conflict \/ RefuseCapability \/ RefuseProofs \/ RefuseDuplicate
             \/ RefuseCapacity \/ Fault
    <3>1. phase # "idle" /\ Rollback
      BY <2>1 DEF Conflict, RefuseCapability, RefuseProofs, RefuseDuplicate, RefuseCapacity,
         Fault, TripPoints
    <3>2. QED
      BY <3>1, <1>3
  <2>2. CASE \/ ValidateCapability \/ VerifyProofs \/ ReserveLeaf \/ PersistCast
             \/ ConsumeForCast \/ SpendPublicChallenge \/ PersistSpoiled
             \/ CommitReservation \/ EnqueueObligation \/ RecordIdempotency
    <3>1. phase # "idle" /\ phase' # "idle" /\ snapshot' = snapshot
      BY <2>2 DEF ValidateCapability, VerifyProofs, ReserveLeaf, PersistCast, ConsumeForCast,
         SpendPublicChallenge, PersistSpoiled, CommitReservation, EnqueueObligation,
         RecordIdempotency, Step
    <3>2. QED
      BY <3>1, <1>2
  <2>3. QED
    BY <1>4, <1>5, <1>6, <2>1, <2>2 DEF Submission
<1>7. CASE \E d \in Dispatchers : DispatchOutbox(d)
  <2>1. PICK d \in Dispatchers : DispatchOutbox(d)
    BY <1>7
  <2>2. UNCHANGED <<phase, snapshot>>
    BY <2>1, SweepWrites DEF txVars
  <2>3. MarkedIn(outbox', outbox)
    <3>1. CASE UNCHANGED outbox
      BY <1>0, <3>1
    <3>2. CASE ~UNCHANGED outbox
      <4>1. PICK i \in DOMAIN outbox, id \in Obligations :
              outbox' = [outbox EXCEPT ![i] = [id |-> id, state |-> "dispatched"]]
        BY <2>1, <3>2, SweepWrites
      <4>2. QED
        <5>1. outbox \in Seq(Row) /\ MarkedIn(outbox, outbox)
          BY <1>0
        <5>2. MarkedIn([outbox EXCEPT ![i] = [id |-> id, state |-> "dispatched"]], outbox)
          BY <5>1, MarkedByOne
        <5>3. QED
          BY <4>1, <5>2
    <3>3. QED
      BY <3>1, <3>2
  <2>4. QED
    BY <1>0, <2>2, <2>3 DEF Committed
<1>8. CASE UNCHANGED vars
  BY <1>1, <1>8 DEF vars, txVars, storeVars, owedVars
<1>9. QED
  BY <1>6, <1>7, <1>8 DEF Next

(* Marks leave the rows still to be dispatched where they were.            *)
LEMMA MarkingOwesNoMore ==
    ASSUME NEW rows, NEW before, NEW artefacts,
           MarkedIn(rows, before), PendingAmong(before, artefacts)
    PROVE  PendingAmong(rows, artefacts)
<1>1. ASSUME NEW i \in DOMAIN rows, rows[i].state = "pending"
      PROVE  i \in DOMAIN before /\ rows[i] = before[i] /\ before[i].state = "pending"
  <2>1. i \in DOMAIN before /\ rows[i] = before[i]
    BY <1>1 DEF MarkedIn
  <2>2. QED
    BY <1>1, <2>1
<1>2. QED
  BY <1>1 DEF PendingAmong

LEMMA AppendingOwesOne ==
    ASSUME NEW rows \in Seq(Row), NEW artefacts, PendingAmong(rows, artefacts),
           NEW o \in Obligations, o \notin artefacts
    PROVE  /\ PendingAmong(Append(rows, [id |-> o, state |-> "pending"]), artefacts \cup {o})
           /\ Len(Append(rows, [id |-> o, state |-> "pending"])) = Len(rows) + 1
           /\ Ids(Append(rows, [id |-> o, state |-> "pending"])) = Ids(rows) \cup {o}
<1> DEFINE r == [id |-> o, state |-> "pending"]
           more == Append(rows, r)
<1>1. /\ Len(rows) \in Nat /\ DOMAIN rows = 1 .. Len(rows)
      /\ Len(more) = Len(rows) + 1 /\ DOMAIN more = 1 .. (Len(rows) + 1)
      /\ \A i \in 1 .. Len(rows) : more[i] = rows[i]
      /\ more[Len(rows) + 1] = r
  BY DEF Row
<1>2. r.id = o
  OBVIOUS
<1> HIDE DEF more, r
<1>3. 1 .. (Len(rows) + 1) = (1 .. Len(rows)) \cup {Len(rows) + 1}
  BY <1>1
<1>4. \A i \in 1 .. Len(rows) : more[i].id = rows[i].id
  BY <1>1
<1>5. Ids(more) = Ids(rows) \cup {o}
  BY <1>1, <1>2, <1>3, <1>4 DEF Ids
<1>6. ASSUME NEW i \in DOMAIN more, more[i].state = "pending"
      PROVE  /\ more[i].id \in artefacts \cup {o}
             /\ \A j \in DOMAIN more :
                   more[j].state = "pending" /\ more[j].id = more[i].id => i = j
  <2>1. CASE i = Len(rows) + 1
    BY <1>1, <1>2, <1>3, <2>1 DEF PendingAmong
  <2>2. CASE i \in 1 .. Len(rows)
    BY <1>1, <1>2, <1>3, <1>6, <2>2 DEF PendingAmong
  <2>3. QED
    BY <1>1, <1>3, <2>1, <2>2
<1>7. PendingAmong(more, artefacts \cup {o})
  BY <1>6 DEF PendingAmong
<1>8. QED
  BY <1>1, <1>5, <1>7 DEF more, r

(* A commit adds one artefact.                                             *)
LEMMA CommitAddsItsArtefact ==
    ASSUME TypeOK, InFlight, phase = "recorded"
    PROVE  /\ Store.obligations = snapshot.obligations \cup {Obligation}
           /\ Artefacts(Store) = Artefacts(snapshot) \cup {Obligation}
           /\ Obligation \notin Artefacts(snapshot) /\ Obligation \in Obligations
           /\ snapshot.outbox \in Seq(Row)
<1>1. PICK l \in CandidateSlots(request.op) :
        /\ Adds(snapshot, Store, Scope, request.env, request.batch, l)
        /\ Store.obligations = snapshot.obligations \cup {Obligation}
  BY CommitWrites
<1>2. /\ Scope \in Scopes /\ request.env \in Envelopes /\ request.op \in {"cast", "challenge"}
      /\ snapshot \in ReferenceStore /\ Store \in ReferenceStore /\ Scope[1] = request.op
      /\ Obligation = <<request.op, BallotIdOf[request.env]>> /\ Obligation \in Obligations
  BY RequestFields, StoreIsTyped DEF Scope, Ops, Obligation, Id
<1>3. Artefacts(Store) = Artefacts(snapshot) \cup {Obligation} /\ Obligation \notin Artefacts(snapshot)
  <2>1. /\ BallotIdOf[request.env] \notin Accepted(snapshot)
        /\ BallotIdOf[request.env] \notin Spoiled(snapshot)
        /\ request.op = "cast" =>
              /\ Accepted(Store) = Accepted(snapshot) \cup {BallotIdOf[request.env]}
              /\ Spoiled(Store) = Spoiled(snapshot)
        /\ request.op = "challenge" =>
              /\ Accepted(Store) = Accepted(snapshot)
              /\ Spoiled(Store) = Spoiled(snapshot) \cup {BallotIdOf[request.env]}
    BY <1>1, <1>2, AddsAnArtefact
  <2>2. CASE request.op = "cast"
    BY <1>2, <2>1, <2>2 DEF Artefacts
  <2>3. CASE request.op = "challenge"
    BY <1>2, <2>1, <2>3 DEF Artefacts
  <2>4. QED
    BY <1>2, <2>2, <2>3
<1>4. QED
  BY <1>1, <1>2, <1>3 DEF ReferenceStore

(* ... and what it owes with it.                                           *)
LEMMA OwedCommit ==
    ASSUME TypeOK, InFlight, OutboxInFlight, phase = "recorded", Owed(snapshot)
    PROVE  Owed(Store)
<1> DEFINE added == Append(snapshot.outbox, [id |-> Obligation, state |-> "pending"])
<1>1. /\ Store.obligations = snapshot.obligations \cup {Obligation}
      /\ Artefacts(Store) = Artefacts(snapshot) \cup {Obligation}
      /\ Obligation \notin Artefacts(snapshot) /\ Obligation \in Obligations
      /\ snapshot.outbox \in Seq(Row)
  BY CommitAddsItsArtefact
<1>2. MarkedIn(Store.outbox, added)
  BY DEF OutboxInFlight, Enqueued, Wrote, From, Store
<1>3. /\ PendingAmong(added, Artefacts(snapshot) \cup {Obligation})
      /\ Len(added) = Len(snapshot.outbox) + 1
  BY <1>1, AppendingOwesOne DEF Owed
<1> HIDE DEF added
<1>4. /\ PendingAmong(Store.outbox, Artefacts(Store))
      /\ Len(Store.outbox) = Len(snapshot.outbox) + 1
  <2>1. PendingAmong(Store.outbox, Artefacts(snapshot) \cup {Obligation})
    BY <1>2, <1>3, MarkingOwesNoMore
  <2>2. QED
    BY <1>1, <1>2, <1>3, <2>1 DEF MarkedIn
<1>5. /\ IsFiniteSet(Artefacts(snapshot) \cup {Obligation})
      /\ Cardinality(Artefacts(snapshot) \cup {Obligation}) = Cardinality(Artefacts(snapshot)) + 1
  BY <1>1, OneMore DEF Owed
<1>6. QED
  BY <1>1, <1>4, <1>5 DEF Owed

LEMMA NextOwed ==
    ASSUME TypeOK, InFlight, OutboxInFlight, Owed(Committed), [Next]_vars
    PROVE  Owed(Committed)'
<1>1. CASE Commit
  <2>1. Committed = snapshot /\ Committed' = Store /\ phase = "recorded"
    BY <1>1 DEF Commit, Leave, Store, storeVars, ballotVars, leafVars, owedVars, Committed
  <2>2. Owed(Store)
    BY <2>1, OwedCommit
  <2>3. QED
    BY <2>1, <2>2
<1>2. CASE ~Commit
  <2>1. SameView(Committed, Committed')
    BY <1>2, OthersKeepView
  <2>2. Artefacts(Committed') = Artefacts(Committed)
    BY <2>1 DEF SameView, Artefacts, Accepted, Spoiled
  <2>3. MarkedIn(Committed'.outbox, Committed.outbox)
    BY <1>2, OthersKeepRows
  <2>4. PendingAmong(Committed'.outbox, Artefacts(Committed))
    BY <2>3, MarkingOwesNoMore DEF Owed
  <2>5. QED
    BY <2>1, <2>2, <2>3, <2>4 DEF Owed, SameView, MarkedIn
<1>3. QED
  BY <1>1, <1>2

LEMMA InitOwed == Init => Owed(Committed)
<1> SUFFICES ASSUME Init PROVE Owed(Store)
  BY DEF Init, Committed
<1>1. Artefacts(Store) = {} /\ Store.obligations = {} /\ Store.outbox = <<>>
  BY DEF Init, Store, Artefacts, Accepted, Spoiled
<1>2. Ids(<<>>) = {} /\ Len(<<>>) = 0
  BY DEF Ids
<1>3. QED
  BY <1>1, <1>2, FS_EmptySet DEF Owed, PendingAmong

(* Without a fault, refusals alone roll back, and they come before the     *)
(* enqueue.                                                                *)
LEMMA RefusalsKeepRows ==
    ASSUME TypeOK, OutboxInFlight,
           \/ Replay \/ Commit \/ Conflict \/ RefuseCapability \/ RefuseProofs
           \/ RefuseDuplicate \/ RefuseCapacity,
           phase # "idle" => SameIds(outbox, Enqueued)
    PROVE  /\ DOMAIN outbox' = DOMAIN outbox /\ SameIds(outbox', outbox)
           /\ UNCHANGED <<sweep, faults>>
<1>1. UNCHANGED <<sweep, faults>>
  BY DEF Replay, Commit, Conflict, RefuseCapability, RefuseProofs, RefuseDuplicate,
     RefuseCapacity, Rollback, sweepVars
<1>2. CASE Replay \/ Commit
  BY <1>1, <1>2 DEF Replay, Commit, storeVars, owedVars, SameIds
<1>3. CASE ~(Replay \/ Commit)
  <2>1. outbox' = snapshot.outbox /\ phase \in {"locked", "validated", "verified"}
    BY <1>3 DEF Conflict, RefuseCapability, RefuseProofs, RefuseDuplicate, RefuseCapacity, Rollback
  <2>2. Enqueued = outbox' /\ phase # "idle"
    BY <2>1 DEF Enqueued, Wrote, From
  <2>3. DOMAIN outbox = DOMAIN outbox' /\ SameIds(outbox, outbox')
    BY <2>2 DEF OutboxInFlight, MarkedIn
  <2>4. QED
    BY <1>1, <2>3 DEF SameIds
<1>4. QED
  BY <1>2, <1>3

(* A step of a sweep writes back, at the index it found, the id it found.  *)
LEMMA SweepKeepsIds ==
    ASSUME TypeOK, FoundInPlace, faults = 0, NEW d \in Dispatchers, DispatchOutbox(d)
    PROVE  DOMAIN outbox' = DOMAIN outbox /\ SameIds(outbox', outbox)
<1>1. outbox \in Seq(Row)
  BY StoreIsTyped DEF TypeOK, StoreTypes
<1>2. CASE UNCHANGED outbox
  BY <1>2 DEF SameIds
<1>3. CASE ~UNCHANGED outbox
  <2> DEFINE found == sweep[d].row
             r == [id |-> found.id, state |-> "dispatched"]
  <2>1. /\ found.index \in DOMAIN outbox /\ r \in Row
        /\ outbox' = [outbox EXCEPT ![found.index] = r]
        /\ outbox[found.index].id = found.id
    BY <1>3, SweepWrites DEF FoundInPlace, Row
  <2>2. DOMAIN outbox' = DOMAIN outbox
    BY <2>1
  <2>3. \A i \in DOMAIN outbox : outbox'[i] = IF i = found.index THEN r ELSE outbox[i]
    BY <2>1
  <2>4. r.id = found.id
    OBVIOUS
  <2> HIDE DEF found, r
  <2>5. QED
    BY <2>1, <2>2, <2>3, <2>4 DEF SameIds
<1>4. QED
  BY <1>2, <1>3

(* What a sweep has found after one of its steps it had found before, or   *)
(* finds in the outbox as it is.                                           *)
LEMMA SweepFinds ==
    ASSUME TypeOK, FoundInPlace, faults = 0, NEW d \in Dispatchers, DispatchOutbox(d),
           NEW e \in Dispatchers, sweep'[e].row # None
    PROVE  /\ sweep'[e].row.index \in DOMAIN outbox
           /\ outbox[sweep'[e].row.index].id = sweep'[e].row.id
<1>1. /\ outbox \in Seq(Row) /\ sweep \in [Dispatchers -> SweepState]
  BY StoreIsTyped DEF TypeOK, StoreTypes
<1>2. CASE sweep'[e].row = sweep[e].row
  BY <1>2 DEF FoundInPlace
<1>3. CASE sweep'[e].row # sweep[e].row
  <2>1. ASSUME NEW id \in sweep[d].todo, FindRow(d, id) PROVE sweep' = [sweep EXCEPT ![d].row = [index |-> RowOf(outbox, id), id |-> id]]
    BY <2>1 DEF FindRow
  <2>2. ASSUME ~\E id \in sweep[d].todo : FindRow(d, id) PROVE FALSE
    <3>1. \E s : s.row = None /\ sweep' = [sweep EXCEPT ![d] = s]
      <4>1. CASE StartSweep(d)
        BY <4>1, Zenon DEF StartSweep
      <4>2. CASE Dispatch(d)
        <5>1. PICK i : i = sweep[d].row.id
          OBVIOUS
        <5>2. sweep' = [sweep EXCEPT ![d] = [active |-> TRUE, todo |-> sweep[d].todo \ {i},
                                      row |-> None, done |-> sweep[d].done \cup {i}]]
          BY <4>2, <5>1, <1>1 DEF Dispatch
        <5>3. [active |-> TRUE, todo |-> sweep[d].todo \ {i},
                                      row |-> None, done |-> sweep[d].done \cup {i}].row = None
          OBVIOUS
        <5>4. QED
          BY <5>2, <5>3
      <4>3. CASE ~(StartSweep(d) \/ Dispatch(d))
        <5>1. sweep' = [sweep EXCEPT ![d] = Resting]
          BY <2>2, <4>3 DEF DispatchOutbox, CrashBeforeMark, RowVanished, IndexPastEnd,
             CrashAfterMark, ReturnDispatched, Abandon
        <5>2. QED
          BY <5>1 DEF Resting
      <4>4. QED
        BY <4>1, <4>2, <4>3
    <3>2. PICK s : s.row = None /\ sweep' = [sweep EXCEPT ![d] = s]
      BY <3>1
    <3>3. CASE e = d
      BY <3>2, <3>3, <1>1
    <3>4. CASE e # d
      BY <3>2, <3>4, <1>1, <1>3
    <3>5. QED
      BY <3>3, <3>4
  <2>3. PICK id \in sweep[d].todo : FindRow(d, id)
    BY <2>2
  <2>4. RowOf(outbox, id) \in DOMAIN outbox /\ outbox[RowOf(outbox, id)].id = id
    BY <2>3, <1>1, RowOfFinds DEF FindRow
  <2>5. e = d /\ sweep'[d].row = [index |-> RowOf(outbox, id), id |-> id]
    <3> DEFINE found == [index |-> RowOf(outbox, id), id |-> id]
    <3>1. sweep' = [sweep EXCEPT ![d] = [sweep[d] EXCEPT !.row = found]]
      BY <2>3, <2>1
    <3>2. sweep[d] \in SweepState
      BY <1>1
    <3> HIDE DEF found
    <3>3. [sweep[d] EXCEPT !.row = found].row = found
      BY <3>2 DEF SweepState
    <3>4. sweep'[d].row = found
      BY <3>1, <3>3, <1>1
    <3>5. e # d => sweep'[e] = sweep[e]
      BY <3>1, <1>1
    <3>6. QED
      BY <1>3, <3>4, <3>5 DEF found
  <2>6. QED
    BY <2>4, <2>5
<1>4. QED
  BY <1>2, <1>3

LEMMA NextFoundInPlace ==
    ASSUME TypeOK, OutboxInFlight, FoundInPlace, [Next]_vars, faults' = 0
    PROVE  FoundInPlace'
<1>0. outbox \in Seq(Row) /\ faults \in Nat
  BY StoreIsTyped, CastingAssumption DEF TypeOK, StoreTypes
<1>1. CASE /\ faults = 0 /\ DOMAIN outbox' = DOMAIN outbox /\ SameIds(outbox', outbox)
           /\ sweep' = sweep
           /\ phase' # "idle" => SameIds(outbox', Enqueued')
  BY <1>1 DEF FoundInPlace, SameIds
<1>2. CASE \E r \in Requests : Begin(r)
  <2>1. /\ phase' = "locked" /\ snapshot' = Store /\ outbox' = outbox /\ sweep' = sweep
        /\ faults' = faults
    BY <1>2 DEF Begin, storeVars, owedVars, sweepVars
  <2>2. Enqueued' = outbox'
    BY <2>1 DEF Wrote, From, Enqueued, Store
  <2>3. QED
    BY <1>1, <2>1, <2>2 DEF SameIds
<1>3. CASE EnqueueObligation
  <2>1. /\ phase = "leafCommitted" /\ phase' = "enqueued"
        /\ UNCHANGED <<snapshot, request, sweep, faults>>
        /\ outbox' = Append(outbox, [id |-> Obligation, state |-> "pending"])
    BY <1>3 DEF EnqueueObligation, Step, sweepVars
  <2>2. /\ snapshot.outbox \in Seq(Row) /\ [id |-> Obligation, state |-> "pending"] \in Row
    BY <2>1, RequestFields DEF ReferenceStore, Row
  <2>3. /\ Enqueued = snapshot.outbox
        /\ Enqueued' = Append(snapshot.outbox, [id |-> Obligation, state |-> "pending"])
    BY <2>1 DEF Enqueued, Wrote, From, Obligation, Id
  <2>4. MarkedIn(outbox, snapshot.outbox) /\ SameIds(outbox, snapshot.outbox)
    BY <2>1, <2>3 DEF OutboxInFlight, FoundInPlace
  <2>5. SameIds(outbox', Enqueued')
    BY <1>0, <2>1, <2>2, <2>3, <2>4, MarkedAndAppended
  <2>6. \A i \in DOMAIN outbox : i \in DOMAIN outbox' /\ outbox'[i] = outbox[i]
    BY <1>0, <2>1, <2>2
  <2>7. QED
    BY <2>1, <2>5, <2>6 DEF FoundInPlace
<1>4. CASE Submission
  <2>1. CASE \/ Replay \/ Commit \/ Conflict \/ RefuseCapability \/ RefuseProofs
             \/ RefuseDuplicate \/ RefuseCapacity
    <3>1. phase' = "idle"
      BY <2>1 DEF Replay, Commit, Conflict, RefuseCapability, RefuseProofs, RefuseDuplicate,
         RefuseCapacity, Rollback, Leave
    <3>2. faults = 0
      BY <2>1 DEF Replay, Commit, Conflict, RefuseCapability, RefuseProofs, RefuseDuplicate,
         RefuseCapacity
    <3>3. /\ DOMAIN outbox' = DOMAIN outbox /\ SameIds(outbox', outbox)
          /\ UNCHANGED <<sweep, faults>>
      BY <2>1, <3>2, RefusalsKeepRows DEF FoundInPlace
    <3>4. QED
      BY <1>1, <3>1, <3>2, <3>3
  <2>2. CASE \/ ValidateCapability \/ VerifyProofs \/ ReserveLeaf \/ PersistCast
             \/ ConsumeForCast \/ SpendPublicChallenge \/ PersistSpoiled
             \/ CommitReservation \/ RecordIdempotency
    <3>1. /\ UNCHANGED <<outbox, snapshot, request, sweep, faults>>
          /\ phase # "idle" /\ phase' # "idle"
          /\ (Wrote("enqueued")' = Wrote("enqueued"))
      BY <2>2, StepsKeepRows
    <3>2. Enqueued' = Enqueued
      BY <3>1 DEF Enqueued, Obligation, Id
    <3>3. QED
      BY <3>1, <3>2 DEF FoundInPlace
  <2>3. CASE Fault
    BY <1>0, <2>3 DEF Fault
  <2>4. QED
    BY <1>2, <1>3, <1>4, <2>1, <2>2, <2>3 DEF Submission
<1>5. CASE \E d \in Dispatchers : DispatchOutbox(d)
  <2>1. PICK d \in Dispatchers : DispatchOutbox(d)
    BY <1>5
  <2>2. UNCHANGED <<phase, snapshot, request, faults>>
    BY <2>1, SweepWrites DEF txVars
  <2>3. Enqueued' = Enqueued
    BY <2>2 DEF Enqueued, Wrote, Obligation, Id
  <2>4. DOMAIN outbox' = DOMAIN outbox /\ SameIds(outbox', outbox)
    BY <2>1, <2>2, SweepKeepsIds
  <2>5. \A e \in Dispatchers : sweep'[e].row # None =>
          /\ sweep'[e].row.index \in DOMAIN outbox
          /\ outbox[sweep'[e].row.index].id = sweep'[e].row.id
    BY <2>1, <2>2, SweepFinds
  <2>6. phase' # "idle" => SameIds(outbox', Enqueued')
    BY <2>2, <2>3, <2>4 DEF FoundInPlace, OutboxInFlight, MarkedIn, SameIds
  <2>7. QED
    BY <2>4, <2>5, <2>6 DEF FoundInPlace, SameIds
<1>6. CASE UNCHANGED vars
  BY <1>6 DEF FoundInPlace, Enqueued, Wrote, Obligation, Id, vars, storeVars, owedVars, txVars,
     sweepVars
<1>7. QED
  BY <1>4, <1>5, <1>6 DEF Next

LEMMA RowsStayInPlace == Spec => []FoundInPlace
<1>1. Init => FoundInPlace
  BY DEF Init, FoundInPlace, Resting
<1>2. ASSUME TypeOK, OutboxInFlight, FoundInPlace, [Next]_vars PROVE FoundInPlace'
  BY <1>2, NextFoundInPlace DEF FoundInPlace
<1>3. QED
  BY <1>1, <1>2, TypeCorrect, OutboxIsolated, PTL DEF Spec

(* The rows of a store name its artefacts, as long as nothing was rolled   *)
(* back after its enqueue.                                                 *)
FoundIsNamed == faults = 0 => Ids(Committed.outbox) = Artefacts(Committed)

LEMMA SameIdsSameSet ==
    ASSUME NEW rows, NEW before, DOMAIN rows = DOMAIN before, SameIds(rows, before)
    PROVE  Ids(rows) = Ids(before)
BY DEF Ids, SameIds

LEMMA NextNamed ==
    ASSUME TypeOK, InFlight, OutboxInFlight, FoundInPlace, Owed(Committed), FoundIsNamed, [Next]_vars,
           faults' = 0
    PROVE  Ids(Committed'.outbox) = Artefacts(Committed')
<1>1. faults = 0
  <2>1. faults \in Nat
    BY CastingAssumption DEF TypeOK
  <2>2. CASE Fault
    BY <2>1, <2>2 DEF Fault
  <2>3. CASE Submission /\ ~Fault
    BY <2>3 DEF Submission, Begin, Replay, Conflict, RefuseCapability, ValidateCapability,
       RefuseProofs, VerifyProofs, RefuseDuplicate, RefuseCapacity, ReserveLeaf, PersistCast,
       ConsumeForCast, SpendPublicChallenge, PersistSpoiled, CommitReservation,
       EnqueueObligation, RecordIdempotency, Commit, Step
  <2>4. CASE \E d \in Dispatchers : DispatchOutbox(d)
    BY <2>4, SweepWrites
  <2>5. QED
    BY <2>2, <2>3, <2>4 DEF Next, vars
<1>2. CASE Commit
  <2> DEFINE added == Append(snapshot.outbox, [id |-> Obligation, state |-> "pending"])
  <2>1. /\ Committed = snapshot /\ Committed' = Store /\ phase = "recorded"
    BY <1>2 DEF Commit, Leave, Store, storeVars, ballotVars, leafVars, owedVars, Committed
  <2>2. /\ Artefacts(Store) = Artefacts(snapshot) \cup {Obligation}
        /\ Obligation \notin Artefacts(snapshot) /\ Obligation \in Obligations
        /\ snapshot.outbox \in Seq(Row)
    BY <2>1, CommitAddsItsArtefact
  <2>3. Ids(added) = Ids(snapshot.outbox) \cup {Obligation}
    BY <2>1, <2>2, AppendingOwesOne DEF Owed
  <2>4. DOMAIN Store.outbox = DOMAIN added /\ SameIds(Store.outbox, added)
    BY <1>1, <2>1 DEF OutboxInFlight, FoundInPlace, MarkedIn, Enqueued, Wrote, From, Store
  <2> HIDE DEF added
  <2>5. Ids(Store.outbox) = Ids(added)
    BY <2>4, SameIdsSameSet
  <2>6. QED
    BY <1>1, <2>1, <2>2, <2>3, <2>5 DEF FoundIsNamed
<1>3. CASE ~Commit
  <2>1. Artefacts(Committed') = Artefacts(Committed)
    <3>1. SameView(Committed, Committed')
      BY <1>3, OthersKeepView
    <3>2. QED
      BY <3>1 DEF SameView, Artefacts, Accepted, Spoiled
  <2>2. DOMAIN Committed'.outbox = DOMAIN Committed.outbox
    BY <1>3, OthersKeepRows DEF MarkedIn
  <2>3. SameIds(Committed'.outbox, Committed.outbox)
    <3>0. /\ Store.outbox = outbox /\ Store'.outbox = outbox' /\ \A rows : SameIds(rows, rows)
      BY DEF Store, SameIds
    <3>1. CASE phase # "idle" /\ phase' # "idle" /\ snapshot' = snapshot
      BY <3>0, <3>1 DEF Committed
    <3>2. CASE phase # "idle" /\ Rollback
      BY <3>0, <3>2 DEF Rollback, Leave, Committed
    <3>3. CASE Replay
      <4>1. /\ Committed = snapshot /\ Committed' = Store' /\ outbox' = outbox /\ phase # "idle"
        BY <3>3 DEF Replay, Leave, storeVars, owedVars, Committed
      <4>2. Enqueued = snapshot.outbox
        BY <3>3 DEF Replay, Wrote, From, Enqueued
      <4>3. QED
        BY <1>1, <3>0, <4>1, <4>2 DEF FoundInPlace
    <3>4. CASE \E r \in Requests : Begin(r)
      <4>1. Committed' = Committed
        BY <3>4 DEF Begin, Committed
      <4>2. QED
        BY <3>0, <4>1
    <3>5. CASE Submission
      <4>1. CASE Conflict \/ RefuseCapability \/ RefuseProofs \/ RefuseDuplicate
                 \/ RefuseCapacity \/ Fault
        <5>1. phase # "idle" /\ Rollback
          BY <4>1 DEF Conflict, RefuseCapability, RefuseProofs, RefuseDuplicate, RefuseCapacity,
             Fault, TripPoints
        <5>2. QED
          BY <5>1, <3>2
      <4>2. CASE \/ ValidateCapability \/ VerifyProofs \/ ReserveLeaf \/ PersistCast
                 \/ ConsumeForCast \/ SpendPublicChallenge \/ PersistSpoiled
                 \/ CommitReservation \/ EnqueueObligation \/ RecordIdempotency
        <5>1. phase # "idle" /\ phase' # "idle" /\ snapshot' = snapshot
          BY <4>2 DEF ValidateCapability, VerifyProofs, ReserveLeaf, PersistCast, ConsumeForCast,
             SpendPublicChallenge, PersistSpoiled, CommitReservation, EnqueueObligation,
             RecordIdempotency, Step
        <5>2. QED
          BY <5>1, <3>1
      <4>3. QED
        BY <1>3, <3>3, <3>4, <3>5, <4>1, <4>2 DEF Submission
    <3>6. CASE \E d \in Dispatchers : DispatchOutbox(d)
      <4>1. PICK d \in Dispatchers : DispatchOutbox(d)
        BY <3>6
      <4>2. UNCHANGED <<phase, snapshot>> /\ SameIds(outbox', outbox)
        BY <1>1, <4>1, SweepWrites, SweepKeepsIds DEF txVars
      <4>3. QED
        BY <3>0, <4>2 DEF Committed
    <3>7. CASE UNCHANGED vars
      <4>1. UNCHANGED <<phase, snapshot, outbox>>
        BY <3>7 DEF vars, txVars, storeVars, owedVars
      <4>2. QED
        BY <3>0, <4>1 DEF Committed
    <3>8. QED
      BY <3>5, <3>6, <3>7 DEF Next
  <2>4. QED
    BY <1>1, <2>1, <2>2, <2>3, SameIdsSameSet DEF FoundIsNamed
<1>4. QED
  BY <1>2, <1>3

(* The ballot of each answer is stored byte for byte under its operation.  *)
Verbatim(s) ==
    \A k \in Scopes : s.idempotency[k] # None =>
        (IF k[1] = "cast" THEN s.accepted[BallotIdOf[s.idempotency[k]]]
                          ELSE s.spoiled[BallotIdOf[s.idempotency[k]]]) = s.idempotency[k]

LEMMA VerbatimCommit ==
    ASSUME TypeOK, InFlight, phase = "recorded", Verbatim(snapshot)
    PROVE  Verbatim(Store)
<1>1. PICK l \in CandidateSlots(request.op) :
        Adds(snapshot, Store, Scope, request.env, request.batch, l)
  BY CommitWrites
<1>2. /\ Scope \in Scopes /\ request.env \in Envelopes /\ snapshot \in ReferenceStore
      /\ Scope[1] \in {"cast", "challenge"} /\ request.env # None
      /\ BallotIdOf \in [Envelopes -> BallotIds]
  BY RequestFields, NoneAssumption, CastingAssumption DEF Scope, Ops
<1> DEFINE s == snapshot
           t == Store
           b == BallotIdOf[request.env]
<1>3. /\ s.idempotency \in [Scopes -> Envelopes \cup {None}]
      /\ s.accepted \in [BallotIds -> Envelopes \cup {None}]
      /\ s.spoiled \in [BallotIds -> Envelopes \cup {None}]
  BY <1>2 DEF ReferenceStore
<1>4. /\ s.accepted[b] = None /\ s.spoiled[b] = None /\ b \in BallotIds
      /\ t.idempotency = [s.idempotency EXCEPT ![Scope] = request.env]
      /\ t.accepted = IF Scope[1] = "cast" THEN [s.accepted EXCEPT ![b] = request.env]
                      ELSE s.accepted
      /\ t.spoiled = IF Scope[1] = "challenge" THEN [s.spoiled EXCEPT ![b] = request.env]
                     ELSE s.spoiled
  BY <1>1, <1>2 DEF Adds
<1> HIDE DEF s, t, b
<1>5. ASSUME NEW k \in Scopes, t.idempotency[k] # None
      PROVE  (IF k[1] = "cast" THEN t.accepted[BallotIdOf[t.idempotency[k]]]
                               ELSE t.spoiled[BallotIdOf[t.idempotency[k]]]) = t.idempotency[k]
  <2>1. CASE k = Scope
    BY <2>1, <1>2, <1>3, <1>4 DEF b
  <2>2. CASE k # Scope
    <3>1. t.idempotency[k] = s.idempotency[k] /\ s.idempotency[k] \in Envelopes
      BY <2>2, <1>3, <1>4, <1>5
    <3>2. (IF k[1] = "cast" THEN s.accepted[BallotIdOf[s.idempotency[k]]]
                            ELSE s.spoiled[BallotIdOf[s.idempotency[k]]]) = s.idempotency[k]
      BY <3>1, <1>5 DEF Verbatim, s
    <3>3. BallotIdOf[s.idempotency[k]] \in BallotIds /\ BallotIdOf[s.idempotency[k]] # b
      BY <3>1, <3>2, <1>2, <1>4, NoneAssumption
    <3>4. QED
      BY <3>1, <3>2, <3>3, <1>3, <1>4
  <2>3. QED
    BY <2>1, <2>2
<1>6. QED
  BY <1>5 DEF Verbatim, t

LEMMA NextVerbatim ==
    ASSUME TypeOK, InFlight, Verbatim(Committed), [Next]_vars
    PROVE  Verbatim(Committed)'
<1>1. CASE Commit
  <2>1. Committed = snapshot /\ Committed' = Store /\ phase = "recorded"
    BY <1>1 DEF Commit, Leave, Store, storeVars, ballotVars, leafVars, owedVars, Committed
  <2>2. Verbatim(Store)
    BY <2>1, VerbatimCommit
  <2>3. QED
    BY <2>1, <2>2 DEF Verbatim
<1>2. CASE ~Commit
  <2>1. SameView(Committed, Committed')
    BY <1>2, OthersKeepView
  <2>2. QED
    BY <2>1 DEF SameView, Verbatim
<1>3. QED
  BY <1>1, <1>2

LEMMA InitVerbatim == Init => Verbatim(Committed)
BY DEF Init, Committed, Store, Verbatim

(* In a coherent store each artefact is answered under one key.            *)
LEMMA OneAnswerEach ==
    ASSUME NEW s \in ReferenceStore, Coherent(s), NEW a \in Artefacts(s)
    PROVE  Cardinality({k \in Scopes : s.idempotency[k] # None
                            /\ <<k[1], BallotIdOf[s.idempotency[k]]>> = a}) = 1
<1> DEFINE keys == {k \in Scopes : s.idempotency[k] # None
                       /\ <<k[1], BallotIdOf[s.idempotency[k]]>> = a}
<1>1. PICK k \in Held(s) : /\ <<k[1], s.reservations[k].ref>> = a
                           /\ \A j \in Held(s) : s.reservations[j].ref = a[2] => j = k
  BY CoherentLeaves
<1>2. k \in keys
  BY <1>1 DEF Coherent, Held
<1>3. ASSUME NEW j \in keys PROVE j = k
  <2>1. j \in Held(s) /\ BallotIdOf[s.idempotency[j]] = s.reservations[j].ref
    BY DEF Coherent
  <2>2. QED
    BY <1>1, <2>1
<1>4. keys = {k}
  BY <1>2, <1>3
<1> HIDE DEF keys
<1>5. Cardinality(keys) = 1
  BY <1>4, FS_Singleton
<1>6. QED
  BY <1>5 DEF keys

(* EffectsMatchArtefacts: one obligation and one more outbox row for every *)
(* artefact; what is still PENDING is owed, once; without a fault the rows *)
(* name the artefacts, whatever unlocked sweeps do between finding a row   *)
(* and writing it; and every stored answer names, byte for byte, an        *)
(* artefact that exactly one key is answered with.                         *)
THEOREM EffectsFollowArtefacts == Spec => []EffectsMatchArtefacts
<1>1. Spec => []Owed(Committed)
  BY InitOwed, NextOwed, TypeCorrect, TransactionIsolated, OutboxIsolated, PTL DEF Spec
<1>2. Spec => []Verbatim(Committed)
  BY InitVerbatim, NextVerbatim, TypeCorrect, TransactionIsolated, PTL DEF Spec
<1>3. Spec => []FoundIsNamed
  <2>1. Init => FoundIsNamed
    BY DEF Init, FoundIsNamed, Committed, Store, Artefacts, Accepted, Spoiled, Ids
  <2>2. ASSUME TypeOK, InFlight, OutboxInFlight, FoundInPlace, Owed(Committed), FoundIsNamed,
               [Next]_vars
        PROVE  FoundIsNamed'
    BY <2>2, NextNamed DEF FoundIsNamed
  <2>3. QED
    BY <1>1, <2>1, <2>2, TypeCorrect, TransactionIsolated, OutboxIsolated, RowsStayInPlace, PTL
       DEF Spec
<1>4. TypeOK /\ Coherent(Committed) /\ Verbatim(Committed) => AnswersMatchArtefacts
  <2> SUFFICES ASSUME TypeOK, Coherent(Committed), Verbatim(Committed)
               PROVE  AnswersMatchArtefacts
    OBVIOUS
  <2>1. Committed \in ReferenceStore
    BY DEF Committed, TypeOK
  <2>2. \A a \in Artefacts(Committed) :
          Cardinality({k \in Scopes : Committed.idempotency[k] # None
                         /\ <<k[1], BallotIdOf[Committed.idempotency[k]]>> = a}) = 1
    BY <2>1, OneAnswerEach
  <2>3. \A k \in Scopes : Committed.idempotency[k] # None =>
          /\ Committed.reservations[k] # None
          /\ Committed.reservations[k].ref = BallotIdOf[Committed.idempotency[k]]
    BY DEF Coherent, Held
  <2>4. QED
    BY <2>2, <2>3 DEF Verbatim, AnswersMatchArtefacts
<1>5. Owed(Committed) /\ FoundIsNamed => OutboxMatchesArtefacts
  BY DEF Owed, FoundIsNamed, Ids, PendingAmong, OutboxMatchesArtefacts
<1>6. QED
  BY <1>1, <1>2, <1>3, <1>4, <1>5, TypeCorrect, CommittedCoherent, PTL DEF EffectsMatchArtefacts
=============================================================================
