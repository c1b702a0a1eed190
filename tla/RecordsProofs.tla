--------------------------- MODULE RecordsProofs ----------------------------
(***************************************************************************)
(* Proofs about the services that keep records of events, votes and        *)
(* decisions: delivery out of the data plane's outbox, delegation, the     *)
(* older ballot box, and governance.  They share no state; each has an     *)
(* inductive invariant of its own.                                         *)
(***************************************************************************)
EXTENDS EventDelivery, Delegation, BallotBox, Governance, FiniteSetTheorems,
        TLAPS

-----------------------------------------------------------------------------
(***************************************************************************)
(* Proofs about EventDelivery, for any commands, record ids, bounds and    *)
(* broker.  What the consumer has applied is always 1, ..., n, and its     *)
(* checkpoint never stands past n: an event that is next in order is       *)
(* either event n + 1 or one the consumer has seen.                        *)
(***************************************************************************)

Records ==
    [sequence : 1..version, key : CommandKeys,
     status : {"pending", "published", "acknowledged", "dead_lettered"},
     attempts : 0..MaxAttempts, evidence : {"none", "published", "acknowledged"}]

(* A record that waits has not been tried, and only one that was not       *)
(* acknowledged can be tried again.                                        *)
AttemptsLeft ==
    \A id \in DOMAIN outbox : outbox[id].status = "pending" => outbox[id].attempts = 0

IInv ==
    /\ DeliveryTypeOK
    /\ AttemptsLeft
    /\ EffectsFollowTheVersions
    /\ position <= Len(applied)

-----------------------------------------------------------------------------
LEMMA OutboxOf ==
    ASSUME DeliveryTypeOK, NEW id \in DOMAIN outbox
    PROVE  outbox[id] \in Records /\ version \in Nat /\ outbox[id].sequence \in 1..version
  BY EventDeliveryAssumption DEF DeliveryTypeOK, Records

(* The types and attempts of a step that changes no more than the outbox,  *)
(* and there no more than the record id.                                   *)
LEMMA OneRecord ==
    ASSUME IInv, NEW id \in DOMAIN outbox, NEW record \in Records,
           outbox' = [outbox EXCEPT ![id] = record],
           record.status # "pending",
           UNCHANGED <<version, remembered, leapDay, applied, position, rewinds>>
    PROVE  IInv'
  <1>1. DOMAIN outbox' = DOMAIN outbox
        /\ \A i \in DOMAIN outbox : outbox'[i] = IF i = id THEN record ELSE outbox[i]
    OBVIOUS
  <1>2. DeliveryTypeOK'
    BY <1>1, OutboxOf DEF IInv, DeliveryTypeOK, Records
  <1>3. AttemptsLeft'
    BY <1>1 DEF IInv, AttemptsLeft
  <1> QED BY <1>2, <1>3 DEF IInv, EffectsFollowTheVersions

LEMMA InitDelivers == DeliveryInit => IInv
  <1> SUFFICES ASSUME DeliveryInit PROVE IInv
    OBVIOUS
  <1>1. DOMAIN outbox = {} /\ DOMAIN applied = {} /\ Len(applied) = 0
        /\ applied \in Seq(1..version)
    BY DEF DeliveryInit
  <1>2. DeliveryTypeOK
    <2>1. version \in 0..MaxVersions /\ position \in 0..version /\ rewinds \in 0..MaxRewinds
      BY EventDeliveryAssumption DEF DeliveryInit
    <2>2. remembered \subseteq CommandKeys /\ leapDay \in BOOLEAN
      BY DEF DeliveryInit
    <2> QED BY <1>1, <2>1, <2>2 DEF DeliveryTypeOK
  <1>3. AttemptsLeft /\ EffectsFollowTheVersions
    BY <1>1 DEF AttemptsLeft, EffectsFollowTheVersions
  <1> QED BY <1>1, <1>2, <1>3 DEF DeliveryInit, IInv

LEMMA ExecuteDelivers ==
    ASSUME IInv, NEW k \in CommandKeys, NEW id \in RecordIds, Execute(k, id)
    PROVE  IInv'
  <1>1. /\ version < MaxVersions /\ version' = version + 1 /\ id \notin DOMAIN outbox
        /\ outbox' = [i \in DOMAIN outbox \cup {id} |->
                         IF i = id THEN PendingRecord(k) ELSE outbox[i]]
        /\ remembered' \subseteq remembered \cup {k}
        /\ UNCHANGED <<leapDay, applied, position, rewinds>>
    BY DEF Execute
  <1>2. version \in Nat /\ 1..version \subseteq 1..version' /\ version' \in 0..MaxVersions
    BY <1>1, EventDeliveryAssumption DEF IInv, DeliveryTypeOK
  <1>3. DOMAIN outbox' = DOMAIN outbox \cup {id}
    BY <1>1
  <1>4. ASSUME NEW i \in DOMAIN outbox'
        PROVE  outbox'[i] \in Records' /\ (outbox'[i].status = "pending" => outbox'[i].attempts = 0)
    <2>1. CASE i = id
      BY <1>1, <1>2, <2>1, EventDeliveryAssumption DEF PendingRecord, Records
    <2>2. CASE i # id
      <3>1. i \in DOMAIN outbox /\ outbox'[i] = outbox[i]
        BY <1>1, <1>3, <2>2
      <3>2. outbox[i] \in Records /\ (outbox[i].status = "pending" => outbox[i].attempts = 0)
        BY <3>1, OutboxOf DEF IInv, AttemptsLeft
      <3> QED BY <1>2, <3>1, <3>2 DEF Records
    <2> QED BY <2>1, <2>2
  <1>5. applied' \in Seq(1..version')
    BY <1>1, <1>2 DEF IInv, DeliveryTypeOK
  <1>6. DeliveryTypeOK'
    <2>1. \A i \in DOMAIN outbox' : outbox'[i] \in Records'
      BY <1>4
    <2>2. DOMAIN outbox' \subseteq RecordIds /\ remembered' \subseteq CommandKeys
      BY <1>1, <1>3 DEF IInv, DeliveryTypeOK
    <2>3. leapDay' \in BOOLEAN /\ position' \in 0..version' /\ rewinds' \in 0..MaxRewinds
      BY <1>1, <1>2 DEF IInv, DeliveryTypeOK
    <2> QED BY <1>2, <1>5, <2>1, <2>2, <2>3 DEF DeliveryTypeOK, Records
  <1> QED BY <1>1, <1>4, <1>6 DEF IInv, AttemptsLeft, EffectsFollowTheVersions

LEMMA RefusedDelivers ==
    ASSUME IInv, NEW k \in CommandKeys, NEW id \in RecordIds, ExecuteRefusedByOutbox(k, id)
    PROVE  IInv'
  <1>1. /\ version < MaxVersions /\ version' = version + 1
        /\ UNCHANGED <<outbox, remembered, leapDay, applied, position, rewinds>>
    BY DEF ExecuteRefusedByOutbox
  <1>2. version \in Nat /\ 1..version \subseteq 1..version' /\ version' \in 0..MaxVersions
    BY <1>1, EventDeliveryAssumption DEF IInv, DeliveryTypeOK
  <1>3. ASSUME NEW i \in DOMAIN outbox' PROVE outbox'[i] \in Records'
    BY <1>1, <1>2, OutboxOf DEF IInv, Records
  <1>4. applied' \in Seq(1..version')
    BY <1>1, <1>2 DEF IInv, DeliveryTypeOK
  <1>5. DeliveryTypeOK'
    BY <1>1, <1>2, <1>3, <1>4 DEF IInv, DeliveryTypeOK, Records
  <1> QED BY <1>1, <1>5 DEF IInv, AttemptsLeft, EffectsFollowTheVersions

LEMMA DispatchDelivers ==
    ASSUME IInv, NEW id \in DOMAIN outbox, NEW acknowledged \in BOOLEAN,
           DispatchPending(id, acknowledged) \/ Redispatch(id, acknowledged)
    PROVE  IInv'
  <1>1. outbox[id] \in Records /\ outbox[id].attempts < MaxAttempts
    BY OutboxOf, EventDeliveryAssumption
       DEF IInv, AttemptsLeft, DispatchPending, Pending, Redispatch
  <1>2. /\ Published(outbox[id], acknowledged) \in Records
        /\ Published(outbox[id], acknowledged).status # "pending"
    <2>1. outbox[id].attempts + 1 \in 0..MaxAttempts
      BY <1>1, EventDeliveryAssumption DEF Records
    <2>2. CASE acknowledged
      BY <1>1, <2>1, <2>2 DEF Published, Records
    <2>3. CASE ~acknowledged
      BY <1>1, <2>1, <2>3 DEF Published, Records
    <2> QED BY <2>2, <2>3
  <1>3. /\ outbox' = [outbox EXCEPT ![id] = Published(outbox[id], acknowledged)]
        /\ UNCHANGED <<version, remembered, leapDay, applied, position, rewinds>>
    BY DEF DispatchPending, Redispatch
  <1> QED BY <1>2, <1>3, OneRecord

LEMMA DeadLetterDelivers ==
    ASSUME IInv, NEW id \in DOMAIN outbox, DeadLetter(id)
    PROVE  IInv'
  <1> DEFINE record == [outbox[id] EXCEPT !.status = "dead_lettered"]
  <1>1. record \in Records /\ record.status # "pending"
    BY OutboxOf DEF IInv, Records
  <1>2. /\ outbox' = [outbox EXCEPT ![id] = record]
        /\ UNCHANGED <<version, remembered, leapDay, applied, position, rewinds>>
    BY DEF DeadLetter
  <1> HIDE DEF record
  <1> QED BY <1>1, <1>2, OneRecord

LEMMA ConsumeDelivers ==
    ASSUME IInv, NEW id \in DOMAIN outbox, Consume(id)
    PROVE  IInv'
  <1> DEFINE sequence == outbox[id].sequence
  <1>1. sequence \in 1..version /\ version \in Nat
    BY OutboxOf DEF IInv
  <1>2. /\ sequence \notin SeenEvents /\ sequence = position + 1
        /\ applied' = Append(applied, sequence) /\ position' = sequence
        /\ UNCHANGED <<version, outbox, remembered, leapDay, rewinds>>
    BY DEF Consume, InOrder
  <1> HIDE DEF sequence
  <1>3. applied \in Seq(Nat) /\ Len(applied) \in Nat /\ position \in Nat
    BY <1>1 DEF IInv, DeliveryTypeOK
  <1>4. sequence = Len(applied) + 1
    <2>1. SeenEvents = 1 .. Len(applied)
      BY <1>3 DEF IInv, SeenEvents, EffectsFollowTheVersions
    <2> QED BY <1>1, <1>2, <1>3, <2>1 DEF IInv
  <1>5. applied' \in Seq(1..version) /\ Len(applied') = Len(applied) + 1
        /\ \A i \in 1 .. Len(applied') :
              applied'[i] = IF i <= Len(applied) THEN applied[i] ELSE sequence
    BY <1>1, <1>2, <1>3 DEF IInv, DeliveryTypeOK
  <1>6. EffectsFollowTheVersions'
    BY <1>3, <1>4, <1>5 DEF IInv, EffectsFollowTheVersions
  <1>7. DeliveryTypeOK'
    BY <1>1, <1>2, <1>5 DEF IInv, DeliveryTypeOK
  <1> QED BY <1>2, <1>4, <1>5, <1>6, <1>7 DEF IInv, AttemptsLeft

LEMMA RewindDelivers ==
    ASSUME IInv, NEW p \in 0..MaxVersions, Rewind(p)
    PROVE  IInv'
  <1>1. /\ rewinds' = rewinds + 1 /\ rewinds < MaxRewinds /\ p < position /\ position' = p
        /\ UNCHANGED <<version, outbox, remembered, leapDay, applied>>
    BY DEF Rewind
  <1>2. DeliveryTypeOK'
    BY <1>1, EventDeliveryAssumption DEF IInv, DeliveryTypeOK
  <1>3. position' <= Len(applied')
    BY <1>1, EventDeliveryAssumption DEF IInv, DeliveryTypeOK
  <1> QED BY <1>1, <1>2, <1>3 DEF IInv, AttemptsLeft, EffectsFollowTheVersions

LEMMA DayDelivers == ASSUME IInv, NextDay PROVE IInv'
  BY DEF IInv, NextDay, DeliveryTypeOK, AttemptsLeft, EffectsFollowTheVersions

LEMMA NextDelivers == IInv /\ [DeliveryNext]_deliveryVars => IInv'
  <1> SUFFICES ASSUME IInv, [DeliveryNext]_deliveryVars PROVE IInv'
    OBVIOUS
  <1>1. CASE UNCHANGED deliveryVars
    BY <1>1 DEF deliveryVars, IInv, DeliveryTypeOK, AttemptsLeft, EffectsFollowTheVersions
  <1>2. CASE DeliveryNext
    BY <1>2, ExecuteDelivers, RefusedDelivers, DispatchDelivers, DeadLetterDelivers,
       ConsumeDelivers, RewindDelivers, DayDelivers DEF DeliveryNext
  <1> QED BY <1>1, <1>2

LEMMA AlwaysDelivers == DeliverySpec => []IInv
  BY InitDelivers, NextDelivers, PTL DEF DeliverySpec

-----------------------------------------------------------------------------
(* Every reachable state has the types the model declares; among them, no  *)
(* record is tried more often than the retry policy allows.                *)
THEOREM DeliveryTypeCorrect == DeliverySpec => []DeliveryTypeOK
  BY AlwaysDelivers, PTL DEF IInv

(* Effectively-once, in order: whatever the broker repeats, reorders or    *)
(* keeps, wherever the checkpoint is rewound to, the consumer has applied  *)
(* the events 1, ..., n, each once (ReferenceConsumer.consume).            *)
THEOREM EffectivelyOnce == DeliverySpec => []EffectsFollowTheVersions
  BY AlwaysDelivers, PTL DEF IInv

-----------------------------------------------------------------------------
(* The refinement of AggregateLog.  What the outbox logs and tells, as     *)
(* functions of the outbox alone.                                          *)
EntryOf(record) == [version |-> record.sequence, key |-> record.key]

LoggedIn(box) == {EntryOf(box[id]) : id \in DOMAIN box}

ToldIn(box) == {EntryOf(box[id]) : id \in {i \in DOMAIN box : box[i].evidence # "none"}}

LEMMA OutboxAsLog ==
    /\ {Entry(id) : id \in DOMAIN outbox} = LoggedIn(outbox)
    /\ {Entry(id) : id \in {i \in DOMAIN outbox : outbox[i].evidence # "none"}} = ToldIn(outbox)
    /\ {Entry(id)' : id \in DOMAIN outbox'} = LoggedIn(outbox')
    /\ {Entry(id)' : id \in {i \in DOMAIN outbox' : outbox'[i].evidence # "none"}} = ToldIn(outbox')
  BY DEF Entry, EntryOf, LoggedIn, ToldIn

(* A new record that was not published logs its event and tells nothing.   *)
LEMMA LogGrows ==
    ASSUME NEW box, NEW new, NEW id, id \notin DOMAIN box,
           new = [i \in DOMAIN box \cup {id} |-> IF i = id THEN new[id] ELSE box[i]],
           new[id].evidence = "none"
    PROVE  /\ LoggedIn(new) = LoggedIn(box) \cup {EntryOf(new[id])}
           /\ ToldIn(new) = ToldIn(box)
  <1>1. /\ DOMAIN new = DOMAIN box \cup {id}
        /\ \A i \in DOMAIN box : i # id /\ new[i] = box[i]
    OBVIOUS
  <1> QED BY <1>1 DEF LoggedIn, ToldIn

(* A record that keeps its entry and loses no evidence logs nothing and    *)
(* tells at most its own event.                                            *)
LEMMA LogStands ==
    ASSUME NEW box, NEW new, NEW id \in DOMAIN box, DOMAIN new = DOMAIN box,
           \A i \in DOMAIN box : i # id => new[i] = box[i],
           EntryOf(new[id]) = EntryOf(box[id]),
           box[id].evidence # "none" => new[id].evidence # "none"
    PROVE  /\ LoggedIn(new) = LoggedIn(box) /\ EntryOf(box[id]) \in LoggedIn(box)
           /\ ToldIn(new) \in {ToldIn(box), ToldIn(box) \cup {EntryOf(box[id])}}
  <1>1. LoggedIn(new) = LoggedIn(box) /\ EntryOf(box[id]) \in LoggedIn(box)
    BY DEF LoggedIn
  <1>2. CASE box[id].evidence = "none" /\ new[id].evidence # "none"
    <2>1. ToldIn(new) = ToldIn(box) \cup {EntryOf(box[id])}
      BY <1>2 DEF ToldIn
    <2> QED BY <1>1, <2>1
  <1>3. CASE box[id].evidence = "none" <=> new[id].evidence = "none"
    <2>1. ToldIn(new) = ToldIn(box)
      BY <1>3 DEF ToldIn
    <2> QED BY <1>1, <2>1
  <1> QED BY <1>2, <1>3

(* The event a consumer applies is the one after those it has applied: its *)
(* sequence is past none it has seen, and its checkpoint is not past them. *)
LEMMA NextInOrder ==
    ASSUME IInv, NEW id \in DOMAIN outbox, Consume(id)
    PROVE  outbox[id].sequence = Len(applied) + 1
  <1> DEFINE sequence == outbox[id].sequence
  <1>1. sequence \in 1..version /\ version \in Nat
    BY OutboxOf DEF IInv
  <1>2. sequence \notin SeenEvents /\ sequence = position + 1
    BY DEF Consume, InOrder
  <1> HIDE DEF sequence
  <1>3. applied \in Seq(Nat) /\ Len(applied) \in Nat /\ position \in Nat
    BY <1>1 DEF IInv, DeliveryTypeOK
  <1>4. SeenEvents = 1 .. Len(applied)
    BY <1>3 DEF IInv, SeenEvents, EffectsFollowTheVersions
  <1>5. sequence = Len(applied) + 1
    BY <1>1, <1>2, <1>3, <1>4 DEF IInv
  <1> QED BY <1>5 DEF sequence

LEMMA LogStarts == DeliveryInit => Log!LogInit
  <1> SUFFICES ASSUME DeliveryInit PROVE Log!LogInit
    OBVIOUS
  <1>1. DOMAIN outbox = {}
    BY DEF DeliveryInit
  <1> QED BY <1>1 DEF DeliveryInit, Log!LogInit

LEMMA ExecutePerforms ==
    ASSUME IInv, NEW k \in CommandKeys, NEW id \in RecordIds, Execute(k, id)
    PROVE  Log!Perform(k)
  <1>1. /\ k \notin remembered /\ version' = version + 1 /\ id \notin DOMAIN outbox
        /\ outbox' = [i \in DOMAIN outbox \cup {id} |->
                         IF i = id THEN PendingRecord(k) ELSE outbox[i]]
        /\ remembered' \in {remembered, remembered \cup {k}}
        /\ UNCHANGED applied
    BY DEF Execute
  <1>2. outbox'[id] = PendingRecord(k)
    BY <1>1
  <1>3. EntryOf(outbox'[id]) = [version |-> version', key |-> k]
        /\ outbox'[id].evidence = "none"
    BY <1>1, <1>2 DEF EntryOf, PendingRecord
  <1>4. outbox' = [i \in DOMAIN outbox \cup {id} |-> IF i = id THEN outbox'[id] ELSE outbox[i]]
    BY <1>1, <1>2
  <1>5. /\ LoggedIn(outbox') = LoggedIn(outbox) \cup {[version |-> version', key |-> k]}
        /\ ToldIn(outbox') = ToldIn(outbox)
    BY <1>1, <1>3, <1>4, LogGrows
  <1> QED BY <1>1, <1>5, OutboxAsLog DEF Log!Perform

LEMMA RefusedPerforms ==
    ASSUME NEW k \in CommandKeys, NEW id \in RecordIds, ExecuteRefusedByOutbox(k, id)
    PROVE  Log!PerformUnlogged(k)
  BY OutboxAsLog DEF ExecuteRefusedByOutbox, Log!PerformUnlogged

LEMMA TellingIsAStep ==
    ASSUME NEW event, event \in LoggedIn(outbox), LoggedIn(outbox') = LoggedIn(outbox),
           ToldIn(outbox') = ToldIn(outbox) \cup {event},
           UNCHANGED <<version, remembered, applied>>
    PROVE  Log!LogNext
  <1>1. Log!Tell(event)
    BY OutboxAsLog DEF Log!Tell
  <1>2. event \in {Entry(i) : i \in DOMAIN outbox}
    BY OutboxAsLog
  <1> QED BY <1>1, <1>2 DEF Log!LogNext

(* A step of the dispatcher tells an event or nothing.                     *)
LEMMA RecordTells ==
    ASSUME NEW id \in DOMAIN outbox, NEW record,
           outbox' = [outbox EXCEPT ![id] = record],
           EntryOf(record) = EntryOf(outbox[id]),
           outbox[id].evidence # "none" => record.evidence # "none",
           UNCHANGED <<version, remembered, applied>>
    PROVE  [Log!LogNext]_(Log!logVars)
  <1>1. /\ DOMAIN outbox' = DOMAIN outbox /\ outbox'[id] = record
        /\ \A i \in DOMAIN outbox : i # id => outbox'[i] = outbox[i]
    OBVIOUS
  <1>2. /\ LoggedIn(outbox') = LoggedIn(outbox)
        /\ EntryOf(outbox[id]) \in LoggedIn(outbox)
        /\ ToldIn(outbox') \in {ToldIn(outbox), ToldIn(outbox) \cup {EntryOf(outbox[id])}}
    BY <1>1, LogStands
  <1>3. CASE ToldIn(outbox') = ToldIn(outbox)
    <2>1. UNCHANGED Log!logVars
      BY <1>2, <1>3, OutboxAsLog DEF Log!logVars
    <2> QED BY <2>1
  <1>4. CASE ToldIn(outbox') = ToldIn(outbox) \cup {EntryOf(outbox[id])}
    <2>1. Log!LogNext
      BY <1>2, <1>4, TellingIsAStep
    <2> QED BY <2>1
  <1> QED BY <1>2, <1>3, <1>4

LEMMA DispatchTells ==
    ASSUME IInv, NEW id \in DOMAIN outbox, NEW acknowledged \in BOOLEAN,
           DispatchPending(id, acknowledged) \/ Redispatch(id, acknowledged)
    PROVE  [Log!LogNext]_(Log!logVars)
  <1>1. outbox[id] \in Records
    BY OutboxOf DEF IInv
  <1>2. /\ EntryOf(Published(outbox[id], acknowledged)) = EntryOf(outbox[id])
        /\ Published(outbox[id], acknowledged).evidence # "none"
    BY <1>1 DEF EntryOf, Published, Records
  <1>3. /\ outbox' = [outbox EXCEPT ![id] = Published(outbox[id], acknowledged)]
        /\ UNCHANGED <<version, remembered, applied>>
    BY DEF DispatchPending, Redispatch
  <1> QED BY <1>2, <1>3, RecordTells

LEMMA DeadLetterTellsNothing ==
    ASSUME IInv, NEW id \in DOMAIN outbox, DeadLetter(id)
    PROVE  [Log!LogNext]_(Log!logVars)
  <1> DEFINE record == [outbox[id] EXCEPT !.status = "dead_lettered"]
  <1>1. EntryOf(record) = EntryOf(outbox[id]) /\ record.evidence = outbox[id].evidence
    BY OutboxOf DEF IInv, EntryOf, Records
  <1>2. outbox' = [outbox EXCEPT ![id] = record] /\ UNCHANGED <<version, remembered, applied>>
    BY DEF DeadLetter
  <1> HIDE DEF record
  <1> QED BY <1>1, <1>2, RecordTells

LEMMA ConsumeApplies ==
    ASSUME IInv, NEW id \in DOMAIN outbox, Consume(id)
    PROVE  Log!LogNext
  <1> DEFINE event == Entry(id)
  <1>1. event \in {Entry(i) : i \in {j \in DOMAIN outbox : outbox[j].evidence # "none"}}
    BY DEF Consume
  <1>2. event.version = Len(applied) + 1 /\ applied' = Append(applied, event.version)
    BY NextInOrder DEF Consume, Entry
  <1>3. UNCHANGED <<version, outbox, remembered>>
    BY DEF Consume
  <1>4. /\ {Entry(i)' : i \in DOMAIN outbox'} = {Entry(i) : i \in DOMAIN outbox}
        /\ {Entry(i)' : i \in {j \in DOMAIN outbox' : outbox'[j].evidence # "none"}}
             = {Entry(i) : i \in {j \in DOMAIN outbox : outbox[j].evidence # "none"}}
    BY <1>3, OutboxAsLog
  <1> HIDE DEF event
  <1>5. Log!Apply(event)
    BY <1>2, <1>3, <1>4 DEF Log!Apply
  <1> QED BY <1>1, <1>5 DEF Log!LogNext

LEMMA StepsFollowTheLog ==
    IInv /\ [DeliveryNext]_deliveryVars => [Log!LogNext]_(Log!logVars)
  <1> SUFFICES ASSUME IInv, [DeliveryNext]_deliveryVars PROVE [Log!LogNext]_(Log!logVars)
    OBVIOUS
  <1>1. ASSUME UNCHANGED <<version, outbox, remembered, applied>>
        PROVE  UNCHANGED Log!logVars
    BY <1>1, OutboxAsLog DEF Log!logVars
  <1>2. CASE UNCHANGED deliveryVars
    BY <1>1, <1>2 DEF deliveryVars
  <1>3. ASSUME NEW k \in CommandKeys, NEW id \in RecordIds,
               Execute(k, id) \/ ExecuteRefusedByOutbox(k, id)
        PROVE  Log!LogNext
    BY <1>3, ExecutePerforms, RefusedPerforms DEF Log!LogNext
  <1>4. ASSUME NEW p \in 0..MaxVersions, Rewind(p) PROVE UNCHANGED Log!logVars
    BY <1>1, <1>4 DEF Rewind
  <1>5. CASE NextDay
    BY <1>1, <1>5 DEF NextDay
  <1>6. CASE DeliveryNext
    BY <1>3, <1>4, <1>5, <1>6, DispatchTells, DeadLetterTellsNothing, ConsumeApplies
       DEF DeliveryNext
  <1> QED BY <1>2, <1>6

(* EventDelivery implements AggregateLog: whatever the broker, the         *)
(* dispatcher and a rewind do, readers see versions with at most one event *)
(* each, and a consumer that applies them in order, each once.             *)
THEOREM ImplementsTheLog == DeliverySpec => DeliversItsLog
  BY LogStarts, StepsFollowTheLog, AlwaysDelivers, PTL
     DEF DeliversItsLog, Log!LogSpec, DeliverySpec

-----------------------------------------------------------------------------
(***************************************************************************)
(* Delegations                                                             *)
(***************************************************************************)

DelegationRecord == [from : Voters, to : Voters, until : (1..MaxDays) \cup {Never},
                     status : Statuses]

LEMMA DelegationsTyped ==
    ASSUME DelegationTypeOK, [DelegationNext]_delegationVars, UNCHANGED snapshots
    PROVE  DelegationTypeOK'
<1>1. /\ delegations \in Seq(DelegationRecord) /\ Len(delegations) <= MaxDelegations
      /\ day \in 0 .. MaxDays
  BY DEF DelegationTypeOK, DelegationRecord
<1>2. ASSUME NEW v \in Voters, NEW w \in Voters, NEW until \in (1..MaxDays) \cup {Never},
             CreateDelegation(v, w, until)
      PROVE  /\ delegations' \in Seq(DelegationRecord) /\ Len(delegations') <= MaxDelegations
             /\ day' \in 0 .. MaxDays
  <2>1. [from |-> v, to |-> w, until |-> until, status |-> "draft"] \in DelegationRecord
    BY DEF DelegationRecord, Statuses
  <2>2. QED
    BY <1>1, <1>2, <2>1, DelegationAssumption DEF CreateDelegation
<1>3. ASSUME NEW i \in DOMAIN delegations, NEW target \in Statuses, Transition(i, target)
      PROVE  /\ delegations' \in Seq(DelegationRecord) /\ Len(delegations') <= MaxDelegations
             /\ day' \in 0 .. MaxDays
  <2>1. [delegations[i] EXCEPT !.status = target] \in DelegationRecord
    <3>1. delegations[i] \in DelegationRecord
      BY <1>1
    <3>2. QED
      BY <3>1 DEF DelegationRecord
  <2>2. delegations' = [delegations EXCEPT ![i] = [delegations[i] EXCEPT !.status = target]]
        /\ day' = day
    BY <1>3 DEF Transition
  <2>3. QED
    BY <1>1, <2>1, <2>2
<1>4. ASSUME NEW i \in DOMAIN delegations,
             \/ ActivateDelegation(i) \/ RevokeDelegation(i) \/ ExpireDelegation(i)
             \/ SuspendDelegation(i) \/ UnsuspendDelegation(i) \/ MarkDelegationInvalid(i)
      PROVE  \E target \in Statuses : Transition(i, target)
  BY <1>4 DEF ActivateDelegation, RevokeDelegation, ExpireDelegation, SuspendDelegation,
     UnsuspendDelegation, MarkDelegationInvalid, Statuses
<1>5. CASE Tomorrow \/ UNCHANGED <<delegations, day>>
  BY <1>1, <1>5, DelegationAssumption DEF Tomorrow, DelegationTypeOK, DelegationRecord
<1>6. ASSUME NEW b \in Ballots, NEW direct \in SUBSET Voters, ResolveSnapshot(b, direct)
      PROVE  UNCHANGED <<delegations, day>>
  BY <1>6 DEF ResolveSnapshot
<1>7. CASE /\ delegations' \in Seq(DelegationRecord) /\ Len(delegations') <= MaxDelegations
           /\ day' \in 0 .. MaxDays
  BY <1>7 DEF DelegationTypeOK, DelegationRecord
<1>8. QED
  BY <1>2, <1>3, <1>4, <1>5, <1>6, <1>7 DEF DelegationNext, delegationVars

(* What a voter carries is the votes of a set of voters, and no two voters *)
(* carry the same one.                                                     *)
CarriedBy(w, direct) == {v \in Resolved(direct) \ Excluded(direct) : DelegateOf(v) = w}

LEMMA WeightsFinite ==
    ASSUME NEW direct
    PROVE  /\ IsFiniteSet(Resolved(direct) \ Excluded(direct))
           /\ ResolvedWeights(direct) \in [Voters -> Nat]
           /\ \A w \in Voters :
                 /\ IsFiniteSet(CarriedBy(w, direct))
                 /\ ResolvedWeights(direct)[w] = Cardinality(CarriedBy(w, direct))
<1>1. IsFiniteSet(Resolved(direct) \ Excluded(direct))
  <2>1. (Resolved(direct) \ Excluded(direct)) \in SUBSET Voters
    BY DEF Resolved
  <2>2. QED
    BY <2>1, FS_Subset, DelegationAssumption
<1>2. ASSUME NEW w \in Voters
      PROVE  IsFiniteSet(CarriedBy(w, direct)) /\ Cardinality(CarriedBy(w, direct)) \in Nat
  <2>1. CarriedBy(w, direct) \in SUBSET Voters
    BY DEF CarriedBy, Resolved
  <2>2. QED
    BY <2>1, FS_Subset, FS_CardinalityType, DelegationAssumption
<1>3. ResolvedWeights(direct) = [w \in Voters |-> Cardinality(CarriedBy(w, direct))]
  BY DEF ResolvedWeights, CarriedBy
<1>4. QED
  BY <1>1, <1>2, <1>3

(* So there are at most as many granted votes as voters carried.           *)
LEMMA GrantedFit ==
    ASSUME NEW direct, NEW s, s.weights = ResolvedWeights(direct)
    PROVE  /\ IsFiniteSet(Granted(s))
           /\ Cardinality(Granted(s)) <= Cardinality(Resolved(direct) \ Excluded(direct))
<1> DEFINE carried == Resolved(direct) \ Excluded(direct)
           order == [w \in Voters |-> CHOOSE f : f \in Bijection(1 .. s.weights[w],
                                                                 CarriedBy(w, direct))]
           voter == [g \in Granted(s) |-> order[g[1]][g[2]]]
<1>1. \A w \in Voters : order[w] \in Bijection(1 .. s.weights[w], CarriedBy(w, direct))
  <2> SUFFICES ASSUME NEW w \in Voters
               PROVE  \E f : f \in Bijection(1 .. s.weights[w], CarriedBy(w, direct))
    OBVIOUS
  <2>1. /\ IsFiniteSet(CarriedBy(w, direct))
        /\ s.weights[w] = Cardinality(CarriedBy(w, direct))
    BY WeightsFinite
  <2>2. ExistsBijection(1 .. Cardinality(CarriedBy(w, direct)), CarriedBy(w, direct))
    BY <2>1, FS_CardinalityType
  <2>3. QED
    BY <2>1, <2>2 DEF ExistsBijection
<1>2. \A g \in Granted(s) : g[1] \in Voters /\ g[2] \in 1 .. s.weights[g[1]] /\ g = <<g[1], g[2]>>
  BY DEF Granted
<1> HIDE DEF order
<1>3. ASSUME NEW g \in Granted(s)
      PROVE  voter[g] \in CarriedBy(g[1], direct)
  <2>1. voter[g] = order[g[1]][g[2]]
    OBVIOUS
  <2>2. order[g[1]] \in [1 .. s.weights[g[1]] -> CarriedBy(g[1], direct)]
    BY <1>1, <1>2 DEF Bijection, Injection
  <2>3. QED
    BY <1>2, <2>1, <2>2
<1>4. voter \in [Granted(s) -> carried]
  BY <1>3 DEF CarriedBy
<1>5. ASSUME NEW g \in Granted(s), NEW h \in Granted(s), voter[g] = voter[h]
      PROVE  g = h
  <2>1. g[1] = h[1]
    BY <1>3, <1>5 DEF CarriedBy
  <2>2. g[2] = h[2]
    <3>1. order[g[1]] \in Injection(1 .. s.weights[g[1]], CarriedBy(g[1], direct))
      BY <1>1, <1>2 DEF Bijection
    <3>2. order[g[1]][g[2]] = order[g[1]][h[2]]
      BY <1>5, <2>1
    <3>3. QED
      BY <1>2, <2>1, <3>1, <3>2 DEF Injection, IsInjective
  <2>3. QED
    BY <1>2, <2>1, <2>2
<1> HIDE DEF voter
<1>6. voter \in Injection(Granted(s), carried)
  BY <1>4, <1>5 DEF Injection, IsInjective
<1>7. IsFiniteSet(carried)
  BY WeightsFinite
<1>8. QED
  BY <1>6, <1>7, FS_Injection

(* A vote that is left out is not carried by a voter who delegates on.     *)
LEMMA ExcludedCarryNothing ==
    ASSUME NEW direct, NEW v \in Excluded(direct)
    PROVE  ResolvedWeights(direct)[v] = 0
<1>1. v \in Voters /\ ActiveFrom(v) # {}
  BY DEF Excluded, Resolved
<1>2. CarriedBy(v, direct) = {}
  BY <1>1 DEF CarriedBy, Excluded
<1>3. QED
  BY <1>1, <1>2, WeightsFinite, FS_EmptySet

(* The snapshot that is frozen counts every voter once.                    *)
Fits(s, direct) ==
    /\ s.weights \in [Voters -> Nat] /\ s.cycles \in SUBSET Voters
    /\ Cardinality(Granted(s)) + Cardinality(s.cycles) <= Cardinality(Voters \ direct)
    /\ \A v \in s.cycles : s.weights[v] = 0

LEMMA ResolutionFits ==
    ASSUME NEW direct \in SUBSET Voters, NEW s,
           s = [weights |-> ResolvedWeights(direct), cycles |-> Excluded(direct)]
    PROVE  Fits(s, direct)
<1>1. s.weights = ResolvedWeights(direct) /\ s.cycles = Excluded(direct)
  OBVIOUS
<1> DEFINE resolved == Resolved(direct)
           excluded == Excluded(direct)
<1>2. excluded \in SUBSET resolved /\ resolved \in SUBSET (Voters \ direct)
  BY DEF Excluded, Resolved
<1>3. /\ IsFiniteSet(Voters \ direct) /\ IsFiniteSet(resolved) /\ IsFiniteSet(excluded)
      /\ Cardinality(resolved) <= Cardinality(Voters \ direct)
  <2>1. (Voters \ direct) \in SUBSET Voters
    OBVIOUS
  <2>2. IsFiniteSet(Voters \ direct)
    BY <2>1, FS_Subset, DelegationAssumption
  <2> HIDE DEF resolved, excluded
  <2>3. IsFiniteSet(resolved) /\ Cardinality(resolved) <= Cardinality(Voters \ direct)
    BY <1>2, <2>2, FS_Subset
  <2>4. IsFiniteSet(excluded)
    BY <1>2, <2>3, FS_Subset
  <2>5. QED
    BY <2>2, <2>3, <2>4
<1>4. Cardinality(resolved \ excluded) = Cardinality(resolved) - Cardinality(excluded)
  <2>1. resolved \cap excluded = excluded
    BY <1>2
  <2> HIDE DEF resolved, excluded
  <2>2. QED
    BY <1>3, <2>1, FS_Difference
<1>5. IsFiniteSet(Granted(s)) /\ Cardinality(Granted(s)) <= Cardinality(resolved \ excluded)
  BY <1>1, GrantedFit
<1> HIDE DEF resolved, excluded
<1>6. /\ Cardinality(resolved) \in Nat /\ Cardinality(excluded) \in Nat
      /\ Cardinality(Voters \ direct) \in Nat /\ Cardinality(Granted(s)) \in Nat
  BY <1>3, <1>5, FS_CardinalityType
<1>7. Cardinality(Granted(s)) + Cardinality(excluded) <= Cardinality(Voters \ direct)
  BY <1>3, <1>4, <1>5, <1>6
<1>8. \A v \in excluded : s.weights[v] = 0
  BY <1>1, ExcludedCarryNothing DEF excluded
<1>9. s.weights \in [Voters -> Nat] /\ s.cycles \in SUBSET Voters /\ s.cycles = excluded
  BY <1>1, <1>2, WeightsFinite DEF excluded
<1>10. QED
  BY <1>7, <1>8, <1>9 DEF Fits

DelegationInv == DelegationTypeOK /\ VotesAreCarriedOnce

LEMMA SnapshotStep ==
    ASSUME DelegationInv, NEW b \in Ballots, NEW direct \in SUBSET Voters,
           ResolveSnapshot(b, direct)
    PROVE  DelegationInv'
<1> DEFINE key == <<b, direct>>
           s == [weights |-> ResolvedWeights(direct), cycles |-> Excluded(direct)]
<1>1. /\ DOMAIN snapshots' = DOMAIN snapshots \cup {key} /\ snapshots'[key] = s
      /\ \A k \in DOMAIN snapshots : k # key => snapshots'[k] = snapshots[k]
      /\ key \notin DOMAIN snapshots
      /\ UNCHANGED <<delegations, day>>
  BY DEF ResolveSnapshot
<1>2. Fits(s, direct) /\ key \in Ballots \X SUBSET Voters /\ key[2] = direct
  BY ResolutionFits
<1> HIDE DEF key, s
<1>3. DelegationTypeOK'
  BY <1>1, <1>2 DEF DelegationInv, DelegationTypeOK, Fits
<1>4. \A k \in DOMAIN snapshots' : (k \in DOMAIN snapshots /\ snapshots'[k] = snapshots[k]) \/ k = key
  BY <1>1
<1>5. ASSUME NEW k \in DOMAIN snapshots'
      PROVE  /\ Cardinality(Granted(snapshots'[k])) + Cardinality(snapshots'[k].cycles)
                   <= Cardinality(Voters \ k[2])
             /\ \A v \in snapshots'[k].cycles : snapshots'[k].weights[v] = 0
  <2>1. CASE k = key
    BY <1>1, <1>2, <2>1 DEF Fits
  <2>2. CASE k # key
    <3>1. k \in DOMAIN snapshots /\ snapshots'[k] = snapshots[k]
      BY <1>4, <2>2
    <3>2. QED
      BY <3>1 DEF DelegationInv, VotesAreCarriedOnce
  <2>3. QED
    BY <2>1, <2>2
<1>6. VotesAreCarriedOnce'
  BY <1>5 DEF VotesAreCarriedOnce
<1>7. QED
  BY <1>3, <1>6 DEF DelegationInv

LEMMA DelegationAlways == DelegationSpec => []DelegationInv
<1>1. DelegationInit => DelegationInv
  <2> SUFFICES ASSUME DelegationInit PROVE DelegationInv
    OBVIOUS
  <2>1. delegations = <<>> /\ snapshots = <<>> /\ day = 0 /\ DOMAIN snapshots = {}
    BY DEF DelegationInit
  <2>2. QED
    BY <2>1, DelegationAssumption DEF DelegationInv, DelegationTypeOK, VotesAreCarriedOnce
<1>2. DelegationInv /\ [DelegationNext]_delegationVars => DelegationInv'
  <2> SUFFICES ASSUME DelegationInv, [DelegationNext]_delegationVars PROVE DelegationInv'
    OBVIOUS
  <2>1. CASE UNCHANGED snapshots
    <3>1. VotesAreCarriedOnce'
      BY <2>1 DEF DelegationInv, VotesAreCarriedOnce
    <3>2. QED
      BY <2>1, <3>1, DelegationsTyped DEF DelegationInv
  <2>2. CASE ~UNCHANGED snapshots
    BY <2>2, SnapshotStep DEF DelegationNext, delegationVars, CreateDelegation, Transition,
       ActivateDelegation, RevokeDelegation, ExpireDelegation, SuspendDelegation,
       UnsuspendDelegation, MarkDelegationInvalid, Tomorrow
  <2>3. QED
    BY <2>1, <2>2
<1>3. QED
  BY <1>1, <1>2, PTL DEF DelegationSpec

(* Delegations and snapshots keep their types.                             *)
THEOREM DelegationTypeCorrect == DelegationSpec => []DelegationTypeOK
  BY DelegationAlways, PTL DEF DelegationInv

(* Whatever delegations the voters build up, a snapshot grants and leaves  *)
(* out no more votes than there are voters who did not vote themselves,    *)
(* and a vote that is left out is carried by nobody.                       *)
THEOREM EveryVoteCarriedOnce == DelegationSpec => []VotesAreCarriedOnce
  BY DelegationAlways, PTL DEF DelegationInv

-----------------------------------------------------------------------------
(***************************************************************************)
(* The ballot box                                                          *)
(***************************************************************************)

BoxStatuses == {"none", "draft", "configuration_review", "scheduled", "open",
                "paused", "closed", "cancelled", "invalidated"}
PaperRecord == [status : {"issued", "revoked"}, digest : Snapshots, expires : 1 .. MaxHour]

(* The records behind BoxTypeOK.                                           *)
BoxShape ==
    /\ boxHour \in 0 .. MaxHour
    /\ ballot \in [status : BoxStatuses, creator : Staff \cup {Undecided},
                   digest : Snapshots \cup {Undecided}]
    /\ options \in [OptionIds -> {"none", "active", "locked"}]
    /\ papers \in [Papers -> PaperRecord \cup {NoPaper}]
    /\ votes \in Seq(VoteEnvelope) /\ Len(votes) <= MaxVotes
    /\ mandate \in BOOLEAN

(* The options are locked, and the snapshot is decided, before a vote can  *)
(* be cast.                                                                *)
BallotStages ==
    /\ ballot.status \in {"configuration_review", "scheduled", "open", "paused", "closed"} =>
          ballot.digest # Undecided
    /\ \A o \in OptionIds :
          ballot.status \in {"open", "paused", "closed"} => options[o] # "active"
    /\ votes # <<>> => ballot.status \in {"open", "paused", "closed"}

(* Every vote was cast with a credential, which is never taken away.       *)
VotesHavePapers ==
    \A i \in DOMAIN votes :
        /\ papers[votes[i].paper] # NoPaper
        /\ votes[i].at < ClosesAt /\ votes[i].at < papers[votes[i].paper].expires
        /\ papers[votes[i].paper].digest = ballot.digest

ReceiptsAreOfVotes == receipts \subseteq {i \in DOMAIN votes : votes[i].status # "received"}

BoxInv ==
    /\ BoxShape /\ BallotStages /\ VotesHavePapers /\ ReceiptsAreOfVotes
    /\ VotesAreNotLost

LEMMA BoxInitially == BoxInit => BoxInv
<1> SUFFICES ASSUME BoxInit PROVE BoxInv
  OBVIOUS
<1>1. votes = <<>> /\ DOMAIN votes = {} /\ Len(votes) = 0
  BY DEF BoxInit
<1>2. votes \in Seq(VoteEnvelope)
  BY <1>1
<1>3. BoxShape
  <2>1. ballot \in [status : BoxStatuses, creator : Staff \cup {Undecided},
                    digest : Snapshots \cup {Undecided}]
    BY DEF BoxInit, BoxStatuses
  <2>2. papers \in [Papers -> PaperRecord \cup {NoPaper}]
    BY DEF BoxInit
  <2>3. options \in [OptionIds -> {"none", "active", "locked"}]
    BY DEF BoxInit
  <2>4. mandate \in BOOLEAN
    BY DEF BoxInit
  <2>5. boxHour \in 0 .. MaxHour /\ Len(votes) <= MaxVotes
    BY <1>1, BallotBoxAssumption DEF BoxInit
  <2>6. QED
    BY <1>2, <2>1, <2>2, <2>3, <2>4, <2>5 DEF BoxShape
<1>4. BallotStages
  BY <1>1 DEF BoxInit, BallotStages
<1>5. VotesHavePapers /\ ReceiptsAreOfVotes /\ VotesAreNotLost
  BY <1>1 DEF BoxInit, VotesHavePapers, ReceiptsAreOfVotes, VotesAreNotLost
<1>6. QED
  BY <1>3, <1>4, <1>5 DEF BoxInv

(* Steps that leave the votes alone.                                       *)
LEMMA BallotSteps ==
    ASSUME BoxInv,
           \/ \E staff \in Staff : CreateBallot(staff) \/ ApproveConfiguration(staff)
           \/ \E o \in OptionIds : AddOption(o)
           \/ \E d \in Snapshots : SubmitConfiguration(d)
           \/ OpenBallot \/ InvalidateBallot \/ GovernanceDecides \/ NextHour
           \/ \E target \in {"paused", "open", "closed", "cancelled"} : MoveBallot(target)
    PROVE  BoxInv'
<1>1. UNCHANGED <<votes, receipts, papers>>
  BY DEF CreateBallot, ApproveConfiguration, AddOption, SubmitConfiguration, OpenBallot,
         InvalidateBallot, GovernanceDecides, NextHour, MoveBallot
<1>2. /\ ballot \in [status : BoxStatuses, creator : Staff \cup {Undecided},
                      digest : Snapshots \cup {Undecided}]
      /\ options \in [OptionIds -> {"none", "active", "locked"}]
  BY DEF BoxInv, BoxShape
<1>3. BoxShape' /\ BallotStages'
  <2> USE <1>1, <1>2 DEF BoxInv, BoxShape, BallotStages
  <2>1. ASSUME NEW staff \in Staff, CreateBallot(staff) PROVE BoxShape' /\ BallotStages'
    BY <2>1 DEF CreateBallot, BoxStatuses
  <2>2. ASSUME NEW staff \in Staff, ApproveConfiguration(staff)
        PROVE  BoxShape' /\ BallotStages'
    <3>1. ballot.digest # Undecided
      BY <2>2 DEF ApproveConfiguration
    <3>2. QED
      BY <2>2, <3>1 DEF ApproveConfiguration, BoxStatuses
  <2>3. ASSUME NEW o \in OptionIds, AddOption(o) PROVE BoxShape' /\ BallotStages'
    BY <2>3 DEF AddOption
  <2>4. ASSUME NEW d \in Snapshots, SubmitConfiguration(d) PROVE BoxShape' /\ BallotStages'
    BY <2>4, BallotBoxAssumption DEF SubmitConfiguration, BoxStatuses
  <2>5. CASE OpenBallot
    BY <2>5 DEF OpenBallot, BoxStatuses
  <2>6. CASE InvalidateBallot
    BY <2>6 DEF InvalidateBallot, BoxStatuses
  <2>7. CASE GovernanceDecides
    BY <2>7 DEF GovernanceDecides
  <2>8. CASE NextHour
    BY <2>8, BallotBoxAssumption DEF NextHour
  <2>9. ASSUME NEW target \in {"paused", "open", "closed", "cancelled"}, MoveBallot(target)
        PROVE  BoxShape' /\ BallotStages'
    BY <2>9 DEF MoveBallot, BallotTransitions, BoxStatuses
  <2>10. QED
    BY <2>1, <2>2, <2>3, <2>4, <2>5, <2>6, <2>7, <2>8, <2>9
<1>4. votes # <<>> => ballot'.digest = ballot.digest
  BY DEF BoxInv, BoxShape, BallotStages, CreateBallot,
     ApproveConfiguration, AddOption, SubmitConfiguration, OpenBallot, InvalidateBallot,
     GovernanceDecides, NextHour, MoveBallot
<1>5. VotesHavePapers'
  <2>1. \A i \in DOMAIN votes : votes # <<>>
    OBVIOUS
  <2>2. QED
    BY <1>1, <1>4, <2>1 DEF BoxInv, VotesHavePapers
<1>6. ReceiptsAreOfVotes' /\ VotesAreNotLost'
  BY <1>1 DEF BoxInv, ReceiptsAreOfVotes, VotesAreNotLost
<1>7. QED
  BY <1>3, <1>5, <1>6 DEF BoxInv

LEMMA PaperSteps ==
    ASSUME BoxInv, NEW p \in Papers,
           \/ \E d \in Snapshots, expires \in 1 .. MaxHour : IssueCredential(p, d, expires)
           \/ RevokeCredential(p)
    PROVE  BoxInv'
<1>1. UNCHANGED <<boxHour, ballot, options, votes, receipts, mandate>>
  BY DEF IssueCredential, RevokeCredential
<1>2. /\ papers' \in [Papers -> PaperRecord \cup {NoPaper}]
      /\ \A q \in Papers : papers[q] # NoPaper =>
            /\ papers'[q] # NoPaper /\ papers'[q].expires = papers[q].expires
            /\ papers'[q].digest = papers[q].digest
  <2>1. CASE RevokeCredential(p)
    <3>1. papers[p] \in PaperRecord /\ papers' = [papers EXCEPT ![p].status = "revoked"]
      BY <2>1 DEF BoxInv, BoxShape, RevokeCredential, NoPaper
    <3>2. /\ [papers[p] EXCEPT !.status = "revoked"] \in PaperRecord
          /\ [papers[p] EXCEPT !.status = "revoked"].digest = papers[p].digest
          /\ [papers[p] EXCEPT !.status = "revoked"].expires = papers[p].expires
          /\ [papers[p] EXCEPT !.status = "revoked"] # NoPaper
      BY <3>1 DEF PaperRecord, NoPaper
    <3>3. QED
      BY <3>1, <3>2 DEF BoxInv, BoxShape
  <2>2. ASSUME NEW d \in Snapshots, NEW expires \in 1 .. MaxHour, IssueCredential(p, d, expires)
        PROVE  <1>2!1 /\ <1>2!2
    BY <2>2 DEF IssueCredential, BoxInv, BoxShape, PaperRecord
  <2>3. QED
    BY <2>1, <2>2
<1>3. VotesHavePapers'
  <2>1. \A i \in DOMAIN votes : votes[i].paper \in Papers
    <3>1. \A i \in DOMAIN votes : votes[i] \in VoteEnvelope
      BY DEF BoxInv, BoxShape
    <3>2. QED
      BY <3>1 DEF VoteEnvelope
  <2>2. QED
    BY <1>1, <1>2, <2>1 DEF BoxInv, VotesHavePapers
<1>4. QED
  BY <1>1, <1>2, <1>3 DEF BoxInv, BoxShape, BallotStages, ReceiptsAreOfVotes, VotesAreNotLost

(* Superseding touches the validated votes of one credential only.         *)
LEMMA SupersedingType ==
    ASSUME BoxInv, NEW p
    PROVE  /\ Superseding(p) \in Seq(VoteEnvelope)
           /\ Len(Superseding(p)) = Len(votes) /\ DOMAIN Superseding(p) = DOMAIN votes
           /\ \A i \in DOMAIN votes :
                 /\ Superseding(p)[i].paper = votes[i].paper
                 /\ Superseding(p)[i].at = votes[i].at
                 /\ Superseding(p)[i].status # votes[i].status =>
                       /\ Superseding(p)[i].status = "superseded"
                       /\ votes[i].status = "validated" /\ votes[i].paper = p
<1>1. votes \in Seq(VoteEnvelope) /\ Len(votes) \in Nat /\ DOMAIN votes = 1 .. Len(votes)
  BY DEF BoxInv, BoxShape
<1>2. ASSUME NEW i \in DOMAIN votes
      PROVE  /\ Superseding(p)[i] \in VoteEnvelope
             /\ Superseding(p)[i].paper = votes[i].paper
             /\ Superseding(p)[i].at = votes[i].at
             /\ Superseding(p)[i].status # votes[i].status =>
                   /\ Superseding(p)[i].status = "superseded"
                   /\ votes[i].status = "validated" /\ votes[i].paper = p
  <2>1. votes[i] \in VoteEnvelope
    BY <1>1
  <2>2. CASE i \in Existing(p)
    <3>1. Superseding(p)[i] = [votes[i] EXCEPT !.status = "superseded"]
      BY <2>2 DEF Superseding
    <3>2. votes[i].status = "validated" /\ votes[i].paper = p
      BY <2>2 DEF Existing, Validated
    <3>3. QED
      BY <2>1, <3>1, <3>2 DEF VoteEnvelope
  <2>3. CASE i \notin Existing(p)
    <3>1. Superseding(p)[i] = votes[i]
      BY <2>3 DEF Superseding
    <3>2. QED
      BY <2>1, <3>1
  <2>4. QED
    BY <2>2, <2>3
<1>3. DOMAIN Superseding(p) = 1 .. Len(votes)
  BY <1>1 DEF Superseding
<1>4. Superseding(p) = [i \in 1 .. Len(votes) |-> Superseding(p)[i]]
  BY <1>1 DEF Superseding
<1>5. Superseding(p) \in [1 .. Len(votes) -> VoteEnvelope]
  BY <1>1, <1>2, <1>4
<1>6. Superseding(p) \in Seq(VoteEnvelope) /\ Len(Superseding(p)) = Len(votes)
  BY <1>1, <1>5
<1>7. QED
  BY <1>1, <1>2, <1>3, <1>6

(* A cast supersedes for a vote that stands: the new one.                  *)
LEMMA CastStep ==
    ASSUME BoxInv, NEW p \in Papers, NEW choice \in OptionIds, CastVote(p, choice)
    PROVE  BoxInv'
<1> DEFINE old == Superseding(p)
           new == Envelope(p, choice)
           n == Len(votes) + 1
<1>1. /\ ballot.status = "open" /\ boxHour < ClosesAt /\ papers[p] \in PaperRecord
      /\ boxHour < papers[p].expires /\ papers[p].digest = ballot.digest
      /\ Len(votes) < MaxVotes /\ votes' = Append(old, new)
      /\ UNCHANGED <<boxHour, ballot, options, papers, receipts, mandate>>
      /\ papers[p] # NoPaper
  BY DEF CastVote, MayCast, ValidPaper, BoxInv, BoxShape, NoPaper, PaperRecord
<1>2. new \in VoteEnvelope /\ new.paper = p /\ new.at = boxHour /\ new.status = "received"
  BY DEF Envelope, VoteEnvelope, BoxInv, BoxShape
<1>3. /\ old \in Seq(VoteEnvelope) /\ Len(old) = Len(votes) /\ DOMAIN old = DOMAIN votes
      /\ \A i \in DOMAIN votes :
            /\ old[i].paper = votes[i].paper /\ old[i].at = votes[i].at
            /\ old[i].status # votes[i].status =>
                  /\ old[i].status = "superseded"
                  /\ votes[i].status = "validated" /\ votes[i].paper = p
  BY SupersedingType
<1>4. Len(votes) \in Nat /\ DOMAIN votes = 1 .. Len(votes)
  BY DEF BoxInv, BoxShape
<1> HIDE DEF old, new
<1>5. /\ votes' \in Seq(VoteEnvelope) /\ Len(votes') = n /\ DOMAIN votes' = 1 .. n
      /\ votes'[n] = new /\ \A i \in DOMAIN votes : votes'[i] = old[i]
      /\ n \notin DOMAIN votes /\ n \in DOMAIN votes' /\ DOMAIN votes \subseteq DOMAIN votes'
      /\ \A i \in DOMAIN votes' : i \in DOMAIN votes \/ i = n
  BY <1>1, <1>2, <1>3, <1>4
<1> HIDE DEF n
<1>6. BoxShape'
  <2>1. Len(votes') <= MaxVotes
    BY <1>1, <1>4, <1>5, BallotBoxAssumption DEF n
  <2>2. QED
    BY <1>1, <1>5, <2>1 DEF BoxInv, BoxShape
<1>7. BallotStages'
  BY <1>1 DEF BoxInv, BallotStages
<1>8. VotesHavePapers'
  BY <1>1, <1>2, <1>3, <1>5 DEF BoxInv, VotesHavePapers
<1>9. ReceiptsAreOfVotes'
  BY <1>1, <1>3, <1>5 DEF BoxInv, ReceiptsAreOfVotes
<1>10. ASSUME NEW i \in DOMAIN votes', votes'[i].status = "superseded"
       PROVE  \E j \in DOMAIN votes' \ {i} :
                 /\ votes'[j].paper = votes'[i].paper
                 /\ votes'[j].status \in {"received", "validated"}
  <2>1. i \in DOMAIN votes /\ i # n
    BY <1>2, <1>5, <1>10
  <2>2. CASE votes[i].paper = p
    BY <2>1, <2>2, <1>2, <1>3, <1>5
  <2>3. CASE votes[i].paper # p
    <3>1. votes[i].status = "superseded"
      BY <2>1, <2>3, <1>3, <1>5, <1>10
    <3>2. PICK j \in DOMAIN votes \ {i} : /\ votes[j].paper = votes[i].paper
                                          /\ votes[j].status \in {"received", "validated"}
      BY <2>1, <3>1 DEF BoxInv, VotesAreNotLost
    <3>3. QED
      BY <2>1, <2>3, <3>2, <1>3, <1>5
  <2>4. QED
    BY <2>2, <2>3
<1>11. QED
  BY <1>6, <1>7, <1>8, <1>9, <1>10 DEF BoxInv, VotesAreNotLost

(* A retry supersedes for the vote it answers with.                        *)
LEMMA RetryStep ==
    ASSUME BoxInv, NEW k \in DOMAIN votes, CastAgain(k)
    PROVE  BoxInv'
<1> DEFINE p == votes[k].paper
           old == Superseding(p)
<1>1. /\ votes' = old /\ votes[k].status = "received"
      /\ UNCHANGED <<boxHour, ballot, options, papers, receipts, mandate>>
  BY DEF CastAgain, Envelope
<1>2. /\ old \in Seq(VoteEnvelope) /\ Len(old) = Len(votes) /\ DOMAIN old = DOMAIN votes
      /\ \A i \in DOMAIN votes :
            /\ old[i].paper = votes[i].paper /\ old[i].at = votes[i].at
            /\ old[i].status # votes[i].status =>
                  /\ old[i].status = "superseded"
                  /\ votes[i].status = "validated" /\ votes[i].paper = p
  BY SupersedingType
<1> HIDE DEF old
<1>3. BoxShape'
  BY <1>1, <1>2 DEF BoxInv, BoxShape
<1>4. BallotStages'
  <2>1. votes' # <<>> => votes # <<>>
    BY <1>1, <1>2
  <2>2. QED
    BY <1>1, <2>1 DEF BoxInv, BallotStages
<1>5. VotesHavePapers'
  BY <1>1, <1>2 DEF BoxInv, VotesHavePapers
<1>6. ReceiptsAreOfVotes'
  BY <1>1, <1>2 DEF BoxInv, ReceiptsAreOfVotes
<1>7. ASSUME NEW i \in DOMAIN old, old[i].status = "superseded"
      PROVE  \E j \in DOMAIN old \ {i} : /\ old[j].paper = old[i].paper
                                         /\ old[j].status \in {"received", "validated"}
  <2>1. CASE votes[i].paper = p
    <3>1. old[k].status = "received" /\ old[k].paper = p /\ i # k
      BY <1>1, <1>2, <1>7
    <3>2. QED
      BY <2>1, <3>1, <1>2
  <2>2. CASE votes[i].paper # p
    <3>1. votes[i].status = "superseded"
      BY <2>2, <1>2, <1>7
    <3>2. PICK j \in DOMAIN votes \ {i} : /\ votes[j].paper = votes[i].paper
                                          /\ votes[j].status \in {"received", "validated"}
      BY <1>2, <3>1 DEF BoxInv, VotesAreNotLost
    <3>3. QED
      BY <2>2, <3>2, <1>2
  <2>3. QED
    BY <2>1, <2>2
<1>8. QED
  BY <1>1, <1>3, <1>4, <1>5, <1>6, <1>7 DEF BoxInv, VotesAreNotLost

LEMMA ValidationStep ==
    ASSUME BoxInv, NEW k \in DOMAIN votes, ValidateVote(k)
    PROVE  BoxInv'
<1> DEFINE good == [votes[k] EXCEPT !.status = "validated"]
<1>1. /\ votes' = [votes EXCEPT ![k] = good] /\ votes[k].status = "received"
      /\ UNCHANGED <<boxHour, ballot, options, papers, receipts, mandate>>
  BY DEF ValidateVote
<1>2. /\ good \in VoteEnvelope /\ good.status = "validated" /\ good.paper = votes[k].paper
      /\ good.at = votes[k].at
  <2>1. votes[k] \in VoteEnvelope
    BY DEF BoxInv, BoxShape
  <2>2. QED
    BY <2>1 DEF VoteEnvelope
<1> HIDE DEF good
<1>3. /\ votes' \in Seq(VoteEnvelope) /\ Len(votes') = Len(votes) /\ DOMAIN votes' = DOMAIN votes
      /\ votes'[k] = good /\ \A i \in DOMAIN votes : i # k => votes'[i] = votes[i]
  BY <1>1, <1>2 DEF BoxInv, BoxShape
<1>4. BoxShape' /\ VotesHavePapers' /\ ReceiptsAreOfVotes'
  BY <1>1, <1>2, <1>3 DEF BoxInv, BoxShape, VotesHavePapers, ReceiptsAreOfVotes
<1>5. BallotStages'
  <2>1. votes # <<>>
    OBVIOUS
  <2>2. QED
    BY <1>1, <2>1 DEF BoxInv, BallotStages
<1>6. VotesAreNotLost'
  BY <1>1, <1>2, <1>3 DEF BoxInv, VotesAreNotLost
<1>7. QED
  BY <1>4, <1>5, <1>6 DEF BoxInv

LEMMA BoxStands == BoxInv /\ [BoxNext]_boxVars => BoxInv'
<1> SUFFICES ASSUME BoxInv, [BoxNext]_boxVars PROVE BoxInv'
  OBVIOUS
<1>1. ASSUME NEW i \in DOMAIN votes, IssueReceipt(i) PROVE BoxInv'
  BY <1>1 DEF IssueReceipt, BoxInv, BoxShape, BallotStages, VotesHavePapers, ReceiptsAreOfVotes,
     VotesAreNotLost
<1>2. CASE UNCHANGED boxVars
  BY <1>2 DEF boxVars, BoxInv, BoxShape, BallotStages, VotesHavePapers, ReceiptsAreOfVotes,
     VotesAreNotLost
<1>3. QED
  BY <1>1, <1>2, BallotSteps, PaperSteps, CastStep, RetryStep, ValidationStep DEF BoxNext

LEMMA BoxAlways == BoxSpec => []BoxInv
  BY BoxInitially, BoxStands, PTL DEF BoxSpec

(* The ballot, its credentials and its votes keep their types: the options *)
(* of an open ballot are locked, and every vote was cast in time by a      *)
(* credential of the snapshot the ballot is bound to (cast_vote).          *)
THEOREM BoxTypeCorrect == BoxSpec => []BoxTypeOK
<1>1. BoxInv => BoxTypeOK
  BY DEF BoxInv, BoxShape, BallotStages, VotesHavePapers, ReceiptsAreOfVotes, BoxTypeOK,
     BoxStatuses, PaperRecord
<1>2. QED
  BY <1>1, BoxAlways, PTL

(* Whatever order casts, retries and validations come in, a vote is only   *)
(* superseded while another of its credential stands.                      *)
THEOREM NoVoteIsLost == BoxSpec => []VotesAreNotLost
  BY BoxAlways, PTL DEF BoxInv

-----------------------------------------------------------------------------
(***************************************************************************)
(* Proofs about Governance, for any roles, holders, policies, decisions    *)
(* and challenges.                                                         *)
(***************************************************************************)

Challenge == [status : {"submitted", "under_review", "upheld", "rejected"},
              by : DecisionIds \cup {Nothing}]

(* The types, with the stores as functions.                                *)
GovernanceShape ==
    /\ tenure \in [Roles -> {"none", "pending", "active", "revoked"}]
    /\ inForce \in PolicyIds \cup {Nothing}
    /\ windowOpen \in BOOLEAN
    /\ acts \in 0 .. MaxActs
    /\ rules \in [PolicyIds -> Rule \cup {NoRule}]
    /\ decisions \in [DecisionIds -> GovernanceDecision \cup {NoDecision}]
    /\ challenges \in [ChallengeIds -> Challenge \cup {NoChallenge}]

(* No version exceeds the commands carried out, there is a greatest one    *)
(* whenever there is any, and none is given twice.                         *)
VersionsRise ==
    /\ \A g \in PolicyIds : rules[g] # NoRule => rules[g].version <= acts
    /\ \E v \in Versions \cup {0} : \A w \in Versions : w <= v
    /\ \A g, h \in PolicyIds : rules[g] # NoRule /\ rules[h] # NoRule /\ g # h =>
          rules[g].version # rules[h].version

ActiveInForce == \A g \in PolicyIds : rules[g].status = "active" <=> g = inForce

(* Who decided is not who proposed; an adjudication is about a challenge;  *)
(* a resolved challenge names the decision, which went the same way.       *)
DecidedByAnother ==
    \A d \in DecisionIds : decisions[d] # NoDecision =>
        /\ decisions[d].decider # Nothing =>
              HolderOf[decisions[d].decider] # HolderOf[decisions[d].proposer]
        /\ decisions[d].kind = "adjudication" => decisions[d].challenge \in ChallengeIds

ResolvedAsDecided ==
    \A c \in ChallengeIds : challenges[c].status \in {"upheld", "rejected"} =>
        /\ challenges[c].by \in DecisionIds
        /\ decisions[challenges[c].by].challenge = c
        /\ decisions[challenges[c].by].status =
              IF challenges[c].status = "upheld" THEN "approved" ELSE "rejected"

OneDetermination == \A d, e \in Determinations : d = e

GovernanceInv ==
    /\ GovernanceShape
    /\ VersionsRise
    /\ ActiveInForce
    /\ DecidedByAnother
    /\ ResolvedAsDecided
    /\ OneDetermination

ruleVars == <<rules, inForce>>
decisionVars == <<decisions, challenges>>

LEMMA NothingApart == Nothing \notin PolicyIds /\ Nothing \notin DecisionIds /\ Nothing \notin Roles
  BY GovernanceAssumption DEF GovernanceAssumption

LEMMA GovernanceStart == GovernanceInit => GovernanceInv
  <1> SUFFICES ASSUME GovernanceInit PROVE GovernanceInv
    OBVIOUS
  <1> USE DEF GovernanceInit
  <1>1. GovernanceShape
    BY GovernanceAssumption DEF GovernanceShape, GovernanceAssumption
  <1>2. Versions = {}
    BY DEF Versions
  <1>3. VersionsRise
    BY <1>2 DEF VersionsRise
  <1>4. ActiveInForce
    BY NothingApart DEF ActiveInForce, NoRule
  <1>5. DecidedByAnother
    BY DEF DecidedByAnother
  <1>6. ResolvedAsDecided
    BY DEF ResolvedAsDecided, NoChallenge
  <1>7. Determinations = {}
    BY DEF Determinations, Approved, NoDecision
  <1> QED
    BY <1>1, <1>3, <1>4, <1>5, <1>6, <1>7 DEF GovernanceInv, OneDetermination

(* What a step leaves alone keeps what is said of it: the rules ...        *)
LEMMA RulesUntouched ==
  ASSUME VersionsRise, ActiveInForce, UNCHANGED ruleVars, acts \in Nat, acts' \in Nat,
         acts <= acts',
         rules \in [PolicyIds -> Rule \cup {NoRule}]
  PROVE  VersionsRise' /\ ActiveInForce'
  <1> USE DEF ruleVars
  <1>1. Versions' = Versions
    BY DEF Versions
  <1>2. \A g \in PolicyIds : rules[g] # NoRule => rules[g].version \in Nat
    BY DEF Rule, NoRule
  <1>3. \A g \in PolicyIds : rules[g] # NoRule => rules[g].version <= acts
    BY DEF VersionsRise
  <1>4. \A g \in PolicyIds : rules'[g] # NoRule => rules'[g].version <= acts'
    BY <1>2, <1>3
  <1>5. (\E v \in Versions \cup {0} : \A w \in Versions : w <= v)'
    BY <1>1 DEF VersionsRise
  <1>6. \A g, h \in PolicyIds : rules'[g] # NoRule /\ rules'[h] # NoRule /\ g # h =>
          rules'[g].version # rules'[h].version
    BY DEF VersionsRise
  <1> QED
    BY <1>4, <1>5, <1>6 DEF VersionsRise, ActiveInForce

(* ... and the decisions with the challenges.                              *)
LEMMA DecisionsUntouched ==
  ASSUME DecidedByAnother, ResolvedAsDecided, OneDetermination, UNCHANGED decisionVars
  PROVE  DecidedByAnother' /\ ResolvedAsDecided' /\ OneDetermination'
  <1> USE DEF decisionVars
  <1>1. Determinations' = Determinations
    BY DEF Determinations, Approved, Superseded
  <1>2. OneDetermination'
    BY <1>1 DEF OneDetermination
  <1> QED
    BY <1>2 DEF DecidedByAnother, ResolvedAsDecided

(* A version is a natural number, within the commands carried out.         *)
LEMMA VersionsBounded ==
  ASSUME GovernanceShape, VersionsRise
  PROVE  Versions \subseteq 1 .. acts
  BY DEF GovernanceShape, VersionsRise, Versions, Rule, NoRule

(* latest_version_for_policy_type + 1 is later than every version.         *)
LEMMA NextIsLater ==
  ASSUME GovernanceShape, VersionsRise
  PROVE  /\ NextVersion \in 1 .. (acts + 1)
         /\ \A w \in Versions : w < NextVersion
  <1>1. Versions \subseteq 1 .. acts
    BY VersionsBounded
  <1> DEFINE latest == CHOOSE v \in Versions \cup {0} : \A w \in Versions : w <= v
  <1>2. latest \in Versions \cup {0} /\ \A w \in Versions : w <= latest
    BY DEF VersionsRise
  <1>3. NextVersion = 1 + latest
    BY DEF NextVersion
  <1>4. acts \in Nat
    BY DEF GovernanceShape
  <1> HIDE DEF latest
  <1> QED
    BY <1>1, <1>2, <1>3, <1>4

LEMMA ActRises ==
  ASSUME GovernanceShape, Act
  PROVE  acts \in Nat /\ acts' \in 0 .. MaxActs /\ acts' = acts + 1 /\ acts <= acts' /\ acts' \in Nat
  BY GovernanceAssumption DEF GovernanceShape, Act, GovernanceAssumption

LEMMA Proposed ==
  ASSUME GovernanceInv, NEW g \in PolicyIds, NEW x \in Roles, NEW y \in Roles,
         ProposePolicy(g, x, y)
  PROVE  GovernanceInv'
  <1> USE DEF ProposePolicy
  <1> DEFINE new == [status |-> "draft", version |-> NextVersion, proposer |-> x, approver |-> y]
  <1>1. GovernanceShape /\ VersionsRise
    BY DEF GovernanceInv
  <1>2. NextVersion \in 1 .. (acts + 1) /\ \A w \in Versions : w < NextVersion
    BY <1>1, NextIsLater
  <1>3. acts \in Nat /\ acts' \in 0 .. MaxActs /\ acts' = acts + 1
    BY <1>1, ActRises
  <1>4. MaxActs \in Nat
    BY GovernanceAssumption DEF GovernanceAssumption
  <1>5. NextVersion \in 1 .. MaxActs
    BY <1>2, <1>3, <1>4
  <1>6. new \in Rule
    BY <1>5 DEF Rule
  <1>7. new.status = "draft" /\ new.version = NextVersion
    OBVIOUS
  <1>8. rules' = [rules EXCEPT ![g] = new] /\ rules[g] = NoRule
    BY DEF Unused
  <1>n. new # NoRule
    BY <1>7 DEF NoRule
  <1> HIDE DEF new
  <1>9. rules \in [PolicyIds -> Rule \cup {NoRule}]
    BY <1>1 DEF GovernanceShape
  <1>10. /\ rules' \in [PolicyIds -> Rule \cup {NoRule}]
         /\ rules'[g] = new
         /\ \A h \in PolicyIds : h # g => rules'[h] = rules[h]
    BY <1>6, <1>8, <1>9
  <1>11. GovernanceShape'
    BY <1>1, <1>3, <1>10 DEF GovernanceShape
  <1>12. Versions \subseteq 1 .. acts
    BY <1>1, VersionsBounded
  <1>13. \A h \in PolicyIds : rules[h] # NoRule => rules[h].version \in Versions
    BY DEF Versions
  <1>14. Versions' = Versions \cup {NextVersion}
    BY <1>7, <1>8, <1>10, <1>n DEF Versions
  <1>15. VersionsRise'
    <2>0. \A w \in Versions : w <= acts'
      BY <1>3, <1>12
    <2>1. \A h \in PolicyIds : rules'[h] # NoRule => rules'[h].version <= acts'
      <3> TAKE h \in PolicyIds
      <3>1. NextVersion <= acts'
        BY <1>2, <1>3
      <3>2. CASE h = g
        BY <3>1, <3>2, <1>7, <1>10
      <3>3. CASE h # g
        BY <3>3, <2>0, <1>10, <1>13
      <3> QED
        BY <3>2, <3>3
    <2>2. \A w \in Versions' : w <= NextVersion
      BY <1>2, <1>3, <1>12, <1>14
    <2>3. (\E v \in Versions \cup {0} : \A w \in Versions : w <= v)'
      BY <1>14, <2>2
    <2>4. \A h \in PolicyIds : rules[h] # NoRule => rules[h].version # NextVersion
      BY <1>2, <1>3, <1>12, <1>13
    <2>5. \A h, k \in PolicyIds : rules'[h] # NoRule /\ rules'[k] # NoRule /\ h # k =>
              rules'[h].version # rules'[k].version
      <3> TAKE h, k \in PolicyIds
      <3>1. CASE h = g
        BY <3>1, <2>4, <1>7, <1>10
      <3>2. CASE k = g
        BY <3>2, <2>4, <1>7, <1>10
      <3>3. CASE h # g /\ k # g
        BY <3>3, <1>1, <1>10 DEF VersionsRise
      <3> QED
        BY <3>1, <3>2, <3>3
    <2> QED
      BY <2>1, <2>3, <2>5 DEF VersionsRise
  <1>16. ActiveInForce'
    <2>1. g # inForce
      BY <1>8 DEF GovernanceInv, ActiveInForce, NoRule
    <2> QED
      BY <2>1, <1>7, <1>10 DEF GovernanceInv, ActiveInForce
  <1>17. DecidedByAnother' /\ ResolvedAsDecided' /\ OneDetermination'
    BY DecisionsUntouched DEF GovernanceInv, decisionVars
  <1> QED
    BY <1>11, <1>15, <1>16, <1>17 DEF GovernanceInv

(* Superseding a rule and activating one change no version.                *)
LEMMA OnlyStatusesChange ==
  ASSUME GovernanceInv, GovernanceShape', acts' \in Nat, acts <= acts',
         \A h \in PolicyIds : /\ rules'[h] = NoRule <=> rules[h] = NoRule
                              /\ rules[h] # NoRule => rules'[h].version = rules[h].version
  PROVE  VersionsRise'
  <1>1. GovernanceShape /\ VersionsRise
    BY DEF GovernanceInv
  <1>2. Versions' = Versions
    BY DEF Versions
  <1>3. Versions \subseteq 1 .. acts /\ acts \in Nat
    BY <1>1, VersionsBounded DEF GovernanceShape
  <1>4. \A h \in PolicyIds : rules[h] # NoRule => rules[h].version \in Versions
    BY DEF Versions
  <1>4a. \A w \in Versions : w <= acts'
    BY <1>3
  <1>5. \A h \in PolicyIds : rules'[h] # NoRule => rules'[h].version <= acts'
    BY <1>4, <1>4a
  <1>6. (\E v \in Versions \cup {0} : \A w \in Versions : w <= v)'
    BY <1>1, <1>2 DEF VersionsRise
  <1>7. \A h, k \in PolicyIds : rules'[h] # NoRule /\ rules'[k] # NoRule /\ h # k =>
              rules'[h].version # rules'[k].version
    BY <1>1 DEF VersionsRise
  <1> QED
    BY <1>5, <1>6, <1>7 DEF VersionsRise

(* A rule with another status is a rule, with its version.                 *)
LEMMA RuleWithStatus ==
  ASSUME NEW r \in Rule, NEW s \in {"draft", "active", "superseded"}
  PROVE  /\ [r EXCEPT !.status = s] \in Rule
         /\ [r EXCEPT !.status = s] # NoRule
         /\ [r EXCEPT !.status = s].version = r.version
         /\ [r EXCEPT !.status = s].status = s
         /\ r # NoRule
  BY DEF Rule, NoRule

(* What was in force is superseded, and nothing else changes.              *)
LEMMA OldIsSuperseded ==
  ASSUME GovernanceInv, NEW g \in PolicyIds
  PROVE  /\ OldRuleSuperseded(g) \in [PolicyIds -> Rule \cup {NoRule}]
         /\ \A h \in PolicyIds :
              /\ OldRuleSuperseded(g)[h] = NoRule <=> rules[h] = NoRule
              /\ rules[h] # NoRule => OldRuleSuperseded(g)[h].version = rules[h].version
              /\ h # inForce \/ h = g => OldRuleSuperseded(g)[h] = rules[h]
              /\ h # g => OldRuleSuperseded(g)[h].status # "active"
  <1>1. rules \in [PolicyIds -> Rule \cup {NoRule}] /\ ActiveInForce
    BY DEF GovernanceInv, GovernanceShape
  <1>2. \A h \in PolicyIds : h = inForce => rules[h] \in Rule
    BY <1>1 DEF ActiveInForce, NoRule
  <1>3. ASSUME NEW h \in PolicyIds, h = inForce, h # g
        PROVE  /\ OldRuleSuperseded(g)[h] \in Rule
               /\ OldRuleSuperseded(g)[h] # NoRule
               /\ rules[h] # NoRule
               /\ OldRuleSuperseded(g)[h].version = rules[h].version
               /\ OldRuleSuperseded(g)[h].status = "superseded"
    <2>1. OldRuleSuperseded(g)[h] = [rules[h] EXCEPT !.status = "superseded"]
      BY <1>3 DEF OldRuleSuperseded
    <2>2. rules[h] \in Rule
      BY <1>2, <1>3
    <2> QED
      BY <2>1, <2>2, RuleWithStatus
  <1>4. ASSUME NEW h \in PolicyIds, h # inForce \/ h = g
        PROVE  OldRuleSuperseded(g)[h] = rules[h]
    BY <1>4 DEF OldRuleSuperseded
  <1>5. \A h \in PolicyIds : OldRuleSuperseded(g)[h] \in Rule \cup {NoRule}
    BY <1>1, <1>3, <1>4
  <1>6. OldRuleSuperseded(g) \in [PolicyIds -> Rule \cup {NoRule}]
    BY <1>5 DEF OldRuleSuperseded
  <1>7. \A h \in PolicyIds : h # g => OldRuleSuperseded(g)[h].status # "active"
    BY <1>1, <1>3, <1>4 DEF ActiveInForce
  <1> QED
    BY <1>3, <1>4, <1>6, <1>7

LEMMA Activated ==
  ASSUME GovernanceInv, NEW g \in PolicyIds, ActivatePolicy(g)
  PROVE  GovernanceInv'
  <1> USE DEF ActivatePolicy
  <1>1. GovernanceShape /\ VersionsRise
    BY DEF GovernanceInv
  <1>2. acts \in Nat /\ acts' \in 0 .. MaxActs /\ acts <= acts' /\ acts' \in Nat
    BY <1>1, ActRises
  <1> DEFINE old == OldRuleSuperseded(g)
  <1>3. /\ old \in [PolicyIds -> Rule \cup {NoRule}]
        /\ \A h \in PolicyIds :
              /\ old[h] = NoRule <=> rules[h] = NoRule
              /\ rules[h] # NoRule => old[h].version = rules[h].version
              /\ h # inForce \/ h = g => old[h] = rules[h]
              /\ h # g => old[h].status # "active"
    BY OldIsSuperseded
  <1>4. rules' = [old EXCEPT ![g].status = "active"]
    BY DEF Enacted
  <1> HIDE DEF old
  <1>5. rules[g] \in Rule
    BY <1>1 DEF GovernanceShape, NoRule
  <1>6. old[g] = rules[g]
    BY <1>3
  <1>7. rules'[g] = [rules[g] EXCEPT !.status = "active"]
    BY <1>3, <1>4, <1>6
  <1>8. rules'[g] \in Rule /\ rules'[g] # NoRule /\ rules'[g].version = rules[g].version
        /\ rules'[g].status = "active" /\ rules[g] # NoRule
    <2>1. "active" \in {"draft", "active", "superseded"}
      OBVIOUS
    <2> DEFINE now == [rules[g] EXCEPT !.status = "active"]
    <2>2. /\ now \in Rule
          /\ now # NoRule
          /\ now.version = rules[g].version
          /\ now.status = "active"
          /\ rules[g] # NoRule
      BY <2>1, <1>5, RuleWithStatus
    <2> HIDE DEF now
    <2> QED
      BY <1>7, <2>2 DEF now
  <1>9. \A h \in PolicyIds : h # g => rules'[h] = old[h]
    BY <1>3, <1>4
  <1>10. \A h \in PolicyIds : rules'[h] \in Rule \cup {NoRule}
    BY <1>3, <1>8, <1>9
  <1>10a. rules' = [h \in PolicyIds |-> rules'[h]]
    BY <1>3, <1>4
  <1>11. rules' \in [PolicyIds -> Rule \cup {NoRule}]
    BY <1>10, <1>10a
  <1>12. GovernanceShape'
    BY <1>1, <1>2, <1>11 DEF GovernanceShape
  <1>13. VersionsRise'
    BY <1>2, <1>3, <1>8, <1>9, <1>12, OnlyStatusesChange
  <1>14. ActiveInForce'
    BY <1>3, <1>8, <1>9 DEF ActiveInForce
  <1>15. DecidedByAnother' /\ ResolvedAsDecided' /\ OneDetermination'
    BY DecisionsUntouched DEF GovernanceInv, decisionVars
  <1> QED
    BY <1>12, <1>13, <1>14, <1>15 DEF GovernanceInv

LEMMA HalfActivated ==
  ASSUME GovernanceInv, NEW g \in PolicyIds, ActivateHalf(g)
  PROVE  GovernanceInv'
  <1> USE DEF ActivateHalf
  <1>1. GovernanceShape /\ VersionsRise
    BY DEF GovernanceInv
  <1>2. acts \in Nat /\ acts' \in 0 .. MaxActs /\ acts <= acts' /\ acts' \in Nat
    BY <1>1, ActRises
  <1>3. /\ rules' \in [PolicyIds -> Rule \cup {NoRule}]
        /\ \A h \in PolicyIds :
              /\ rules'[h] = NoRule <=> rules[h] = NoRule
              /\ rules[h] # NoRule => rules'[h].version = rules[h].version
              /\ h # inForce \/ h = g => rules'[h] = rules[h]
              /\ h # g => rules'[h].status # "active"
    BY OldIsSuperseded
  <1>4. GovernanceShape'
    BY <1>1, <1>2, <1>3 DEF GovernanceShape
  <1>5. VersionsRise'
    BY <1>2, <1>3, <1>4, OnlyStatusesChange
  <1>6. ActiveInForce'
    BY <1>3, NothingApart DEF ActiveInForce
  <1>7. DecidedByAnother' /\ ResolvedAsDecided' /\ OneDetermination'
    BY DecisionsUntouched DEF GovernanceInv, decisionVars
  <1> QED
    BY <1>4, <1>5, <1>6, <1>7 DEF GovernanceInv

(* ProposeDecision takes an unused decision id: what stands stays.         *)
LEMMA DecisionProposed ==
  ASSUME GovernanceInv, NEW d \in DecisionIds, NEW kind \in Kinds, NEW x \in Roles,
         NEW s \in DecisionIds \cup {Nothing}, NEW c \in ChallengeOf(kind),
         ProposeDecision(d, kind, x, s, c)
  PROVE  GovernanceInv'
  <1> USE DEF ProposeDecision
  <1> DEFINE new == [status |-> "proposed", kind |-> kind, proposer |-> x,
                     decider |-> Nothing, supersedes |-> s, challenge |-> c]
  <1>1. GovernanceShape /\ VersionsRise /\ ActiveInForce
    BY DEF GovernanceInv
  <1>2. acts \in Nat /\ acts' \in 0 .. MaxActs /\ acts <= acts' /\ acts' \in Nat
    BY <1>1, ActRises
  <1>3. c \in ChallengeIds \cup {Nothing} /\ (kind = "adjudication" => c \in ChallengeIds)
    BY DEF ChallengeOf
  <1>4. new \in GovernanceDecision
    BY <1>3 DEF GovernanceDecision
  <1>5. /\ new.status = "proposed" /\ new.decider = Nothing
        /\ new.kind = kind /\ new.challenge = c
    OBVIOUS
  <1>6. decisions' = [decisions EXCEPT ![d] = new] /\ decisions[d] = NoDecision
    BY DEF Unused
  <1> HIDE DEF new
  <1>7. decisions \in [DecisionIds -> GovernanceDecision \cup {NoDecision}]
    BY <1>1 DEF GovernanceShape
  <1>8. /\ decisions' \in [DecisionIds -> GovernanceDecision \cup {NoDecision}]
        /\ decisions'[d] = new
        /\ \A e \in DecisionIds : e # d => decisions'[e] = decisions[e]
    BY <1>4, <1>6, <1>7
  <1>9. GovernanceShape'
    BY <1>1, <1>2, <1>8 DEF GovernanceShape
  <1>10. VersionsRise' /\ ActiveInForce'
    BY <1>1, <1>2, RulesUntouched DEF ruleVars, GovernanceShape
  <1>11. DecidedByAnother'
    BY <1>3, <1>5, <1>8 DEF GovernanceInv, DecidedByAnother
  <1>12. decisions[d].status = "none"
    BY <1>6 DEF NoDecision
  <1>13. ResolvedAsDecided'
    BY <1>8, <1>12 DEF GovernanceInv, ResolvedAsDecided
  <1>14. Approved' = Approved
    BY <1>5, <1>8, <1>12 DEF Approved
  <1>15. \A e \in Approved : e # d /\ decisions'[e] = decisions[e]
    BY <1>8, <1>12 DEF Approved
  <1>16. Determinations' = Determinations
    BY <1>14, <1>15 DEF Determinations, Superseded
  <1>17. OneDetermination'
    BY <1>16 DEF GovernanceInv, OneDetermination
  <1> QED
    BY <1>9, <1>10, <1>11, <1>13, <1>17 DEF GovernanceInv

(* What Verdict leaves: one decision decided, no other touched.            *)
LEMMA VerdictGiven ==
  ASSUME GovernanceInv, NEW d \in DecisionIds, NEW r \in Roles,
         NEW s \in {"approved", "rejected"},
         MayDecide(d, r), decisions' = Verdict(d, s, r)
  PROVE  /\ decisions' \in [DecisionIds -> GovernanceDecision \cup {NoDecision}]
         /\ \A e \in DecisionIds : e # d => decisions'[e] = decisions[e]
         /\ decisions'[d].status = s /\ decisions'[d].decider = r
         /\ decisions'[d].kind = decisions[d].kind
         /\ decisions'[d].supersedes = decisions[d].supersedes
         /\ decisions'[d].challenge = decisions[d].challenge
         /\ decisions[d] \in GovernanceDecision
         /\ decisions[d] # NoDecision
         /\ decisions[d].status = "proposed"
         /\ DecidedByAnother'
  <1>1. decisions \in [DecisionIds -> GovernanceDecision \cup {NoDecision}]
    BY DEF GovernanceInv, GovernanceShape
  <1>2. decisions[d].status = "proposed" /\ HolderOf[decisions[d].proposer] # HolderOf[r]
    BY DEF MayDecide, TwoActors
  <1>3. decisions[d] # NoDecision /\ decisions[d] \in GovernanceDecision
    BY <1>1, <1>2 DEF NoDecision
  <1> DEFINE now == [decisions[d] EXCEPT !.status = s, !.decider = r]
  <1>4. now \in GovernanceDecision
    BY <1>3 DEF GovernanceDecision
  <1>5. /\ now.status = s /\ now.decider = r /\ now.kind = decisions[d].kind
        /\ now.supersedes = decisions[d].supersedes
        /\ now.challenge = decisions[d].challenge
        /\ now.proposer = decisions[d].proposer
    BY <1>3 DEF GovernanceDecision
  <1>6. decisions' = [decisions EXCEPT ![d] = now]
    BY <1>1 DEF Verdict
  <1> HIDE DEF now
  <1>7. /\ decisions' \in [DecisionIds -> GovernanceDecision \cup {NoDecision}]
        /\ decisions'[d] = now
        /\ \A e \in DecisionIds : e # d => decisions'[e] = decisions[e]
    BY <1>1, <1>4, <1>6
  <1>8. DecidedByAnother'
    <2> SUFFICES ASSUME NEW e \in DecisionIds, decisions'[e] # NoDecision
                 PROVE  /\ decisions'[e].decider # Nothing =>
                             HolderOf[decisions'[e].decider] # HolderOf[decisions'[e].proposer]
                        /\ decisions'[e].kind = "adjudication" =>
                             decisions'[e].challenge \in ChallengeIds
      BY DEF DecidedByAnother
    <2>1. CASE e = d
      BY <2>1, <1>2, <1>3, <1>5, <1>7 DEF GovernanceInv, DecidedByAnother
    <2>2. CASE e # d
      BY <2>2, <1>7 DEF GovernanceInv, DecidedByAnother
    <2> QED
      BY <2>1, <2>2
  <1> QED
    BY <1>2, <1>3, <1>5, <1>7, <1>8

(* The linked challenge is resolved by this decision, the way it went.     *)
LEMMA ChallengeAdjudicated ==
  ASSUME GovernanceInv, NEW d \in DecisionIds, NEW r \in Roles,
         NEW s \in {"approved", "rejected"}, NEW o \in {"upheld", "rejected"},
         o = IF s = "approved" THEN "upheld" ELSE "rejected",
         MayDecide(d, r), decisions' = Verdict(d, s, r),
         challenges' = Adjudicated(d, o)
  PROVE  /\ challenges' \in [ChallengeIds -> Challenge \cup {NoChallenge}]
         /\ ResolvedAsDecided'
  <1>1. /\ \A e \in DecisionIds : e # d => decisions'[e] = decisions[e]
        /\ decisions'[d].status = s
        /\ decisions'[d].challenge = decisions[d].challenge
        /\ decisions[d].status = "proposed"
        /\ decisions[d] # NoDecision
    BY VerdictGiven
  <1>2. challenges \in [ChallengeIds -> Challenge \cup {NoChallenge}]
    BY DEF GovernanceInv, GovernanceShape
  <1>3. \A c \in ChallengeIds : challenges[c].status \in {"upheld", "rejected"} =>
              challenges[c].by \in DecisionIds /\ challenges[c].by # d
    BY <1>1 DEF GovernanceInv, ResolvedAsDecided
  <1> DEFINE c == decisions[d].challenge
             new == [status |-> o, by |-> d]
  <1>4. new \in Challenge /\ new.status = o /\ new.by = d
    BY DEF Challenge
  <1>5. CASE decisions[d].kind = "adjudication" /\ challenges[c].status = "under_review"
    <2>1. c \in ChallengeIds
      BY <1>1, <1>5 DEF GovernanceInv, DecidedByAnother
    <2>2. challenges' = [challenges EXCEPT ![c] = new]
      BY <1>5 DEF Adjudicated
    <2>3. decisions'[d].challenge = c
      BY <1>1
    <2> HIDE DEF c, new
    <2>4. /\ challenges' \in [ChallengeIds -> Challenge \cup {NoChallenge}]
          /\ challenges'[c] = new
          /\ \A b \in ChallengeIds : b # c => challenges'[b] = challenges[b]
      BY <1>2, <1>4, <2>1, <2>2
    <2>5. ResolvedAsDecided'
      <3> SUFFICES ASSUME NEW b \in ChallengeIds, challenges'[b].status \in {"upheld", "rejected"}
                   PROVE  /\ challenges'[b].by \in DecisionIds
                          /\ decisions'[challenges'[b].by].challenge = b
                          /\ decisions'[challenges'[b].by].status =
                                IF challenges'[b].status = "upheld" THEN "approved" ELSE "rejected"
        BY DEF ResolvedAsDecided
      <3>1. CASE b = c
        BY <3>1, <1>1, <1>4, <2>3, <2>4
      <3>2. CASE b # c
        BY <3>2, <1>1, <1>3, <2>4 DEF GovernanceInv, ResolvedAsDecided
      <3> QED
        BY <3>1, <3>2
    <2> QED
      BY <2>4, <2>5
  <1>6. CASE ~(decisions[d].kind = "adjudication" /\ challenges[c].status = "under_review")
    <2>1. challenges' = challenges
      BY <1>6 DEF Adjudicated
    <2>2. ResolvedAsDecided'
      BY <2>1, <1>1, <1>3 DEF GovernanceInv, ResolvedAsDecided
    <2> QED
      BY <2>1, <2>2, <1>2
  <1> QED
    BY <1>5, <1>6

(* An approval of finality leaves its own determination alone standing,    *)
(* since the only one there could be is the one it supersedes; of another  *)
(* kind it can only end one.                                               *)
LEMMA ApprovalDetermines ==
  ASSUME GovernanceInv, NEW d \in DecisionIds, NEW r \in Roles,
         MayDecide(d, r), MayDetermine(d), decisions' = Verdict(d, "approved", r)
  PROVE  OneDetermination'
  <1>1. /\ \A e \in DecisionIds : e # d => decisions'[e] = decisions[e]
        /\ decisions'[d].status = "approved"
        /\ decisions'[d].kind = decisions[d].kind
        /\ decisions'[d].supersedes = decisions[d].supersedes
        /\ decisions[d].status = "proposed"
    <2>1. "approved" \in {"approved", "rejected"}
      OBVIOUS
    <2> QED
      BY <2>1, VerdictGiven
  <1>2. Approved' = Approved \cup {d} /\ d \notin Approved
    BY <1>1 DEF Approved
  <1>3. \A e \in Approved : e # d /\ decisions'[e] = decisions[e]
    BY <1>1 DEF Approved
  <1>4. Determinations' \subseteq Determinations \cup {d}
    BY <1>2, <1>3 DEF Determinations, Superseded, Approved
  <1>5. CASE decisions[d].kind = "finality"
    <2>1. Determinations \subseteq {decisions[d].supersedes}
      BY <1>5 DEF MayDetermine
    <2>2. Superseded(decisions[d].supersedes)'
      BY <1>1, <1>2 DEF Superseded
    <2>3. \A e \in Determinations : e \notin Determinations'
      <3> TAKE e \in Determinations
      <3>1. e = decisions[d].supersedes /\ e # d
        BY <2>1, <1>2 DEF Determinations
      <3>2. \E f \in Approved' : decisions'[f].supersedes = e
        BY <3>1, <1>1, <1>2
      <3> QED
        BY <3>2 DEF Determinations, Superseded
    <2> QED
      BY <1>4, <2>3 DEF OneDetermination
  <1>6. CASE decisions[d].kind # "finality"
    <2>1. d \notin Determinations'
      BY <1>1, <1>6 DEF Determinations
    <2> QED
      BY <1>4, <2>1 DEF OneDetermination, GovernanceInv
  <1> QED
    BY <1>5, <1>6

LEMMA DecisionApproved ==
  ASSUME GovernanceInv, NEW d \in DecisionIds, NEW r \in Roles, ApproveDecision(d, r)
  PROVE  GovernanceInv'
  <1> USE DEF ApproveDecision
  <1>1. GovernanceShape /\ VersionsRise /\ ActiveInForce
    BY DEF GovernanceInv
  <1>2. acts \in Nat /\ acts' \in 0 .. MaxActs /\ acts <= acts' /\ acts' \in Nat
    BY <1>1, ActRises
  <1>3. "approved" \in {"approved", "rejected"} /\ "upheld" \in {"upheld", "rejected"}
    OBVIOUS
  <1>4. /\ decisions' \in [DecisionIds -> GovernanceDecision \cup {NoDecision}]
        /\ DecidedByAnother'
    BY <1>3, VerdictGiven
  <1>5. /\ challenges' \in [ChallengeIds -> Challenge \cup {NoChallenge}]
        /\ ResolvedAsDecided'
    BY <1>3, ChallengeAdjudicated
  <1>6. OneDetermination'
    BY ApprovalDetermines
  <1>7. GovernanceShape'
    BY <1>1, <1>2, <1>4, <1>5 DEF GovernanceShape
  <1>8. VersionsRise' /\ ActiveInForce'
    BY <1>1, <1>2, RulesUntouched DEF ruleVars, GovernanceShape
  <1> QED
    BY <1>4, <1>5, <1>6, <1>7, <1>8 DEF GovernanceInv

LEMMA DecisionRejected ==
  ASSUME GovernanceInv, NEW d \in DecisionIds, NEW r \in Roles, RejectDecision(d, r)
  PROVE  GovernanceInv'
  <1> USE DEF RejectDecision
  <1>1. GovernanceShape /\ VersionsRise /\ ActiveInForce
    BY DEF GovernanceInv
  <1>2. acts \in Nat /\ acts' \in 0 .. MaxActs /\ acts <= acts' /\ acts' \in Nat
    BY <1>1, ActRises
  <1>3. "rejected" \in {"approved", "rejected"} /\ "rejected" \in {"upheld", "rejected"}
    OBVIOUS
  <1>4. /\ decisions' \in [DecisionIds -> GovernanceDecision \cup {NoDecision}]
        /\ \A e \in DecisionIds : e # d => decisions'[e] = decisions[e]
        /\ decisions'[d].status = "rejected"
        /\ decisions[d].status = "proposed"
        /\ DecidedByAnother'
    BY <1>3, VerdictGiven
  <1>5. /\ challenges' \in [ChallengeIds -> Challenge \cup {NoChallenge}]
        /\ ResolvedAsDecided'
    BY <1>3, ChallengeAdjudicated
  <1>6. Approved' = Approved /\ d \notin Approved
    BY <1>4 DEF Approved
  <1>7. \A e \in Approved : decisions'[e] = decisions[e]
    BY <1>4, <1>6 DEF Approved
  <1>8. Determinations' = Determinations
    BY <1>6, <1>7 DEF Determinations, Superseded
  <1>9. OneDetermination'
    BY <1>8 DEF OneDetermination, GovernanceInv
  <1>10. GovernanceShape'
    BY <1>1, <1>2, <1>4, <1>5 DEF GovernanceShape
  <1>11. VersionsRise' /\ ActiveInForce'
    BY <1>1, <1>2, RulesUntouched DEF ruleVars, GovernanceShape
  <1> QED
    BY <1>4, <1>5, <1>9, <1>10, <1>11 DEF GovernanceInv

(* A challenge that is submitted, or taken under review, resolves nothing. *)
LEMMA ChallengeMoves ==
  ASSUME GovernanceInv, NEW c \in ChallengeIds, SubmitChallenge(c) \/ BeginReview(c)
  PROVE  GovernanceInv'
  <1>1. GovernanceShape /\ VersionsRise /\ ActiveInForce
    BY DEF GovernanceInv
  <1>2. Act /\ UNCHANGED <<tenure, rules, inForce, decisions, windowOpen>>
    BY DEF SubmitChallenge, BeginReview
  <1>3. acts \in Nat /\ acts' \in 0 .. MaxActs /\ acts <= acts' /\ acts' \in Nat
    BY <1>1, <1>2, ActRises
  <1>4. challenges \in [ChallengeIds -> Challenge \cup {NoChallenge}]
    BY <1>1 DEF GovernanceShape
  <1>5. /\ challenges' \in [ChallengeIds -> Challenge \cup {NoChallenge}]
        /\ challenges'[c].status \in {"submitted", "under_review"}
        /\ \A b \in ChallengeIds : b # c => challenges'[b] = challenges[b]
    <2>1. CASE SubmitChallenge(c)
      <3> DEFINE new == [status |-> "submitted", by |-> Nothing]
      <3>1. new \in Challenge /\ new.status = "submitted"
        BY DEF Challenge
      <3>2. challenges' = [challenges EXCEPT ![c] = new]
        BY <2>1 DEF SubmitChallenge
      <3> HIDE DEF new
      <3> QED
        BY <3>1, <3>2, <1>4
    <2>2. CASE BeginReview(c)
      <3> DEFINE new == [challenges[c] EXCEPT !.status = "under_review"]
      <3>1. challenges[c] \in Challenge
        BY <2>2, <1>4 DEF BeginReview, NoChallenge
      <3>2. new \in Challenge /\ new.status = "under_review"
        BY <3>1 DEF Challenge
      <3>3. challenges' = [challenges EXCEPT ![c] = new]
        BY <2>2 DEF BeginReview
      <3> HIDE DEF new
      <3> QED
        BY <3>2, <3>3, <1>4
    <2> QED
      BY <2>1, <2>2
  <1>6. GovernanceShape'
    BY <1>1, <1>2, <1>3, <1>5 DEF GovernanceShape
  <1>7. VersionsRise' /\ ActiveInForce'
    BY <1>1, <1>2, <1>3, RulesUntouched DEF ruleVars, GovernanceShape
  <1>8. ResolvedAsDecided'
    BY <1>2, <1>5 DEF GovernanceInv, ResolvedAsDecided
  <1>9. DecidedByAnother'
    BY <1>2 DEF GovernanceInv, DecidedByAnother
  <1>10. Determinations' = Determinations
    BY <1>2 DEF Determinations, Approved, Superseded
  <1>11. OneDetermination'
    BY <1>10 DEF OneDetermination, GovernanceInv
  <1> QED
    BY <1>6, <1>7, <1>8, <1>9, <1>11 DEF GovernanceInv

(* Role assignments and the passing of the deadline touch no rule and no   *)
(* decision.                                                               *)
LEMMA TenuresMove ==
  ASSUME GovernanceInv, UNCHANGED ruleVars, UNCHANGED decisionVars,
         tenure' \in [Roles -> {"none", "pending", "active", "revoked"}],
         windowOpen' \in BOOLEAN, acts' = acts \/ Act
  PROVE  GovernanceInv'
  <1>1. GovernanceShape /\ VersionsRise /\ ActiveInForce
    BY DEF GovernanceInv
  <1>2. acts \in Nat /\ acts' \in 0 .. MaxActs /\ acts <= acts' /\ acts' \in Nat
    <2>1. CASE acts' = acts
      BY <2>1, <1>1 DEF GovernanceShape
    <2>2. CASE Act
      BY <2>2, <1>1, ActRises
    <2> QED
      BY <2>1, <2>2
  <1>3. VersionsRise' /\ ActiveInForce'
    BY <1>1, <1>2, RulesUntouched DEF GovernanceShape
  <1>4. DecidedByAnother' /\ ResolvedAsDecided' /\ OneDetermination'
    BY DecisionsUntouched DEF GovernanceInv
  <1>5. rules' = rules /\ inForce' = inForce /\ decisions' = decisions /\ challenges' = challenges
    BY DEF ruleVars, decisionVars
  <1>6. GovernanceShape'
    BY <1>1, <1>2, <1>5 DEF GovernanceShape
  <1> QED
    BY <1>3, <1>4, <1>6 DEF GovernanceInv

LEMMA GovernanceStep == GovernanceInv /\ [GovernanceNext]_governanceVars => GovernanceInv'
  <1> SUFFICES ASSUME GovernanceInv, [GovernanceNext]_governanceVars
               PROVE  GovernanceInv'
    OBVIOUS
  <1>t. tenure \in [Roles -> {"none", "pending", "active", "revoked"}] /\ windowOpen \in BOOLEAN
    BY DEF GovernanceInv, GovernanceShape
  <1>1. ASSUME NEW r \in Roles, ActivateRole(r) \/ RevokeRole(r)
                                \/ \E granter \in Roles : RequestRole(r, granter)
        PROVE  GovernanceInv'
    <2>1. /\ UNCHANGED ruleVars /\ UNCHANGED decisionVars /\ Act
          /\ windowOpen' = windowOpen
      BY <1>1 DEF ActivateRole, RevokeRole, RequestRole, ruleVars, decisionVars
    <2>2. tenure' \in [Roles -> {"none", "pending", "active", "revoked"}]
      BY <1>1, <1>t DEF ActivateRole, RevokeRole, RequestRole
    <2> QED
      BY <2>1, <2>2, <1>t, TenuresMove
  <1>2. ASSUME NEW g \in PolicyIds, ActivatePolicy(g) PROVE GovernanceInv'
    BY <1>2, Activated
  <1>3. ASSUME NEW g \in PolicyIds, ActivateHalf(g) PROVE GovernanceInv'
    BY <1>3, HalfActivated
  <1>4. ASSUME NEW g \in PolicyIds, NEW x \in Roles, NEW y \in Roles, ProposePolicy(g, x, y)
        PROVE  GovernanceInv'
    BY <1>4, Proposed
  <1>5. ASSUME NEW d \in DecisionIds, NEW r \in Roles, ApproveDecision(d, r) PROVE GovernanceInv'
    BY <1>5, DecisionApproved
  <1>6. ASSUME NEW d \in DecisionIds, NEW r \in Roles, RejectDecision(d, r) PROVE GovernanceInv'
    BY <1>6, DecisionRejected
  <1>7. ASSUME NEW d \in DecisionIds, NEW r \in Roles, NEW kind \in Kinds,
               NEW s \in {e \in DecisionIds : e < d} \cup {Nothing},
               NEW c \in ChallengeOf(kind), ProposeDecision(d, kind, r, s, c)
        PROVE  GovernanceInv'
    <2>1. s \in DecisionIds \cup {Nothing}
      OBVIOUS
    <2> QED
      BY <2>1, <1>7, DecisionProposed
  <1>8. ASSUME NEW c \in ChallengeIds, SubmitChallenge(c) \/ BeginReview(c) PROVE GovernanceInv'
    BY <1>8, ChallengeMoves
  <1>9. CASE DeadlinePasses
    <2>1. UNCHANGED ruleVars /\ UNCHANGED decisionVars /\ acts' = acts /\ tenure' = tenure
          /\ windowOpen' \in BOOLEAN
      BY <1>9 DEF DeadlinePasses, ruleVars, decisionVars
    <2> QED
      BY <2>1, <1>t, TenuresMove
  <1>10. CASE UNCHANGED governanceVars
    <2>1. UNCHANGED ruleVars /\ UNCHANGED decisionVars /\ acts' = acts /\ tenure' = tenure
          /\ windowOpen' = windowOpen
      BY <1>10 DEF governanceVars, ruleVars, decisionVars
    <2> QED
      BY <2>1, <1>t, TenuresMove
  <1> QED
    BY <1>1, <1>2, <1>3, <1>4, <1>5, <1>6, <1>7, <1>8, <1>9, <1>10 DEF GovernanceNext

LEMMA GovernanceInvHolds == GovernanceSpec => []GovernanceInv
  BY GovernanceStart, GovernanceStep, PTL DEF GovernanceSpec

(* In every history of the governance service the stores have their types, *)
(* a decision is decided by another actor than proposed it, and a resolved *)
(* challenge names the decision, which went the way the challenge did.     *)
THEOREM GovernanceTypeCorrect == GovernanceSpec => []GovernanceTypeOK
  <1>1. GovernanceInv => GovernanceTypeOK
    BY DEF GovernanceInv, GovernanceShape, GovernanceTypeOK, DecidedByAnother, ResolvedAsDecided
  <1> QED
    BY <1>1, GovernanceInvHolds, PTL

(* However commands and refused activations interleave, the policy the     *)
(* store answers with is the one active policy, no two policies share a    *)
(* version, and one determination of finality at most stands.              *)
THEOREM OnePolicyInForce == GovernanceSpec => []OneInForce
  <1>1. GovernanceInv => OneInForce
    BY DEF GovernanceInv, VersionsRise, ActiveInForce, OneDetermination, OneInForce
  <1> QED
    BY <1>1, GovernanceInvHolds, PTL
=============================================================================
