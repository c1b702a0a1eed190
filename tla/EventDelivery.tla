----------------------------- MODULE EventDelivery -----------------------------
(* The data plane for one aggregate: commands move its version and write   *)
(* an event to the outbox in one unit of work, a dispatcher publishes the  *)
(* events, and a consumer applies them.  The broker delivers what was      *)
(* published at any later time, in any order and as often as it likes.     *)
(* Everything lives in the memory of one process.  Translated from         *)
(* services/data-plane-service/src/epd2_data_plane_service/.               *)
EXTENDS Naturals, Sequences, FiniteSets

CONSTANTS
    CommandKeys,    \* idempotency keys, one request each
    RecordIds,      \* outbox record ids, chosen by the callers
    MaxVersions,    \* bound: versions of the aggregate
    MaxAttempts,    \* RetryPolicy.max_attempts
    MaxRewinds      \* bound: authorized rewinds of the checkpoint

ASSUME EventDeliveryAssumption ==
    /\ MaxVersions \in Nat /\ MaxRewinds \in Nat
    /\ MaxAttempts \in Nat \ {0}

VARIABLES
    version,      \* the aggregate's version in InMemoryAggregateVersionStore
    outbox,       \* InMemoryOutboxStore._records: record id to record
    remembered,   \* keys in InMemoryIdempotencyStore
    leapDay,      \* whether today is the 29th of February
    applied,      \* the consumer's applied events, by sequence number
    position,     \* the consumer's checkpoint
    rewinds       \* rewinds done

deliveryVars == <<version, outbox, remembered, leapDay, applied, position, rewinds>>

DeliveryInit ==
    /\ version = 0
    /\ outbox = <<>>
    /\ remembered = {}
    /\ leapDay = FALSE
    /\ applied = <<>>
    /\ position = 0
    /\ rewinds = 0

(* Mutant of PendingRecord: its sequence is read once the version has moved.*)
PendingRecordAhead(k) ==
    [sequence |-> version + 2, key |-> k, status |-> "pending", attempts |-> 0,
     evidence |-> "none"]

(* A record as OutboxWriter.write_within creates it, for the command under *)
(* key k.                                                                  *)
PendingRecord(k) ==
    [sequence |-> version + 1, key |-> k, status |-> "pending", attempts |-> 0,
     evidence |-> "none"]

(* execute, of a command whose expected version is the current one; a      *)
(* remembered key answers the first result, and every other version is     *)
(* refused, before anything is written.  The record of the key expires a   *)
(* year later, at now.replace(year=now.year + 1), which raises on the 29th *)
(* of February: the unit of work is committed and the key is not           *)
(* remembered.                                                             *)
Execute(k, id) ==
    /\ version < MaxVersions
    /\ k \notin remembered
    /\ id \notin DOMAIN outbox
    /\ version' = version + 1
    /\ outbox' = [i \in DOMAIN outbox \cup {id} |->
                     IF i = id THEN PendingRecord(k) ELSE outbox[i]]
    /\ remembered' = IF leapDay THEN remembered ELSE remembered \cup {k}
    /\ UNCHANGED <<leapDay, applied, position, rewinds>>

(* The same with a record id that is taken: commit has moved the version   *)
(* when the outbox refuses to append.                                      *)
ExecuteRefusedByOutbox(k, id) ==
    /\ version < MaxVersions
    /\ k \notin remembered
    /\ id \in DOMAIN outbox
    /\ version' = version + 1
    /\ UNCHANGED <<outbox, remembered, leapDay, applied, position, rewinds>>

(* A successful publication: the attempt, its evidence, and the broker's   *)
(* acknowledgement when there is one.                                      *)
Published(record, acknowledged) ==
    [record EXCEPT !.attempts = @ + 1,
                   !.evidence = IF acknowledged THEN "acknowledged" ELSE "published",
                   !.status = IF acknowledged THEN "acknowledged" ELSE "published"]

(* dispatch_pending, one record at a time and in sequence: an unavailable  *)
(* or unreachable broker leaves the record and those after it as they are. *)
Pending == {id \in DOMAIN outbox : outbox[id].status = "pending"}

DispatchPending(id, acknowledged) ==
    /\ id \in Pending
    /\ \A other \in Pending : outbox[id].sequence <= outbox[other].sequence
    /\ outbox' = [outbox EXCEPT ![id] = Published(@, acknowledged)]
    /\ UNCHANGED <<version, remembered, leapDay, applied, position, rewinds>>

(* ReferenceDispatcher.dispatch on a dead letter that has attempts left.   *)
Redispatch(id, acknowledged) ==
    /\ outbox[id].status = "dead_lettered"
    /\ outbox[id].attempts < MaxAttempts
    /\ outbox' = [outbox EXCEPT ![id] = Published(@, acknowledged)]
    /\ UNCHANGED <<version, remembered, leapDay, applied, position, rewinds>>

(* dispatch, told of a deterministic failure or with the attempts used up; *)
(* no declared transition leaves acknowledged.                             *)
DeadLetter(id) ==
    /\ outbox[id].status \in {"pending", "published"}
    /\ outbox' = [outbox EXCEPT ![id].status = "dead_lettered"]
    /\ UNCHANGED <<version, remembered, leapDay, applied, position, rewinds>>

(* Mutant of SeenEvents: the consumer remembers the last event only.       *)
LastSeenEvent == IF applied = <<>> THEN {} ELSE {applied[Len(applied)]}

(* ReferenceConsumer._seen, filled together with the applied events.       *)
SeenEvents == {applied[i] : i \in DOMAIN applied}

(* Mutant of InOrder: only late arrivals are refused.                      *)
NotLate(sequence) == sequence > position

(* assess_ordering.                                                        *)
InOrder(sequence) == sequence = position + 1

(* ReferenceConsumer.consume of a delivered record.  An event seen before  *)
(* is absorbed, a gap or a late arrival is refused: neither changes        *)
(* anything.                                                               *)
Consume(id) ==
    LET sequence == outbox[id].sequence IN
    /\ outbox[id].evidence # "none"
    /\ sequence \notin SeenEvents
    /\ InOrder(sequence)
    /\ applied' = Append(applied, sequence)
    /\ position' = sequence
    /\ UNCHANGED <<version, outbox, remembered, leapDay, rewinds>>

(* rewind_to, under its own grant.                                         *)
Rewind(p) ==
    /\ rewinds < MaxRewinds
    /\ p < position
    /\ position' = p
    /\ rewinds' = rewinds + 1
    /\ UNCHANGED <<version, outbox, remembered, leapDay, applied>>

(* The calendar, within the year in which no key expires.                  *)
NextDay ==
    /\ leapDay' = ~leapDay
    /\ UNCHANGED <<version, outbox, remembered, applied, position, rewinds>>

DeliveryNext ==
    \/ \E k \in CommandKeys, id \in RecordIds :
          Execute(k, id) \/ ExecuteRefusedByOutbox(k, id)
    \/ \E id \in DOMAIN outbox :
          \/ \E acknowledged \in BOOLEAN :
                DispatchPending(id, acknowledged) \/ Redispatch(id, acknowledged)
          \/ DeadLetter(id)
          \/ Consume(id)
    \/ \E p \in 0..MaxVersions : Rewind(p)
    \/ NextDay

DeliverySpec == DeliveryInit /\ [][DeliveryNext]_deliveryVars

-----------------------------------------------------------------------------
(* The type of the state.                                                  *)
DeliveryTypeOK ==
    /\ version \in 0..MaxVersions
    /\ DOMAIN outbox \subseteq RecordIds
    /\ \A id \in DOMAIN outbox :
          outbox[id] \in [sequence : 1..version, key : CommandKeys,
                          status : {"pending", "published", "acknowledged", "dead_lettered"},
                          attempts : 0..MaxAttempts,
                          evidence : {"none", "published", "acknowledged"}]
    /\ remembered \subseteq CommandKeys
    /\ leapDay \in BOOLEAN
    /\ applied \in Seq(1..version)
    /\ position \in 0..version
    /\ rewinds \in 0..MaxRewinds

(* EventDelivery seen as a log: the outbox is the log, and a record with   *)
(* evidence of a publication may have been told.                           *)
Entry(id) == [version |-> outbox[id].sequence, key |-> outbox[id].key]

Log == INSTANCE AggregateLog WITH
           log <- {Entry(id) : id \in DOMAIN outbox},
           told <- {Entry(id) : id \in {i \in DOMAIN outbox : outbox[i].evidence # "none"}},
           answered <- remembered

(* Commands, lost acknowledgements, repeated dispatches, dead letters,     *)
(* rewinds and a broker that repeats and reorders look like AggregateLog:  *)
(* each version has its one event or none from the step that made it, and  *)
(* the consumer applies told events in the order of the versions, each     *)
(* once (ReferenceUnitOfWork.commit, ReferenceConsumer.consume).            *)
DeliversItsLog == Log!LogSpec

(* At-least-once delivery, effectively-once effect, in the order of the    *)
(* versions: whatever the broker repeats or reorders, whatever is          *)
(* dispatched again or dead-lettered, and wherever the checkpoint was      *)
(* rewound to, the consumer has applied the events 1, 2, ..., n, each      *)
(* once (ReferenceConsumer.consume, ConsumerCheckpoint).                   *)
EffectsFollowTheVersions == \A i \in DOMAIN applied : applied[i] = i
=============================================================================
