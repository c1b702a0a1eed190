---------------------------- MODULE Publication ----------------------------
(***************************************************************************)
(* How an election is closed: sealing a batch (publication/sealing.py),    *)
(* publishing it on the bulletin board (publication/bulletin_board.py) and *)
(* building the reconciled record (election_record/builder.py), in the     *)
(* order of close_and_build (testing/scenarios.py).                        *)
(*                                                                         *)
(* One operator runs the closing procedure while submissions and sweeps go *)
(* on: none of its steps takes the store's lock, and nothing it does stops *)
(* a submission.  What seal_batch reads may belong to a transaction that   *)
(* is still in flight.                                                     *)
(***************************************************************************)
EXTENDS Casting

CONSTANTS
    ClosedBatch,    \* runtime.batch_sequence, the batch that is sealed
    BatchCapacity,  \* runtime.batch_capacity
    MaxValid        \* CapacityPlan.max_valid_continuations

ASSUME PublicationAssumption ==
    /\ ClosedBatch \in Batches
    /\ BatchCapacity \in Nat
    /\ MaxValid \in Nat

VARIABLES
    step,           \* the step of the closing procedure that comes next
    lists,          \* its arguments: the ballots to be accepted and spoiled
    window,         \* leaf -> the reference of its committed reservation
    class,          \* the class seal_batch has given the leaf it is at
    openings,       \* leaf -> its LeafOpening, for the leaves sealed so far
    entries,        \* BulletinBoard.entries
    checkpoints,    \* BulletinBoard.checkpoints
    closed,         \* BulletinBoard.closed
    tallied,        \* the ballots whose ciphertexts were accumulated
    reconciled      \* whether the ReconciliationRecord exists

boardVars == <<entries, checkpoints, closed>>
closingVars == <<step, lists, window, class, openings, boardVars, tallied, reconciled>>

SealedLeaves == 0 .. (BatchCapacity - 1)

Classes == {"cast", "challenge", "cover"}
Cover == [class |-> "cover", ref |-> None, digest |-> None]
LeafOpening ==
    [class : {"cast", "challenge"}, ref : BallotIds, digest : Envelopes] \cup {Cover}

NoBallot == [b \in BallotIds |-> None]
NoOpening == [l \in SealedLeaves |-> None]

EntryTypes == {"manifest", "parameters", "commitment", "closed", "opening"}
PreClosure == {"manifest", "parameters", "commitment"}

Steps == {"gather", "read", "seal", "manifest", "parameters", "checkpoint1",
          "commitment", "checkpoint2", "close", "opening", "checkpoint3",
          "tally", "reconcile", "done", "refused"}

(* Mutant of Following: the opening is published, no checkpoint covers it. *)
FollowingUncheckpointed ==
    [manifest |-> "parameters", parameters |-> "checkpoint1",
     checkpoint1 |-> "commitment", commitment |-> "checkpoint2",
     checkpoint2 |-> "close", close |-> "opening", opening |-> "tally",
     checkpoint3 |-> "tally", tally |-> "reconcile", reconcile |-> "done"]

(* The order of close_and_build once the batch is sealed.                  *)
Following ==
    [manifest |-> "parameters", parameters |-> "checkpoint1",
     checkpoint1 |-> "commitment", commitment |-> "checkpoint2",
     checkpoint2 |-> "close", close |-> "opening", opening |-> "checkpoint3",
     checkpoint3 |-> "tally", tally |-> "reconcile", reconcile |-> "done"]

ClosingInit ==
    /\ step = "gather"
    /\ lists = [accepted |-> NoBallot, spoiled |-> NoBallot]
    /\ window = NoOpening
    /\ class = None
    /\ openings = NoOpening
    /\ entries = <<>> /\ checkpoints = <<>> /\ closed = FALSE
    /\ tallied = {} /\ reconciled = FALSE

PublicationInit == Init /\ ClosingInit
-----------------------------------------------------------------------------
(* seal_batch *)

(* The caller passes the ballots whose submissions have returned, each     *)
(* once.                                                                   *)
Gather ==
    /\ step = "gather"
    /\ step' = "read"
    /\ lists' = [accepted |-> (IF phase = "idle" THEN accepted ELSE snapshot.accepted),
                 spoiled  |-> (IF phase = "idle" THEN spoiled ELSE snapshot.spoiled)]
    /\ UNCHANGED <<window, class, openings, boardVars, tallied, reconciled>>

(* The reservations of the batch that are committed, in the live store.    *)
ReservedLeaves ==
    {k \in Scopes : reservations[k] # None /\ reservations[k].committed
                    /\ reservations[k].batch = ClosedBatch}

(* Mutant of Window: a reservation is dropped without a word.              *)
WindowQuietlyShort ==
    [l \in SealedLeaves |->
        IF l # 0 /\ \E k \in ReservedLeaves : reservations[k].leaf = l
        THEN reservations[CHOOSE k \in ReservedLeaves : reservations[k].leaf = l].ref
        ELSE None]

Window ==
    [l \in SealedLeaves |->
        IF \E k \in ReservedLeaves : reservations[k].leaf = l
        THEN reservations[CHOOSE k \in ReservedLeaves : reservations[k].leaf = l].ref
        ELSE None]

Overflow == \E k \in ReservedLeaves : reservations[k].leaf \notin SealedLeaves

ReadReservations ==
    /\ step = "read"
    /\ IF Overflow
       THEN step' = "refused" /\ UNCHANGED window
       ELSE step' = "seal" /\ window' = Window
    /\ UNCHANGED <<lists, class, openings, boardVars, tallied, reconciled>>

Unsealed == {l \in SealedLeaves : openings[l] = None}
Next1 == CHOOSE l \in Unsealed : \A m \in Unsealed : l <= m

SealCover ==
    /\ step = "seal" /\ Unsealed # {}
    /\ window[Next1] = None
    /\ openings' = [openings EXCEPT ![Next1] = Cover]
    /\ UNCHANGED <<step, lists, window, class, boardVars, tallied, reconciled>>

(* `if reference in store.accepted_ballots`, without the lock ...          *)
Classify ==
    /\ step = "seal" /\ Unsealed # {}
    /\ window[Next1] # None /\ class = None
    /\ class' = IF accepted[window[Next1]] # None THEN "cast" ELSE "challenge"
    /\ UNCHANGED <<step, lists, window, openings, boardVars, tallied, reconciled>>

(* ... and the look-up that follows, which raises KeyError if the artefact *)
(* has been rolled back in between.                                        *)
SealLeaf ==
    LET ref == window[Next1]
        digest == IF class = "cast" THEN accepted[ref] ELSE spoiled[ref]
    IN  /\ step = "seal" /\ Unsealed # {}
        /\ class # None
        /\ class' = None
        /\ IF digest = None
           THEN step' = "refused" /\ UNCHANGED openings
           ELSE /\ openings' = [openings EXCEPT ![Next1] =
                      [class |-> class, ref |-> ref, digest |-> digest]]
                /\ UNCHANGED step
        /\ UNCHANGED <<lists, window, boardVars, tallied, reconciled>>

Sealed ==
    /\ step = "seal" /\ Unsealed = {}
    /\ step' = "manifest"
    /\ UNCHANGED <<lists, window, class, openings, boardVars, tallied, reconciled>>
-----------------------------------------------------------------------------
(* The board *)

(* A commitment and an opening are as good as the leaves they hash.        *)
Entry(type) ==
    [type |-> type, leaves |-> IF type \in {"commitment", "opening"} THEN openings ELSE None]

(* BulletinBoard.append, refusing what may not precede closure.            *)
Publish(type) ==
    /\ step = type
    /\ IF closed \/ type \in PreClosure
       THEN entries' = Append(entries, Entry(type)) /\ step' = Following[step]
       ELSE step' = "refused" /\ UNCHANGED entries
    /\ UNCHANGED <<lists, window, class, openings, checkpoints, closed, tallied, reconciled>>

(* Mutant of PublishCheckpoint: the size it signs is one too large.        *)
PublishCheckpointTooLarge ==
    /\ step \in {"checkpoint1", "checkpoint2", "checkpoint3"}
    /\ checkpoints' = Append(checkpoints,
          [size |-> Len(entries) + 1, phase |-> IF closed THEN "closed" ELSE "open"])
    /\ step' = Following[step]
    /\ UNCHANGED <<lists, window, class, openings, entries, closed, tallied, reconciled>>

PublishCheckpoint ==
    /\ step \in {"checkpoint1", "checkpoint2", "checkpoint3"}
    /\ checkpoints' = Append(checkpoints,
          [size |-> Len(entries), phase |-> IF closed THEN "closed" ELSE "open"])
    /\ step' = Following[step]
    /\ UNCHANGED <<lists, window, class, openings, entries, closed, tallied, reconciled>>

Close ==
    /\ step = "close"
    /\ entries' = Append(entries, Entry("closed"))
    /\ closed' = TRUE
    /\ step' = Following[step]
    /\ UNCHANGED <<lists, window, class, openings, checkpoints, tallied, reconciled>>
-----------------------------------------------------------------------------
(* The record *)

Listed(list) == {b \in BallotIds : list[b] # None}

(* open_tally, then the accumulation over the accepted ballots it is given.*)
TallyAccepted ==
    /\ step = "tally"
    /\ IF closed
       THEN tallied' = Listed(lists.accepted) /\ step' = Following[step]
       ELSE step' = "refused" /\ UNCHANGED tallied
    /\ UNCHANGED <<lists, window, class, openings, boardVars, reconciled>>

LeavesOf(kind) == {l \in SealedLeaves : openings[l].class = kind}
Seen == {openings[l].ref : l \in SealedLeaves \ LeavesOf("cover")}

(* Mutant of Matches: only the ids are compared, never the counts.         *)
MatchesIdsOnly ==
    /\ Cardinality(Seen) = Cardinality(SealedLeaves \ LeavesOf("cover"))
    /\ Listed(lists.accepted) \cup Listed(lists.spoiled) \subseteq Seen
    /\ Cardinality(Listed(lists.accepted)) <= MaxValid
    /\ Cardinality(Listed(lists.spoiled)) <= MaxValid

(* What reconcile compares: counts, and that no artefact is left over.     *)
Matches ==
    /\ Cardinality(Seen) = Cardinality(SealedLeaves \ LeavesOf("cover"))
    /\ Cardinality(LeavesOf("cast")) = Cardinality(Listed(lists.accepted))
    /\ Cardinality(LeavesOf("challenge")) = Cardinality(Listed(lists.spoiled))
    /\ Listed(lists.accepted) \cup Listed(lists.spoiled) \subseteq Seen
    /\ Cardinality(Listed(lists.accepted)) <= MaxValid
    /\ Cardinality(Listed(lists.spoiled)) <= MaxValid

Reconcile ==
    /\ step = "reconcile"
    /\ IF Matches
       THEN reconciled' = TRUE /\ step' = Following[step]
       ELSE step' = "refused" /\ UNCHANGED reconciled
    /\ UNCHANGED <<lists, window, class, openings, boardVars, tallied>>

CloseAndBuild ==
    \/ Gather \/ ReadReservations
    \/ SealCover \/ Classify \/ SealLeaf \/ Sealed
    \/ \E type \in EntryTypes \ {"closed"} : Publish(type)
    \/ PublishCheckpoint \/ Close
    \/ TallyAccepted \/ Reconcile

PublicationNext ==
    \/ Next /\ UNCHANGED closingVars
    \/ CloseAndBuild /\ UNCHANGED vars

PublicationSpec == PublicationInit /\ [][PublicationNext]_<<vars, closingVars>>

-----------------------------------------------------------------------------
(* Properties *)

ListedBallot == [BallotIds -> Envelopes \cup {None}]

PublicationTypeOK ==
    /\ TypeOK
    /\ step \in Steps
    /\ lists \in [accepted : ListedBallot, spoiled : ListedBallot]
    /\ window \in [SealedLeaves -> BallotIds \cup {None}]
    /\ class \in {"cast", "challenge", None}
    /\ openings \in [SealedLeaves -> LeafOpening \cup {None}]
    /\ \A i \in DOMAIN entries : entries[i].type \in EntryTypes
    /\ \A i \in DOMAIN checkpoints :
          checkpoints[i].size \in 0 .. Len(entries) /\ checkpoints[i].phase \in {"open", "closed"}
    /\ closed \in BOOLEAN
    /\ tallied \subseteq BallotIds
    /\ reconciled \in BOOLEAN

(* seal_batch takes no lock and may read the leaf of a transaction that    *)
(* will roll back, yet every ballot whose submission had returned before   *)
(* closing began is sealed, once it is through, at the leaf the store      *)
(* reserved, under its own class and with its own bytes.                   *)
ReturnedBallotsAreSealed ==
    step \notin {"gather", "read", "seal", "refused"} =>
        \A k \in Held(Committed) :
            LET r == Committed.reservations[k]
                list == IF k[1] = "cast" THEN lists.accepted ELSE lists.spoiled
            IN  r.batch = ClosedBatch /\ list[r.ref] # None =>
                openings[r.leaf] = [class |-> k[1], ref |-> r.ref, digest |-> list[r.ref]]

(* "Every artefact maps to exactly one leaf and back" (reconcile), and to  *)
(* the leaf of its class and its bytes, which reconcile does not compare:  *)
(* a leaf read from a transaction that rolled back, or that committed too  *)
(* late to be listed, never survives reconciliation.                       *)
ReconciledRecordIsExact ==
    reconciled =>
        /\ \A b \in BallotIds : \A kind \in {"cast", "challenge"} :
              LET list == IF kind = "cast" THEN lists.accepted ELSE lists.spoiled
              IN  Cardinality({l \in LeavesOf(kind) : openings[l].ref = b})
                    = IF list[b] = None THEN 0 ELSE 1
        /\ \A l \in LeavesOf("cast") : openings[l].digest = lists.accepted[openings[l].ref]
        /\ \A l \in LeavesOf("challenge") : openings[l].digest = lists.spoiled[openings[l].ref]

(* A record that reconciles stands on the board: the batch it opens was    *)
(* committed to before the election closed and under a checkpoint of the   *)
(* open phase, and a checkpoint of the closed phase covers the opening.    *)
RecordStandsOnTheBoard ==
    reconciled =>
        \E i, j, k \in DOMAIN entries :
            /\ i < j /\ j < k
            /\ entries[i] = [type |-> "commitment", leaves |-> openings]
            /\ entries[j].type = "closed"
            /\ entries[k] = [type |-> "opening", leaves |-> openings]
            /\ \E m, n \in DOMAIN checkpoints :
                  /\ checkpoints[m].phase = "open" /\ checkpoints[m].size \in i .. (j - 1)
                  /\ checkpoints[n].phase = "closed" /\ checkpoints[n].size >= k

(* A ballot that was counted is never one that is, or ever becomes, a      *)
(* publicly challenged one, and the voters have paid for every counted     *)
(* ballot with a capability that is consumed by now.                       *)
CountedBallotsArePaidFor ==
    /\ \A b \in tallied : spoiled[b] = None
    /\ Cardinality(tallied) <= Cardinality({c \in Capabilities : continuations[c].consumed})

(* What is counted and recorded is what was accepted, each ballot once, at *)
(* its leaf, and paid for, although submissions go on, and roll back,      *)
(* while the lists are gathered, the batch is sealed and the record built. *)
(* (close_and_build, reconcile)                                            *)
CountIsExactAndPaidFor == ReconciledRecordIsExact /\ CountedBallotsArePaidFor

(* The closing procedure seen as one instant: the roll is the lists it was *)
(* given, with the leaves the store holds for them, and the record is what *)
(* it sealed, once it is reconciled.                                       *)
Roll ==
    {[kind |-> "cast", leaf |-> LeafOf(Committed, b), envelope |-> lists.accepted[b]] :
        b \in Listed(lists.accepted)}
    \cup {[kind |-> "challenge", leaf |-> LeafOf(Committed, b), envelope |-> lists.spoiled[b]] :
        b \in Listed(lists.spoiled)}

Record ==
    IF reconciled
    THEN {[kind |-> openings[l].class, leaf |-> <<ClosedBatch, l>>,
           envelope |-> openings[l].digest] : l \in SealedLeaves \ LeavesOf("cover")}
    ELSE {}

Result == INSTANCE ElectionResult WITH
        CastLeaves <- CandidateSlots("cast"),
        ChallengeLeaves <- CandidateSlots("challenge"),
        entitlement <- [c \in Capabilities |-> EntitlementOf(Committed.continuations[c])],
        box <- [b \in BallotIds |-> BoxOf(Committed, b)],
        leaf <- [b \in BallotIds |-> LeafOf(Committed, b)],
        answer <- Committed.idempotency,
        owed <- {o[2] : o \in Committed.obligations},
        called <- step # "gather",
        roll <- Roll,
        counted <- tallied,
        record <- Record

(* Unlocked reads of leaf after leaf, a class test apart from the look-up, *)
(* lists gathered before and used after closure, and submissions all the   *)
(* while: to voters and readers of the record it is as if the ballots had  *)
(* been taken, with their leaves and bytes, at the instant of Gather.      *)
PublishesTheResult == Result!RSpec

(* PACK-16D-ELECTION-RECORD-BUILDER RB-45, "the ELECTION_CLOSED entry      *)
(* fixes the tallied set": when the board can be closed, every ballot that *)
(* has been accepted is in the batch that was sealed.                      *)
AcceptedBallotsAreSealedAtClosure ==
    step = "close" => {b \in BallotIds : Committed.accepted[b] # None} \subseteq Seen
=============================================================================
