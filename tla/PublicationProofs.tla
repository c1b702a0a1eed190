--------------------------- MODULE PublicationProofs ---------------------------
(***************************************************************************)
(* Theorems about Publication, for every election that Casting is proved   *)
(* for, every batch capacity and every interleaving of the closing         *)
(* procedure with submissions and sweeps.  The closing procedure changes   *)
(* nothing of the store, so what CastingProofs shows of Spec holds here;   *)
(* on top of it there are an invariant of the board and one of the sealed  *)
(* leaves.                                                                 *)
(***************************************************************************)
EXTENDS Publication, CastingProofs

pubVars == <<vars, closingVars>>

(***************************************************************************)
(* Closing refines casting                                                 *)
(***************************************************************************)

LEMMA ClosingKeepsCasting == PublicationSpec => Spec
  <1>1. PublicationInit => Init
    BY DEF PublicationInit
  <1>2. [PublicationNext]_<<vars, closingVars>> => [Next]_vars
    BY DEF PublicationNext
  <1> QED BY <1>1, <1>2, PTL DEF PublicationSpec, Spec

(* What CastingProofs shows of every state of the store.                   *)
Stored == TypeOK /\ InFlight /\ Coherent(Committed)

LEMMA AlwaysStored == PublicationSpec => []Stored
  BY ClosingKeepsCasting, TypeCorrect, TransactionIsolated, CommittedCoherent, PTL DEF Stored

(***************************************************************************)
(* Types                                                                   *)
(***************************************************************************)

LEMMA NextLeaf == ASSUME Unsealed # {} PROVE Next1 \in SealedLeaves /\ openings[Next1] = None
  <1>1. Unsealed \in SUBSET Nat
    BY PublicationAssumption DEF Unsealed, SealedLeaves
  <1>2. \E l \in Unsealed : \A m \in Unsealed : l <= m
    BY <1>1, LeastNatural
  <1> QED BY <1>2 DEF Next1, Unsealed

(* seal_batch stands between its two look-ups only at a reserved leaf.     *)
ClassHasLeaf == class # None => step = "seal" /\ Unsealed # {} /\ window[Next1] # None

ClosingTypeOK ==
    /\ step \in Steps
    /\ lists \in [accepted : ListedBallot, spoiled : ListedBallot]
    /\ window \in [SealedLeaves -> BallotIds \cup {None}]
    /\ class \in {"cast", "challenge", None}
    /\ openings \in [SealedLeaves -> LeafOpening \cup {None}]
    /\ tallied \subseteq BallotIds
    /\ reconciled \in BOOLEAN
    /\ ClassHasLeaf

LEMMA StoreMaps ==
    ASSUME TypeOK
    PROVE  /\ accepted \in ListedBallot /\ spoiled \in ListedBallot
           /\ phase # "idle" => snapshot.accepted \in ListedBallot
                                /\ snapshot.spoiled \in ListedBallot
           /\ reservations \in [Scopes -> LeafReservation \cup {None}]
  BY StoreIsTyped DEF TypeOK, StoreTypes, ReferenceStore, ListedBallot

LEMMA SealTypes ==
    ASSUME TypeOK, ClosingTypeOK, SealCover \/ Classify \/ SealLeaf \/ Sealed
    PROVE  ClosingTypeOK'
  <1> USE DEF ClosingTypeOK
  <1>1. CASE SealCover
    <2>1. Next1 \in SealedLeaves /\ Cover \in LeafOpening
      BY <1>1, NextLeaf DEF SealCover, LeafOpening
    <2> QED BY <1>1, <2>1 DEF SealCover, ClassHasLeaf
  <1>2. CASE Classify
    <2>1. ClassHasLeaf'
      BY <1>2 DEF Classify, ClassHasLeaf, Unsealed, Next1
    <2> QED BY <1>2, <2>1 DEF Classify
  <1>3. CASE SealLeaf
    <2>1. /\ Next1 \in SealedLeaves /\ window[Next1] \in BallotIds
          /\ class \in {"cast", "challenge"} /\ class' = None
          /\ UNCHANGED <<lists, window, tallied, reconciled>>
      BY <1>3, NextLeaf DEF SealLeaf, ClassHasLeaf
    <2> DEFINE digest == IF class = "cast" THEN accepted[window[Next1]]
                                           ELSE spoiled[window[Next1]]
    <2>2. digest \in Envelopes \cup {None}
      BY <2>1, StoreMaps DEF ListedBallot
    <2>3. CASE digest = None
      <3>1. step' = "refused" /\ UNCHANGED openings
        BY <1>3, <2>3 DEF SealLeaf
      <3> QED BY <2>1, <3>1 DEF ClassHasLeaf, Steps
    <2>4. CASE digest # None
      <3>1. /\ step' = step
            /\ openings' = [openings EXCEPT ![Next1] =
                              [class |-> class, ref |-> window[Next1], digest |-> digest]]
        BY <1>3, <2>4 DEF SealLeaf
      <3>2. [class |-> class, ref |-> window[Next1], digest |-> digest] \in LeafOpening
        BY <2>1, <2>2, <2>4 DEF LeafOpening
      <3> HIDE DEF digest
      <3> QED BY <2>1, <3>1, <3>2 DEF ClassHasLeaf
    <2> QED BY <2>3, <2>4
  <1>4. CASE Sealed
    BY <1>4 DEF Sealed, ClassHasLeaf, Steps
  <1> QED BY <1>1, <1>2, <1>3, <1>4

LEMMA ClosingTypes ==
    ASSUME TypeOK, ClosingTypeOK, CloseAndBuild
    PROVE  ClosingTypeOK'
  <1> USE DEF ClosingTypeOK
  <1>1. CASE Gather
    BY <1>1, StoreMaps DEF Gather, Steps, ClassHasLeaf
  <1>2. CASE ReadReservations
    <2>1. Window \in [SealedLeaves -> BallotIds \cup {None}]
      <3>1. \A k \in ReservedLeaves : reservations[k].ref \in BallotIds
        BY StoreMaps DEF ReservedLeaves, LeafReservation
      <3> QED BY <3>1 DEF Window
    <2> QED BY <1>2, <2>1 DEF ReadReservations, Steps, ClassHasLeaf
  <1>3. CASE SealCover \/ Classify \/ SealLeaf \/ Sealed
    BY <1>3, SealTypes
  <1>4. CASE \E type \in EntryTypes \ {"closed"} : Publish(type)
    BY <1>4 DEF Publish, EntryTypes, Following, Steps, ClassHasLeaf
  <1>5. CASE PublishCheckpoint
    BY <1>5 DEF PublishCheckpoint, Following, Steps, ClassHasLeaf
  <1>6. CASE Close
    BY <1>6 DEF Close, Following, Steps, ClassHasLeaf
  <1>7. CASE TallyAccepted
    BY <1>7 DEF TallyAccepted, Listed, Following, Steps, ClassHasLeaf
  <1>8. CASE Reconcile
    BY <1>8 DEF Reconcile, Following, Steps, ClassHasLeaf
  <1> QED BY <1>1, <1>2, <1>3, <1>4, <1>5, <1>6, <1>7, <1>8 DEF CloseAndBuild

LEMMA ClosingStands ==
    ASSUME UNCHANGED closingVars
    PROVE  (ClosingTypeOK <=> ClosingTypeOK')
  BY DEF closingVars, boardVars, ClosingTypeOK, ClassHasLeaf, Unsealed, Next1

LEMMA AlwaysTyped == PublicationSpec => []ClosingTypeOK
  <1>1. PublicationInit => ClosingTypeOK
    <2> SUFFICES ASSUME ClosingInit PROVE ClosingTypeOK
      BY DEF PublicationInit
    <2>1. NoBallot \in ListedBallot
      BY DEF NoBallot, ListedBallot
    <2>2. /\ NoOpening \in [SealedLeaves -> BallotIds \cup {None}]
          /\ NoOpening \in [SealedLeaves -> LeafOpening \cup {None}]
      BY DEF NoOpening
    <2> QED BY <2>1, <2>2 DEF ClosingInit, ClosingTypeOK, ClassHasLeaf, Steps
  <1>2. TypeOK /\ ClosingTypeOK /\ [PublicationNext]_<<vars, closingVars>> => ClosingTypeOK'
    BY ClosingTypes, ClosingStands DEF PublicationNext
  <1> QED BY <1>1, <1>2, AlwaysStored, PTL DEF PublicationSpec, Stored


(***************************************************************************)
(* The board                                                               *)
(***************************************************************************)

(* Following, one step at a time.                                          *)
LEMMA FollowingSteps ==
    /\ Following["manifest"] = "parameters" /\ Following["parameters"] = "checkpoint1"
    /\ Following["checkpoint1"] = "commitment" /\ Following["commitment"] = "checkpoint2"
    /\ Following["checkpoint2"] = "close" /\ Following["close"] = "opening"
    /\ Following["opening"] = "checkpoint3" /\ Following["checkpoint3"] = "tally"
    /\ Following["tally"] = "reconcile" /\ Following["reconcile"] = "done"
  BY DEF Following

(* What the board holds when a step of close_and_build comes next.         *)
Holds(n, m) == Len(entries) = n /\ Len(checkpoints) = m

EntriesInOrder ==
    /\ Len(entries) >= 3 => entries[3] = [type |-> "commitment", leaves |-> openings]
    /\ Len(entries) >= 4 => entries[4].type = "closed"
    /\ Len(entries) >= 5 => entries[5] = [type |-> "opening", leaves |-> openings]

CheckpointsInOrder ==
    /\ Len(checkpoints) >= 2 => checkpoints[2] = [size |-> 3, phase |-> "open"]
    /\ Len(checkpoints) >= 3 => checkpoints[3] = [size |-> 5, phase |-> "closed"]

Entries == [type : EntryTypes, leaves : [SealedLeaves -> LeafOpening \cup {None}] \cup {None}]
Checkpoints == [size : Nat, phase : {"open", "closed"}]

BoardTypeOK ==
    /\ entries \in Seq(Entries) /\ checkpoints \in Seq(Checkpoints) /\ closed \in BOOLEAN
    /\ \A i \in DOMAIN checkpoints : checkpoints[i].size <= Len(entries)

(* Once the batch is sealed its openings stand still, so what was hashed   *)
(* into the commitment is what the opening opens.                          *)
BoardShape ==
    /\ step \in {"gather", "read", "seal", "manifest"} => Holds(0, 0) /\ closed = FALSE
    /\ step = "parameters" => Holds(1, 0) /\ closed = FALSE
    /\ step = "checkpoint1" => Holds(2, 0) /\ closed = FALSE
    /\ step = "commitment" => Holds(2, 1) /\ closed = FALSE
    /\ step = "checkpoint2" => Holds(3, 1) /\ closed = FALSE
    /\ step = "close" => Holds(3, 2) /\ closed = FALSE
    /\ step = "opening" => Holds(4, 2) /\ closed = TRUE
    /\ step = "checkpoint3" => Holds(5, 2) /\ closed = TRUE
    /\ step \in {"tally", "reconcile", "done"} => Holds(5, 3) /\ closed = TRUE
    /\ step # "refused" => EntriesInOrder /\ CheckpointsInOrder
    /\ step # "done" => reconciled = FALSE

BoardInv == BoardTypeOK /\ BoardShape

LEMMA EntryTyped ==
    ASSUME ClosingTypeOK, NEW type \in EntryTypes
    PROVE  Entry(type) \in Entries
  BY DEF ClosingTypeOK, Entry, Entries

(* Before the board is written to, nothing there can change.               *)
LEMMA SealingKeepsBoard ==
    ASSUME ClosingTypeOK, BoardInv,
           Gather \/ ReadReservations \/ SealCover \/ Classify \/ SealLeaf \/ Sealed
    PROVE  BoardInv'
  <1>1. /\ UNCHANGED <<entries, checkpoints, closed, reconciled>>
        /\ step \in {"gather", "read", "seal"}
        /\ step' \in {"read", "seal", "manifest", "refused"}
    BY DEF Gather, ReadReservations, SealCover, Classify, SealLeaf, Sealed, boardVars
  <1>2. BoardTypeOK'
    BY <1>1 DEF BoardInv, BoardTypeOK
  <1>3. Len(entries) = 0 /\ Len(checkpoints) = 0 /\ closed = FALSE /\ reconciled = FALSE
    BY <1>1 DEF BoardInv, BoardShape, Holds
  <1>4. BoardShape'
    BY <1>1, <1>3
       DEF BoardShape, Holds, EntriesInOrder, CheckpointsInOrder
  <1> QED BY <1>2, <1>4 DEF BoardInv

LEMMA AppendingKeepsBoard ==
    ASSUME ClosingTypeOK, BoardInv, NEW type \in EntryTypes,
           entries' = Append(entries, Entry(type)),
           \/ type # "closed" /\ step = type /\ UNCHANGED closed
           \/ type = "closed" /\ step = "close" /\ closed' = TRUE,
           step' = Following[step],
           UNCHANGED <<openings, checkpoints, reconciled>>
    PROVE  BoardInv'
  <1>1. /\ Entry(type) \in Entries /\ Entry(type).type = type
        /\ type \in {"commitment", "opening"} => Entry(type).leaves = openings
    BY EntryTyped DEF Entry
  <1>2. /\ entries' \in Seq(Entries) /\ Len(entries') = Len(entries) + 1
        /\ \A i \in 1 .. Len(entries) : entries'[i] = entries[i]
        /\ entries'[Len(entries) + 1] = Entry(type)
    BY <1>1 DEF BoardInv, BoardTypeOK
  <1>3. Len(entries) \in Nat /\ closed' \in BOOLEAN
    <2>1. Len(entries) \in Nat
      BY DEF BoardInv, BoardTypeOK
    <2>2. closed \in BOOLEAN
      BY DEF BoardInv, BoardTypeOK
    <2>3. closed' \in BOOLEAN
      BY <2>2
    <2> QED BY <2>1, <2>3
  <1>4. BoardTypeOK'
    <2>1. \A i \in DOMAIN checkpoints : checkpoints[i].size \in Nat /\ checkpoints[i].size <= Len(entries)
      <3>1. \A i \in DOMAIN checkpoints : checkpoints[i] \in Checkpoints
        BY DEF BoardInv, BoardTypeOK
      <3> QED BY <3>1 DEF BoardInv, BoardTypeOK, Checkpoints
    <2>2. \A i \in DOMAIN checkpoints' : checkpoints'[i].size <= Len(entries')
      BY <1>2, <1>3, <2>1
    <2>3. checkpoints' \in Seq(Checkpoints)
      BY DEF BoardInv, BoardTypeOK
    <2> QED BY <1>2, <1>3, <2>2, <2>3 DEF BoardTypeOK
  <1>5. step \in {"manifest", "parameters", "commitment", "close", "opening"}
    BY DEF EntryTypes
  <1>6. BoardShape'
    <2>1. CASE step = "manifest"
      <3>1. step' = "parameters" /\ Len(entries') = 1 /\ Len(checkpoints') = 0
            /\ closed' = FALSE /\ reconciled' = FALSE
        BY <1>2, <2>1, FollowingSteps DEF BoardInv, BoardShape, Holds
      <3> QED BY <3>1 DEF BoardShape, Holds, EntriesInOrder, CheckpointsInOrder
    <2>2. CASE step = "parameters"
      <3>1. step' = "checkpoint1" /\ Len(entries') = 2 /\ Len(checkpoints') = 0
            /\ closed' = FALSE /\ reconciled' = FALSE
        <4>1. Len(entries) = 1 /\ Len(checkpoints) = 0 /\ closed = FALSE /\ reconciled = FALSE
          BY <2>2 DEF BoardInv, BoardShape, Holds
        <4>2. step' = "checkpoint1"
          BY <2>2, FollowingSteps
        <4>3. closed' = FALSE
          BY <2>2, <4>1
        <4> QED BY <1>2, <4>1, <4>2, <4>3
      <3> QED BY <3>1 DEF BoardShape, Holds, EntriesInOrder, CheckpointsInOrder
    <2>3. CASE step = "commitment"
      <3>1. step' = "checkpoint2" /\ Len(entries') = 3 /\ Len(checkpoints') = 1
            /\ closed' = FALSE /\ reconciled' = FALSE
        <4>1. Len(entries) = 2 /\ Len(checkpoints) = 1 /\ closed = FALSE /\ reconciled = FALSE
          BY <2>3 DEF BoardInv, BoardShape, Holds
        <4>2. step' = "checkpoint2"
          BY <2>3, FollowingSteps
        <4>3. closed' = FALSE
          BY <2>3, <4>1
        <4> QED BY <1>2, <4>1, <4>2, <4>3
      <3>2. entries'[3] = [type |-> "commitment", leaves |-> openings']
        BY <1>1, <1>2, <2>3 DEF BoardInv, BoardShape, Holds, Entry
      <3> QED BY <3>1, <3>2 DEF BoardShape, Holds, EntriesInOrder, CheckpointsInOrder
    <2>4. CASE step = "close"
      <3>1. step' = "opening" /\ Len(entries') = 4 /\ Len(checkpoints') = 2
            /\ closed' = TRUE /\ reconciled' = FALSE
        <4>1. Len(entries) = 3 /\ Len(checkpoints) = 2 /\ closed = FALSE /\ reconciled = FALSE
          BY <2>4 DEF BoardInv, BoardShape, Holds
        <4>2. step' = "opening"
          BY <2>4, FollowingSteps
        <4>3. closed' = TRUE
          BY <2>4 DEF EntryTypes
        <4> QED BY <1>2, <4>1, <4>2, <4>3
      <3>2. Len(entries) = 3 /\ EntriesInOrder
        BY <2>4 DEF BoardInv, BoardShape, Holds
      <3>4. entries'[3] = [type |-> "commitment", leaves |-> openings']
        BY <1>2, <3>2 DEF EntriesInOrder
      <3>5. entries'[4].type = "closed"
        <4>1. type = "closed"
          BY <2>4 DEF EntryTypes
        <4> QED BY <1>1, <1>2, <3>2, <4>1
      <3>3. CheckpointsInOrder'
        BY <2>4 DEF BoardInv, BoardShape, CheckpointsInOrder
      <3> QED BY <3>1, <3>3, <3>4, <3>5 DEF BoardShape, Holds, EntriesInOrder
    <2>5. CASE step = "opening"
      <3>1. step' = "checkpoint3" /\ Len(entries') = 5 /\ Len(checkpoints') = 2
            /\ closed' = TRUE /\ reconciled' = FALSE
        <4>1. Len(entries) = 4 /\ Len(checkpoints) = 2 /\ closed = TRUE /\ reconciled = FALSE
          BY <2>5 DEF BoardInv, BoardShape, Holds
        <4>2. step' = "checkpoint3"
          BY <2>5, FollowingSteps
        <4>3. closed' = TRUE
          BY <2>5, <4>1
        <4> QED BY <1>2, <4>1, <4>2, <4>3
      <3>2. /\ entries'[3] = [type |-> "commitment", leaves |-> openings']
            /\ entries'[4].type = "closed"
            /\ entries'[5] = [type |-> "opening", leaves |-> openings']
        BY <1>1, <1>2, <2>5 DEF BoardInv, BoardShape, Holds, Entry, EntriesInOrder
      <3>3. CheckpointsInOrder'
        BY <2>5 DEF BoardInv, BoardShape, CheckpointsInOrder
      <3> QED BY <3>1, <3>2, <3>3 DEF BoardShape, Holds, EntriesInOrder
    <2> QED BY <1>5, <2>1, <2>2, <2>3, <2>4, <2>5
  <1> QED BY <1>4, <1>6 DEF BoardInv

LEMMA CheckpointKeepsBoard ==
    ASSUME ClosingTypeOK, BoardInv, PublishCheckpoint
    PROVE  BoardInv'
  <1> DEFINE signed == [size |-> Len(entries), phase |-> IF closed THEN "closed" ELSE "open"]
  <1>1. /\ step \in {"checkpoint1", "checkpoint2", "checkpoint3"} /\ step' = Following[step]
        /\ checkpoints' = Append(checkpoints, signed)
        /\ UNCHANGED <<openings, entries, closed, reconciled>>
    BY DEF PublishCheckpoint
  <1>2. signed \in Checkpoints /\ signed.size = Len(entries)
    BY DEF BoardInv, BoardTypeOK, Checkpoints
  <1>3. /\ checkpoints' \in Seq(Checkpoints) /\ Len(checkpoints') = Len(checkpoints) + 1
        /\ \A i \in 1 .. Len(checkpoints) : checkpoints'[i] = checkpoints[i]
        /\ checkpoints'[Len(checkpoints) + 1] = signed
    BY <1>1, <1>2 DEF BoardInv, BoardTypeOK
  <1>4. BoardTypeOK'
    <2>1. ASSUME NEW i \in 1 .. Len(checkpoints') PROVE checkpoints'[i].size <= Len(entries)
      <3>1. CASE i \in 1 .. Len(checkpoints)
        BY <1>3, <3>1 DEF BoardInv, BoardTypeOK
      <3>2. CASE i = Len(checkpoints) + 1
        BY <1>2, <1>3, <3>2 DEF BoardInv, BoardTypeOK
      <3> QED BY <1>3, <3>1, <3>2 DEF BoardInv, BoardTypeOK
    <2> QED BY <1>1, <1>3, <2>1 DEF BoardInv, BoardTypeOK
  <1>5. BoardShape'
    <2>1. CASE step = "checkpoint1"
      <3>1. step' = "commitment" /\ Len(entries') = 2 /\ Len(checkpoints') = 1
            /\ closed' = FALSE /\ reconciled' = FALSE
        BY <1>1, <1>3, <2>1, FollowingSteps DEF BoardInv, BoardShape, Holds
      <3> QED BY <3>1 DEF BoardShape, Holds, EntriesInOrder, CheckpointsInOrder
    <2>2. CASE step = "checkpoint2"
      <3>1. step' = "close" /\ Len(entries') = 3 /\ Len(checkpoints') = 2
            /\ closed' = FALSE /\ reconciled' = FALSE /\ EntriesInOrder'
        <4>1. Len(entries) = 3 /\ Len(checkpoints) = 1 /\ closed = FALSE /\ reconciled = FALSE
          BY <2>2 DEF BoardInv, BoardShape, Holds
        <4>2. step' = "close"
          BY <1>1, <2>2, FollowingSteps
        <4>3. EntriesInOrder'
          BY <1>1, <2>2 DEF BoardInv, BoardShape, EntriesInOrder
        <4> QED BY <1>1, <1>3, <4>1, <4>2, <4>3
      <3>4. Len(entries) = 3 /\ Len(checkpoints) = 1 /\ closed = FALSE
        BY <2>2 DEF BoardInv, BoardShape, Holds
      <3>5. signed = [size |-> 3, phase |-> "open"]
        BY <3>4
      <3>2. checkpoints'[2] = [size |-> 3, phase |-> "open"]
        BY <1>3, <3>4, <3>5
      <3> QED BY <3>1, <3>2 DEF BoardShape, Holds, CheckpointsInOrder
    <2>3. CASE step = "checkpoint3"
      <3>1. step' = "tally" /\ Len(entries') = 5 /\ Len(checkpoints') = 3
            /\ closed' = TRUE /\ reconciled' = FALSE /\ EntriesInOrder'
        <4>1. Len(entries) = 5 /\ Len(checkpoints) = 2 /\ closed = TRUE /\ reconciled = FALSE
          BY <2>3 DEF BoardInv, BoardShape, Holds
        <4>2. step' = "tally"
          BY <1>1, <2>3, FollowingSteps
        <4>3. EntriesInOrder'
          BY <1>1, <2>3 DEF BoardInv, BoardShape, EntriesInOrder
        <4> QED BY <1>1, <1>3, <4>1, <4>2, <4>3
      <3>4. Len(entries) = 5 /\ Len(checkpoints) = 2 /\ closed = TRUE /\ CheckpointsInOrder
        BY <2>3 DEF BoardInv, BoardShape, Holds
      <3>5. signed = [size |-> 5, phase |-> "closed"]
        BY <3>4
      <3>2. /\ checkpoints'[3] = [size |-> 5, phase |-> "closed"]
            /\ checkpoints'[2] = [size |-> 3, phase |-> "open"]
        BY <1>3, <3>4, <3>5 DEF CheckpointsInOrder
      <3> QED BY <3>1, <3>2 DEF BoardShape, Holds, CheckpointsInOrder
    <2> QED BY <1>1, <2>1, <2>2, <2>3
  <1> QED BY <1>4, <1>5 DEF BoardInv

LEMMA RecordKeepsBoard ==
    ASSUME ClosingTypeOK, BoardInv, TallyAccepted \/ Reconcile
    PROVE  BoardInv'
  <1>1. /\ UNCHANGED <<openings, entries, checkpoints, closed>>
        /\ \/ step = "tally" /\ step' = "reconcile" /\ UNCHANGED reconciled
           \/ step = "reconcile" /\ step' = "done"
           \/ step' = "refused" /\ step # "done" /\ UNCHANGED reconciled
    BY DEF TallyAccepted, Reconcile, Following, boardVars
  <1>2. BoardTypeOK'
    BY <1>1 DEF BoardInv, BoardTypeOK
  <1>3. BoardShape'
    BY <1>1 DEF BoardInv, BoardShape, Holds, EntriesInOrder,
                CheckpointsInOrder
  <1> QED BY <1>2, <1>3 DEF BoardInv

LEMMA ClosingKeepsBoard == ASSUME ClosingTypeOK, BoardInv, CloseAndBuild PROVE BoardInv'
  <1>1. ASSUME NEW type \in EntryTypes \ {"closed"}, Publish(type) PROVE BoardInv'
    <2>1. CASE closed \/ type \in PreClosure
      BY <1>1, <2>1, AppendingKeepsBoard DEF Publish
    <2>2. CASE ~(closed \/ type \in PreClosure)
      <3>1. UNCHANGED <<entries, checkpoints, closed, reconciled, openings>>
            /\ step' = "refused" /\ step # "done"
        BY <1>1, <2>2 DEF Publish, EntryTypes
      <3>2. BoardTypeOK'
        BY <3>1 DEF BoardInv, BoardTypeOK
      <3> QED BY <3>1, <3>2 DEF BoardInv, BoardShape
    <2> QED BY <2>1, <2>2
  <1>2. CASE Close
    BY <1>2, AppendingKeepsBoard DEF Close, EntryTypes
  <1> QED BY <1>1, <1>2, SealingKeepsBoard, CheckpointKeepsBoard, RecordKeepsBoard
          DEF CloseAndBuild

LEMMA AlwaysBoard == PublicationSpec => []BoardInv
  <1>1. PublicationInit => BoardInv
    <2> SUFFICES ASSUME ClosingInit PROVE BoardInv
      BY DEF PublicationInit
    <2>1. Len(entries) = 0 /\ Len(checkpoints) = 0 /\ step = "gather" /\ reconciled = FALSE
          /\ closed = FALSE /\ entries \in Seq(Entries) /\ checkpoints \in Seq(Checkpoints)
      BY DEF ClosingInit
    <2>2. closed \in BOOLEAN /\ DOMAIN checkpoints = 1 .. 0
      <3>1. closed \in BOOLEAN
        BY DEF ClosingInit
      <3>2. DOMAIN checkpoints = 1 .. 0
        BY <2>1
      <3> QED BY <3>1, <3>2
    <2>3. BoardTypeOK
      BY <2>1, <2>2 DEF BoardTypeOK
    <2>4. BoardShape
      BY <2>1 DEF BoardShape, Holds, EntriesInOrder, CheckpointsInOrder
    <2> QED BY <2>3, <2>4 DEF BoardInv
  <1>2. ASSUME BoardInv, UNCHANGED closingVars PROVE BoardInv'
    <2>1. UNCHANGED <<entries, checkpoints, closed, step, openings, reconciled>>
      BY <1>2 DEF closingVars, boardVars
    <2>2. BoardTypeOK'
      BY <1>2, <2>1 DEF BoardInv, BoardTypeOK
    <2>3. BoardShape'
      BY <1>2, <2>1 DEF BoardInv, BoardShape, Holds, EntriesInOrder, CheckpointsInOrder
    <2> QED BY <2>2, <2>3 DEF BoardInv
  <1>3. ClosingTypeOK /\ BoardInv /\ [PublicationNext]_<<vars, closingVars>> => BoardInv'
    BY <1>2, ClosingKeepsBoard DEF PublicationNext
  <1> QED BY <1>1, <1>3, AlwaysTyped, PTL DEF PublicationSpec

(* Every reachable state of store and closing procedure has the types the  *)
(* model declares; among them, no checkpoint signs more than the board has.*)
THEOREM PublicationTypeCorrect == PublicationSpec => []PublicationTypeOK
  <1>1. TypeOK /\ ClosingTypeOK /\ BoardInv => PublicationTypeOK
    <2> SUFFICES ASSUME TypeOK, ClosingTypeOK, BoardInv PROVE PublicationTypeOK
      OBVIOUS
    <2>1. \A i \in DOMAIN entries : entries[i].type \in EntryTypes
      <3>1. \A i \in DOMAIN entries : entries[i] \in Entries
        BY DEF BoardInv, BoardTypeOK
      <3> QED BY <3>1 DEF Entries
    <2>2. ASSUME NEW i \in DOMAIN checkpoints
          PROVE  checkpoints[i].size \in 0 .. Len(entries)
                 /\ checkpoints[i].phase \in {"open", "closed"}
      <3>1. checkpoints[i] \in Checkpoints /\ checkpoints[i].size <= Len(entries)
            /\ Len(entries) \in Nat
        BY DEF BoardInv, BoardTypeOK
      <3> QED BY <3>1 DEF Checkpoints
    <2> QED BY <2>1, <2>2 DEF PublicationTypeOK, ClosingTypeOK, BoardInv, BoardTypeOK
  <1> QED BY <1>1, AlwaysStored, AlwaysTyped, AlwaysBoard, PTL DEF Stored

(* A record that reconciled opens what was committed to before closure,    *)
(* under a checkpoint of the open phase, and a checkpoint of the closed    *)
(* phase covers the opening (close_and_build, BulletinBoard).              *)
THEOREM RecordStands == PublicationSpec => []RecordStandsOnTheBoard
  <1>1. BoardInv => RecordStandsOnTheBoard
    <2> SUFFICES ASSUME BoardInv, reconciled PROVE RecordStandsOnTheBoard
      BY DEF RecordStandsOnTheBoard
    <2>1. Len(entries) = 5 /\ Len(checkpoints) = 3 /\ EntriesInOrder /\ CheckpointsInOrder
      BY DEF BoardInv, BoardShape, Holds
    <2>2. DOMAIN entries = 1 .. 5 /\ DOMAIN checkpoints = 1 .. 3
      BY <2>1 DEF BoardInv, BoardTypeOK
    <2>3. /\ 3 \in DOMAIN entries /\ 4 \in DOMAIN entries /\ 5 \in DOMAIN entries
          /\ 2 \in DOMAIN checkpoints /\ 3 \in DOMAIN checkpoints
      BY <2>2
    <2>4. /\ checkpoints[2].phase = "open" /\ checkpoints[2].size \in 3 .. (4 - 1)
          /\ checkpoints[3].phase = "closed" /\ checkpoints[3].size >= 5
      BY <2>1 DEF CheckpointsInOrder
    <2>5. /\ entries[3] = [type |-> "commitment", leaves |-> openings]
          /\ entries[4].type = "closed"
          /\ entries[5] = [type |-> "opening", leaves |-> openings]
      BY <2>1 DEF EntriesInOrder
    <2> QED BY <2>3, <2>4, <2>5 DEF RecordStandsOnTheBoard
  <1> QED BY <1>1, AlwaysBoard, PTL

(***************************************************************************)
(* What seal_batch reads without the lock                                  *)
(***************************************************************************)

(* The store keeps, byte for byte, what it held when the lists were made.  *)
ListsStand ==
    step # "gather" =>
        \A b \in BallotIds :
            /\ lists.accepted[b] # None => Committed.accepted[b] = lists.accepted[b]
            /\ lists.spoiled[b] # None => Committed.spoiled[b] = lists.spoiled[b]

ListOf(kind) == IF kind = "cast" THEN lists.accepted ELSE lists.spoiled

(* Reservation k of the committed store is one that has to be sealed.      *)
Due(k) ==
    /\ Committed.reservations[k].batch = ClosedBatch
    /\ ListOf(k[1])[Committed.reservations[k].ref] # None

(* Every one of them was seen when the reservations were read.             *)
WindowStands ==
    step \notin {"gather", "read", "refused"} =>
        \A k \in Held(Committed) : Due(k) =>
            /\ Committed.reservations[k].leaf \in SealedLeaves
            /\ window[Committed.reservations[k].leaf] = Committed.reservations[k].ref

(* A listed ballot is never taken for one of the other class, not even     *)
(* between the two look-ups ...                                            *)
Named(b, kind) ==
    /\ lists.accepted[b] # None => kind = "cast"
    /\ lists.spoiled[b] # None => kind = "challenge"

ClassStands == class # None => Named(window[Next1], class)

(* ... and its leaf is sealed with the bytes that were listed.             *)
LeafStands(l) ==
    openings[l] # None =>
        IF window[l] = None THEN openings[l] = Cover
        ELSE /\ openings[l].class \in {"cast", "challenge"}
             /\ openings[l].ref = window[l]
             /\ Named(window[l], openings[l].class)
             /\ ListOf(openings[l].class)[window[l]]
                   \in {None, openings[l].digest}

ClosingStages ==
    /\ step \in {"gather", "read"} => window = NoOpening /\ openings = NoOpening
    /\ step \notin {"gather", "read", "seal", "refused"} => Unsealed = {}
    /\ tallied # {} => step # "gather" /\ tallied = Listed(lists.accepted)
    /\ reconciled => step = "done" /\ Matches

SealInv ==
    /\ ListsStand /\ WindowStands /\ ClassStands /\ ClosingStages
    /\ \A l \in SealedLeaves : LeafStands(l)

LEMMA TypeStep == ASSUME TypeOK, [Next]_vars PROVE TypeOK'
  <1>1. CASE Next
    BY <1>1, SubmissionType, DispatchType DEF Next
  <1>2. CASE UNCHANGED vars
    BY <1>2 DEF vars, storeVars, ballotVars, leafVars, owedVars, txVars, sweepVars, TypeOK, Store
  <1> QED BY <1>1, <1>2

(* The committed store only grows, by ballots it did not hold.             *)
LEMMA CommittedGrows ==
    ASSUME TypeOK, InFlight, [Next]_vars
    PROVE  /\ \A b \in BallotIds :
                 /\ Committed.accepted[b] # None =>
                       Committed'.accepted[b] = Committed.accepted[b]
                 /\ Committed.spoiled[b] # None => Committed'.spoiled[b] = Committed.spoiled[b]
           /\ \A k \in Held(Committed') :
                 \/ k \in Held(Committed)
                    /\ Committed'.reservations[k] = Committed.reservations[k]
                 \/ /\ Committed.accepted[Committed'.reservations[k].ref] = None
                    /\ Committed.spoiled[Committed'.reservations[k].ref] = None
  <1>1. CASE Commit
    <2>1. Committed = snapshot /\ Committed' = Store /\ phase = "recorded"
      BY <1>1 DEF Commit, Leave, Store, storeVars, ballotVars, leafVars, owedVars, Committed
    <2>2. PICK l \in CandidateSlots(request.op) :
            Adds(snapshot, Store, Scope, request.env, request.batch, l)
      BY <2>1, CommitWrites
    <2>3. /\ snapshot.accepted \in [BallotIds -> Envelopes \cup {None}]
          /\ snapshot.spoiled \in [BallotIds -> Envelopes \cup {None}]
          /\ snapshot.reservations \in [Scopes -> LeafReservation \cup {None}]
      BY <2>1, RequestFields DEF ReferenceStore
    <2> DEFINE id == BallotIdOf[request.env]
               r == [batch |-> request.batch, leaf |-> l, ref |-> id, committed |-> TRUE]
    <2>4. /\ snapshot.accepted[id] = None /\ snapshot.spoiled[id] = None
          /\ \/ Store.accepted = [snapshot.accepted EXCEPT ![id] = request.env]
             \/ Store.accepted = snapshot.accepted
          /\ \/ Store.spoiled = [snapshot.spoiled EXCEPT ![id] = request.env]
             \/ Store.spoiled = snapshot.spoiled
          /\ Store.reservations = [snapshot.reservations EXCEPT ![Scope] = r] /\ r.ref = id
      BY <2>2 DEF Adds
    <2> HIDE DEF id, r
    <2>5. \A b \in BallotIds :
            /\ snapshot.accepted[b] # None => Store.accepted[b] = snapshot.accepted[b]
            /\ snapshot.spoiled[b] # None => Store.spoiled[b] = snapshot.spoiled[b]
      BY <2>3, <2>4
    <2>6. \A k \in Held(Store) :
            \/ k \in Held(snapshot) /\ Store.reservations[k] = snapshot.reservations[k]
            \/ Store.reservations[k] = r
      BY <2>3, <2>4 DEF Held
    <2> QED BY <2>1, <2>4, <2>5, <2>6
  <1>2. CASE ~Commit
    <2>1. SameView(Committed, Committed')
      BY <1>2, OthersKeepView
    <2> QED BY <2>1 DEF SameView, Held
  <1> QED BY <1>1, <1>2

LEMMA OneKeyPerLeaf ==
    ASSUME NEW s, Coherent(s), NEW j \in Held(s), NEW k \in Held(s),
           s.reservations[j].batch = s.reservations[k].batch,
           s.reservations[j].leaf = s.reservations[k].leaf
    PROVE  j = k
  <1>1. /\ s.slotOwner[<<s.reservations[j].batch, s.reservations[j].leaf>>] = j
        /\ s.slotOwner[<<s.reservations[k].batch, s.reservations[k].leaf>>] = k
    BY DEF Coherent
  <1>2. <<s.reservations[j].batch, s.reservations[j].leaf>>
            = <<s.reservations[k].batch, s.reservations[k].leaf>>
    OBVIOUS
  <1> QED BY <1>1, <1>2

(* What the committed store holds, the live store holds, and nothing that  *)
(* a transaction in flight writes gets in its way.                         *)
LEMMA LiveStore ==
    ASSUME TypeOK, InFlight, Coherent(Committed)
    PROVE  /\ \A b \in BallotIds :
                 /\ Committed.accepted[b] # None =>
                       accepted[b] = Committed.accepted[b] /\ spoiled[b] = None
                 /\ Committed.spoiled[b] # None =>
                       spoiled[b] = Committed.spoiled[b] /\ accepted[b] = None
           /\ \A k \in Held(Committed) :
                 /\ reservations[k] = Committed.reservations[k]
                 /\ \A j \in Scopes : /\ reservations[j] # None
                                      /\ reservations[j].batch = reservations[k].batch
                                      /\ reservations[j].leaf = reservations[k].leaf
                                      => j = k
  <1>1. CASE phase = "idle"
    <2>1. Committed = Store /\ accepted = Store.accepted /\ spoiled = Store.spoiled
          /\ reservations = Store.reservations
      BY <1>1 DEF Committed, Store
    <2>2. \A b \in BallotIds : accepted[b] = None \/ spoiled[b] = None
      BY <2>1 DEF Coherent
    <2>3. \A j, k \in Held(Store) : /\ reservations[j].batch = reservations[k].batch
                                    /\ reservations[j].leaf = reservations[k].leaf
                                    => j = k
      BY <2>1, OneKeyPerLeaf
    <2> QED BY <2>1, <2>2, <2>3 DEF Held
  <1>2. CASE phase # "idle" /\ ~Wrote("reserved")
    <2>1. ~Wrote("first") /\ ~Wrote("second")
      BY <1>2, WrotePhases DEF TypeOK
    <2>2. Committed = snapshot /\ accepted = snapshot.accepted /\ spoiled = snapshot.spoiled
          /\ reservations = snapshot.reservations
      BY <1>2, <2>1 DEF Committed, InFlight, WritesSoFar
    <2>3. \A b \in BallotIds : accepted[b] = None \/ spoiled[b] = None
      BY <2>2 DEF Coherent
    <2>4. \A j, k \in Held(snapshot) : /\ reservations[j].batch = reservations[k].batch
                                       /\ reservations[j].leaf = reservations[k].leaf
                                       => j = k
      BY <2>2, OneKeyPerLeaf
    <2> QED BY <2>2, <2>3, <2>4 DEF Held
  <1>3. CASE phase # "idle" /\ Wrote("reserved")
    <2> DEFINE l == reservations[Scope].leaf
               r == [batch |-> request.batch, leaf |-> l, ref |-> Id,
                     committed |-> Wrote("leafCommitted")]
    <2>1. /\ Committed = snapshot
          /\ snapshot.accepted \in [BallotIds -> Envelopes \cup {None}]
          /\ snapshot.spoiled \in [BallotIds -> Envelopes \cup {None}]
          /\ snapshot.reservations \in [Scopes -> LeafReservation \cup {None}]
          /\ Scope \in Scopes /\ phase \notin {"idle", "locked"}
      BY <1>3, RequestFields, WrotePhases DEF Committed, ReferenceStore, TypeOK
    <2>2. /\ snapshot.accepted[Id] = None /\ snapshot.spoiled[Id] = None
          /\ snapshot.slotOwner[<<request.batch, l>>] = None
          /\ snapshot.idempotency[Scope] = None
      BY <1>3, <2>1 DEF InFlight, ChecksHold
    <2>3. /\ accepted \in {snapshot.accepted, [snapshot.accepted EXCEPT ![Id] = request.env]}
          /\ spoiled \in {snapshot.spoiled, [snapshot.spoiled EXCEPT ![Id] = request.env]}
          /\ reservations = [snapshot.reservations EXCEPT ![Scope] = r]
      BY <1>3 DEF InFlight, WritesSoFar
    <2>4. r.batch = request.batch /\ r.leaf = l
      OBVIOUS
    <2> HIDE DEF l, r
    <2>5. \A k \in Held(snapshot) :
            /\ snapshot.idempotency[k] # None
            /\ snapshot.slotOwner[<<snapshot.reservations[k].batch,
                                    snapshot.reservations[k].leaf>>] = k
      BY <2>1 DEF Coherent
    <2>6. \A k \in Held(snapshot) : k \in Scopes /\ k # Scope /\ k # None
      BY <2>2, <2>5, NoneAssumption DEF Held
    <2>7. \A b \in BallotIds : snapshot.accepted[b] = None \/ snapshot.spoiled[b] = None
      BY <2>1 DEF Coherent
    <2>8. \A b \in BallotIds :
             /\ snapshot.accepted[b] # None =>
                   accepted[b] = snapshot.accepted[b] /\ spoiled[b] = None
             /\ snapshot.spoiled[b] # None =>
                   spoiled[b] = snapshot.spoiled[b] /\ accepted[b] = None
      BY <2>1, <2>2, <2>3, <2>7
    <2>9. ASSUME NEW k \in Held(snapshot), NEW j \in Scopes, reservations[j] # None,
                 reservations[j].batch = reservations[k].batch,
                 reservations[j].leaf = reservations[k].leaf
          PROVE  j = k
      <3>1. reservations[k] = snapshot.reservations[k]
        BY <2>1, <2>3, <2>6
      <3>2. CASE j = Scope
        <4>1. reservations[j] = r
          BY <2>1, <2>3, <3>2
        <4> QED BY <4>1, <3>1, <2>2, <2>4, <2>5, <2>6, <2>9
      <3>3. CASE j # Scope
        <4>1. reservations[j] = snapshot.reservations[j] /\ j \in Held(snapshot)
          BY <2>1, <2>3, <2>9, <3>3 DEF Held
        <4> QED BY <4>1, <3>1, <2>1, <2>9, OneKeyPerLeaf
      <3> QED BY <3>2, <3>3
    <2>10. \A k \in Held(snapshot) : reservations[k] = snapshot.reservations[k]
      BY <2>1, <2>3, <2>6
    <2> QED BY <2>1, <2>8, <2>9, <2>10
  <1> QED BY <1>1, <1>2, <1>3

(* Steps of submissions and sweeps.                                        *)
LEMMA CastingKeepsSeals ==
    ASSUME Stored, ClosingTypeOK, SealInv, [Next]_vars, UNCHANGED closingVars
    PROVE  SealInv'
  <1>1. UNCHANGED <<step, lists, window, class, openings, tallied, reconciled>>
        /\ Next1' = Next1 /\ Unsealed' = Unsealed
    BY DEF closingVars, Next1, Unsealed
  <1>2. ListsStand'
    BY <1>1, CommittedGrows DEF SealInv, ListsStand, Stored
  <1>3. WindowStands'
    <2> SUFFICES ASSUME step \notin {"gather", "read", "refused"},
                        NEW k \in Held(Committed'), Due(k)'
                 PROVE  /\ Committed'.reservations[k].leaf \in SealedLeaves
                        /\ window[Committed'.reservations[k].leaf] = Committed'.reservations[k].ref
      BY <1>1 DEF WindowStands
    <2> DEFINE ref == Committed'.reservations[k].ref
    <2>1. k \in Scopes /\ k[1] \in {"cast", "challenge"} /\ Committed' \in ReferenceStore
          /\ ref \in BallotIds
      <3>1. TypeOK'
        BY TypeStep DEF Stored
      <3>2. Committed' \in ReferenceStore
        BY <3>1 DEF TypeOK, Committed
      <3>3. Committed'.reservations[k] \in LeafReservation /\ k \in Scopes
        BY <3>2 DEF Held, ReferenceStore
      <3> QED BY <3>2, <3>3 DEF Scopes, Ops, LeafReservation
    <2>2. lists.accepted[ref] # None \/ lists.spoiled[ref] # None
      BY <1>1 DEF Due, ListOf
    <2>3. Committed.accepted[ref] # None \/ Committed.spoiled[ref] # None
      BY <2>1, <2>2 DEF SealInv, ListsStand
    <2>4. k \in Held(Committed) /\ Committed'.reservations[k] = Committed.reservations[k]
      BY <2>3, CommittedGrows DEF Stored
    <2>5. Due(k)
      BY <1>1, <2>4 DEF Due, ListOf
    <2> QED BY <2>4, <2>5 DEF SealInv, WindowStands
  <1>4. ClassStands' /\ ClosingStages' /\ \A l \in SealedLeaves : LeafStands(l)'
    BY <1>1 DEF SealInv, ClassStands, Named, ClosingStages, LeafStands, ListOf, Listed, Matches,
       LeavesOf, Seen
  <1> QED BY <1>2, <1>3, <1>4 DEF SealInv

(* Steps of the closing procedure, while the store stands still.           *)
LEMMA GatherSeals ==
    ASSUME Stored, ClosingTypeOK, SealInv, Gather, UNCHANGED vars
    PROVE  SealInv'
  <1>1. /\ step = "gather" /\ step' = "read" /\ UNCHANGED <<window, class, openings, tallied,
                                                           reconciled, Committed>>
        /\ window = NoOpening /\ openings = NoOpening /\ class = None /\ tallied = {}
        /\ ~reconciled
    BY DEF Gather, SealInv, ClosingStages, ClosingTypeOK, ClassHasLeaf, vars, storeVars,
       ballotVars, leafVars, owedVars, txVars, Committed, Store
  <1>2. lists' = [accepted |-> Committed.accepted, spoiled |-> Committed.spoiled]
    BY DEF Gather, Committed, Store
  <1>3. ListsStand'
    BY <1>1, <1>2 DEF ListsStand
  <1>4. WindowStands' /\ ClassStands' /\ ClosingStages'
    BY <1>1 DEF WindowStands, ClassStands, ClosingStages
  <1>5. \A l \in SealedLeaves : LeafStands(l)'
    BY <1>1 DEF LeafStands, NoOpening
  <1> QED BY <1>3, <1>4, <1>5 DEF SealInv

LEMMA ReadSeals ==
    ASSUME Stored, ClosingTypeOK, SealInv, ReadReservations, UNCHANGED vars
    PROVE  SealInv'
  <1>1. /\ step = "read" /\ UNCHANGED <<lists, class, openings, tallied, reconciled, Committed>>
        /\ ~reconciled
    BY DEF ReadReservations, SealInv, ClosingStages, ClosingTypeOK, ClassHasLeaf, vars, storeVars,
       ballotVars, leafVars, owedVars, txVars, Committed, Store
  <1>0. class = None /\ openings = NoOpening
    BY <1>1 DEF SealInv, ClosingStages, ClosingTypeOK, ClassHasLeaf
  <1>2. step' \in {"refused", "seal"}
    BY DEF ReadReservations
  <1>3. ListsStand'
    BY <1>1 DEF SealInv, ListsStand
  <1>4. ASSUME step' = "seal", NEW k \in Held(Committed), Committed.reservations[k].batch = ClosedBatch
        PROVE  /\ Committed.reservations[k].leaf \in SealedLeaves
               /\ window'[Committed.reservations[k].leaf] = Committed.reservations[k].ref
    <2>1. ~Overflow /\ window' = Window
      BY <1>4 DEF ReadReservations
    <2>2. /\ k \in Scopes /\ reservations[k] = Committed.reservations[k] /\ reservations[k] # None
          /\ reservations[k].committed
          /\ \A j \in Scopes : /\ reservations[j] # None
                               /\ reservations[j].batch = reservations[k].batch
                               /\ reservations[j].leaf = reservations[k].leaf
                               => j = k
      BY LiveStore DEF Stored, Held, Coherent
    <2>3. k \in ReservedLeaves
      BY <1>4, <2>2 DEF ReservedLeaves
    <2>4. reservations[k].leaf \in SealedLeaves
      BY <2>1, <2>3 DEF Overflow
    <2>5. \A j \in ReservedLeaves : reservations[j].leaf = reservations[k].leaf => j = k
      BY <1>4, <2>2 DEF ReservedLeaves
    <2>6. (CHOOSE j \in ReservedLeaves : reservations[j].leaf = reservations[k].leaf) = k
      BY <2>3, <2>5
    <2>7. Window[reservations[k].leaf] = reservations[k].ref
      BY <2>3, <2>4, <2>6 DEF Window
    <2> QED BY <2>1, <2>2, <2>4, <2>7
  <1>5. WindowStands'
    BY <1>1, <1>2, <1>4 DEF WindowStands, Due
  <1>6. ClassStands' /\ ClosingStages'
    BY <1>0, <1>1, <1>2 DEF ClassStands, ClosingStages, SealInv
  <1>7. \A l \in SealedLeaves : LeafStands(l)'
    BY <1>0, <1>1 DEF LeafStands, NoOpening
  <1> QED BY <1>3, <1>5, <1>6, <1>7 DEF SealInv

(* The other steps take neither the lists nor the window.                  *)
LEMMA FixedLists ==
    ASSUME Stored, SealInv, UNCHANGED vars, UNCHANGED <<lists, window>>,
           step \notin {"gather", "read"}, step = "refused" => step' = "refused",
           step' # "gather", step' # "read"
    PROVE  ListsStand' /\ WindowStands'
  <1>1. Committed' = Committed
    BY DEF vars, storeVars, ballotVars, leafVars, owedVars, txVars, Committed, Store
  <1> QED BY <1>1 DEF SealInv, ListsStand, WindowStands, Due, ListOf

(* A listed ballot is found under its class, with its bytes.               *)
LEMMA ListedIsLive ==
    ASSUME Stored, ClosingTypeOK, SealInv, step # "gather", NEW b \in BallotIds
    PROVE  /\ lists.accepted[b] # None => accepted[b] = lists.accepted[b] /\ spoiled[b] = None
           /\ lists.spoiled[b] # None => spoiled[b] = lists.spoiled[b] /\ accepted[b] = None
  BY LiveStore DEF Stored, SealInv, ListsStand

LEMMA CoverSeals ==
    ASSUME Stored, ClosingTypeOK, SealInv, SealCover, UNCHANGED vars
    PROVE  SealInv'
  <1>1. /\ step = "seal" /\ UNCHANGED <<step, lists, window, class, tallied, reconciled>>
        /\ window[Next1] = None /\ Next1 \in SealedLeaves
        /\ openings' = [openings EXCEPT ![Next1] = Cover]
        /\ class = None
    BY NextLeaf DEF SealCover, ClosingTypeOK, ClassHasLeaf
  <1>2. ListsStand' /\ WindowStands'
    BY <1>1, FixedLists
  <1>3. ClassStands' /\ ClosingStages'
    BY <1>1 DEF ClassStands, ClosingStages, SealInv
  <1>4. \A l \in SealedLeaves : LeafStands(l)'
    BY <1>1 DEF SealInv, LeafStands, ClosingTypeOK, Named, ListOf
  <1> QED BY <1>2, <1>3, <1>4 DEF SealInv

LEMMA ClassifySeals ==
    ASSUME Stored, ClosingTypeOK, SealInv, Classify, UNCHANGED vars
    PROVE  SealInv'
  <1>1. /\ step = "seal" /\ UNCHANGED <<step, lists, window, openings, tallied, reconciled>>
        /\ window[Next1] \in BallotIds /\ Next1' = Next1
        /\ class' = IF accepted[window[Next1]] # None THEN "cast" ELSE "challenge"
    BY NextLeaf DEF Classify, ClosingTypeOK, Next1, Unsealed
  <1>2. ListsStand' /\ WindowStands'
    BY <1>1, FixedLists
  <1>3. Named(window[Next1], class)'
    BY <1>1, ListedIsLive DEF Named
  <1>4. ClassStands' /\ ClosingStages'
    BY <1>1, <1>3 DEF ClassStands, ClosingStages, SealInv
  <1>5. \A l \in SealedLeaves : LeafStands(l)'
    BY <1>1 DEF SealInv, LeafStands, Named, ListOf
  <1> QED BY <1>2, <1>4, <1>5 DEF SealInv

LEMMA LeafSeals ==
    ASSUME Stored, ClosingTypeOK, SealInv, SealLeaf, UNCHANGED vars
    PROVE  SealInv'
  <1> DEFINE ref == window[Next1]
             digest == IF class = "cast" THEN accepted[ref] ELSE spoiled[ref]
             opening == [class |-> class, ref |-> ref, digest |-> digest]
  <1>1. /\ step = "seal" /\ UNCHANGED <<lists, window, tallied, reconciled>> /\ class' = None
        /\ Next1 \in SealedLeaves /\ class \in {"cast", "challenge"} /\ class # None
        /\ \/ step' = "refused" /\ UNCHANGED openings
           \/ step' = step /\ openings' = [openings EXCEPT ![Next1] = opening]
    BY NextLeaf DEF SealLeaf, ClosingTypeOK
  <1>2. ref \in BallotIds /\ Named(ref, class) /\ ref # None
    BY <1>1, NoneAssumption DEF SealInv, ClassStands, ClosingTypeOK, ClassHasLeaf
  <1>3. ListOf(class)[ref] \in {None, digest}
    BY <1>1, <1>2, ListedIsLive DEF ListOf
  <1>4. opening.class = class /\ opening.ref = ref /\ opening.digest = digest
    OBVIOUS
  <1> HIDE DEF opening, digest
  <1>5. ListsStand' /\ WindowStands'
    BY <1>1, FixedLists
  <1>6. ClassStands' /\ ClosingStages'
    <2>1. tallied' # {} => step' # "gather" /\ tallied' = Listed(lists.accepted)'
      BY <1>1 DEF SealInv, ClosingStages, Listed
    <2>2. ~reconciled'
      BY <1>1 DEF SealInv, ClosingStages
    <2> QED BY <1>1, <2>1, <2>2 DEF ClassStands, ClosingStages
  <1>7. ASSUME NEW l \in SealedLeaves PROVE LeafStands(l)'
    <2>1. CASE openings'[l] = openings[l]
      BY <1>1, <2>1 DEF SealInv, LeafStands, Named, ListOf
    <2>2. CASE openings'[l] # openings[l]
      <3>1. l = Next1 /\ openings'[l] = opening
        BY <1>1, <2>2 DEF ClosingTypeOK
      <3> QED BY <1>1, <1>2, <1>3, <1>4, <3>1 DEF LeafStands, Named, ListOf
    <2> QED BY <2>1, <2>2
  <1> QED BY <1>5, <1>6, <1>7 DEF SealInv

(* What follows sealing leaves the leaves alone.                           *)
LEMMA BoardKeepsSeals ==
    ASSUME Stored, ClosingTypeOK, SealInv, UNCHANGED vars,
           \/ Sealed \/ (\E type \in EntryTypes \ {"closed"} : Publish(type))
           \/ PublishCheckpoint \/ Close \/ TallyAccepted \/ Reconcile
    PROVE  SealInv'
  <1>1. /\ UNCHANGED <<lists, window, class, openings>>
        /\ step \notin {"gather", "read", "refused"} /\ step' \notin {"gather", "read", "seal"}
        /\ class = None /\ ~reconciled
    BY FollowingSteps DEF Sealed, Publish, PublishCheckpoint, Close, TallyAccepted, Reconcile,
       EntryTypes, ClosingTypeOK, ClassHasLeaf, SealInv, ClosingStages
  <1>2. Unsealed = {} /\ Unsealed' = Unsealed
    BY <1>1 DEF Sealed, Publish, PublishCheckpoint, Close, TallyAccepted, Reconcile,
       EntryTypes, SealInv, ClosingStages, Unsealed
  <1>3. ListsStand' /\ WindowStands'
    BY <1>1, FixedLists
  <1>4. tallied' # {} => tallied' = Listed(lists.accepted)'
    BY <1>1 DEF Sealed, Publish, PublishCheckpoint, Close, TallyAccepted, Reconcile, SealInv,
       ClosingStages, Listed
  <1>5. reconciled' => step' = "done" /\ Matches'
    <2>1. reconciled' => Reconcile
      BY <1>1 DEF Sealed, Publish, PublishCheckpoint, Close, TallyAccepted, Reconcile
    <2>2. Matches' = Matches
      BY <1>1 DEF Matches, Seen, LeavesOf, Listed
    <2> QED BY <1>1, <2>1, <2>2, FollowingSteps DEF Reconcile
  <1>6. ClassStands' /\ ClosingStages'
    BY <1>1, <1>2, <1>4, <1>5 DEF ClassStands, ClosingStages
  <1>7. \A l \in SealedLeaves : LeafStands(l)'
    BY <1>1 DEF SealInv, LeafStands, Named, ListOf
  <1> QED BY <1>3, <1>6, <1>7 DEF SealInv

LEMMA AlwaysSealed == PublicationSpec => []SealInv
  <1>1. PublicationInit => SealInv
    <2> SUFFICES ASSUME ClosingInit PROVE SealInv
      BY DEF PublicationInit
    <2> QED BY DEF ClosingInit, SealInv, ListsStand, WindowStands, ClassStands, ClosingStages,
               LeafStands, NoOpening
  <1>2. ASSUME Stored, ClosingTypeOK, SealInv, [PublicationNext]_<<vars, closingVars>>
        PROVE  SealInv'
    <2>1. CASE [Next]_vars /\ UNCHANGED closingVars
      BY <1>2, <2>1, CastingKeepsSeals
    <2>2. CASE CloseAndBuild /\ UNCHANGED vars
      BY <1>2, <2>2, GatherSeals, ReadSeals, CoverSeals, ClassifySeals, LeafSeals,
         BoardKeepsSeals DEF CloseAndBuild
    <2> QED BY <1>2, <2>1, <2>2 DEF PublicationNext
  <1> QED BY <1>1, <1>2, AlwaysStored, AlwaysTyped, PTL DEF PublicationSpec

(* A ballot whose submission had returned before closing began is sealed   *)
(* at its own leaf, under its class and with its bytes, although           *)
(* seal_batch takes no lock.                                               *)
THEOREM ReturnedAreSealed == PublicationSpec => []ReturnedBallotsAreSealed
  <1>1. Stored /\ ClosingTypeOK /\ SealInv => ReturnedBallotsAreSealed
    <2> SUFFICES ASSUME Stored, ClosingTypeOK, SealInv,
                        step \notin {"gather", "read", "seal", "refused"},
                        NEW k \in Held(Committed), Due(k)
                 PROVE  LET r == Committed.reservations[k] IN
                        openings[r.leaf] = [class |-> k[1], ref |-> r.ref,
                                            digest |-> ListOf(k[1])[r.ref]]
      BY DEF ReturnedBallotsAreSealed, Due, ListOf
    <2> DEFINE leaf == Committed.reservations[k].leaf
               ref == Committed.reservations[k].ref
    <2>1. /\ leaf \in SealedLeaves /\ window[leaf] = ref /\ k[1] \in {"cast", "challenge"}
          /\ ref \in BallotIds
      <3>1. Committed \in ReferenceStore
        BY DEF Stored, TypeOK, Committed
      <3>2. Committed.reservations[k] \in LeafReservation /\ k \in Scopes
        BY <3>1 DEF Held, ReferenceStore
      <3> QED BY <3>2 DEF SealInv, WindowStands, Scopes, Ops, LeafReservation
    <2>2. openings[leaf] # None /\ ref # None
      BY <2>1, NoneAssumption DEF SealInv, ClosingStages, Unsealed
    <2>3. ListOf(k[1])[ref] # None
      BY DEF Due
    <2> HIDE DEF leaf, ref
    <2>4. /\ openings[leaf].class \in {"cast", "challenge"} /\ openings[leaf].ref = ref
          /\ Named(ref, openings[leaf].class)
          /\ ListOf(openings[leaf].class)[ref] \in {None, openings[leaf].digest}
      BY <2>1, <2>2 DEF SealInv, LeafStands
    <2>5. openings[leaf].class = k[1]
      BY <2>1, <2>3, <2>4 DEF Named, ListOf
    <2>6. openings[leaf] \in [class : {"cast", "challenge"}, ref : BallotIds, digest : Envelopes]
      BY <2>1, <2>2, <2>4 DEF ClosingTypeOK, LeafOpening, Cover
    <2>7. openings[leaf] = [class |-> k[1], ref |-> ref, digest |-> ListOf(k[1])[ref]]
      BY <2>3, <2>4, <2>5, <2>6
    <2> QED BY <2>7 DEF leaf, ref
  <1> QED BY <1>1, AlwaysStored, AlwaysTyped, AlwaysSealed, PTL

(* A store that counts as many leaves as it lists ballots.                 *)
LEMMA AllListed ==
    ASSUME Stored, ClosingTypeOK, SealInv, reconciled
    PROVE  /\ \A l \in SealedLeaves \ LeavesOf("cover") :
                 /\ openings[l].class \in {"cast", "challenge"}
                 /\ openings[l].ref \in BallotIds
                 /\ Named(openings[l].ref, openings[l].class)
                 /\ ListOf(openings[l].class)[openings[l].ref] \in {None, openings[l].digest}
           /\ Seen = Listed(lists.accepted) \cup Listed(lists.spoiled)
           /\ \A l, m \in SealedLeaves \ LeavesOf("cover") :
                 openings[l].ref = openings[m].ref => l = m
  <1> DEFINE leaves == SealedLeaves \ LeavesOf("cover")
             cast == LeavesOf("cast")
             challenge == LeavesOf("challenge")
             counted == Listed(lists.accepted)
             opened == Listed(lists.spoiled)
             ref == [l \in leaves |-> openings[l].ref]
  <1>1. ASSUME NEW l \in leaves
        PROVE  /\ openings[l].class \in {"cast", "challenge"}
               /\ openings[l].ref \in BallotIds
               /\ Named(openings[l].ref, openings[l].class)
               /\ ListOf(openings[l].class)[openings[l].ref] \in {None, openings[l].digest}
    <2>1. openings[l] # None /\ openings[l].class # "cover" /\ l \in SealedLeaves
      BY DEF LeavesOf, SealInv, ClosingStages, Unsealed
    <2>2. Cover.class = "cover"
      BY DEF Cover
    <2>3. window[l] # None /\ window[l] \in BallotIds
      BY <2>1, <2>2 DEF SealInv, LeafStands, ClosingTypeOK
    <2> QED BY <2>1, <2>3 DEF SealInv, LeafStands
  <1>2. leaves = cast \cup challenge /\ cast \cap challenge = {}
    BY <1>1 DEF LeavesOf
  <1>3. counted \cap opened = {}
    <2>1. step # "gather"
      BY DEF SealInv, ClosingStages
    <2> QED BY <2>1, ListedIsLive DEF Listed
  <1>4. /\ Cardinality(Seen) = Cardinality(leaves)
        /\ Cardinality(cast) = Cardinality(counted) /\ Cardinality(challenge) = Cardinality(opened)
        /\ counted \cup opened \subseteq Seen
    BY DEF SealInv, ClosingStages, Matches
  <1>5. IsFiniteSet(leaves) /\ IsFiniteSet(cast) /\ IsFiniteSet(challenge)
    <2>1. 0 \in Int /\ BatchCapacity - 1 \in Int
      BY PublicationAssumption
    <2>2. IsFiniteSet(0 .. (BatchCapacity - 1))
      BY <2>1, FS_Interval
    <2>3. IsFiniteSet(SealedLeaves)
      BY <2>2 DEF SealedLeaves
    <2>4. leaves \in SUBSET SealedLeaves /\ cast \in SUBSET SealedLeaves
          /\ challenge \in SUBSET SealedLeaves
      BY DEF LeavesOf
    <2> HIDE DEF leaves, cast, challenge
    <2> QED BY <2>3, <2>4, FS_Subset
  <1>6. Seen = {ref[l] : l \in leaves} /\ ref \in [leaves -> Seen]
    BY DEF Seen
  <1>7. ref \in Surjection(leaves, Seen)
    BY <1>6 DEF Surjection
  <1>8. \A l \in leaves : ref[l] = openings[l].ref
    OBVIOUS
  <1> HIDE DEF leaves, cast, challenge, counted, opened, ref
  <1>9. IsFiniteSet(Seen) /\ ref \in Injection(leaves, Seen)
    BY <1>4, <1>5, <1>7, FS_Surjection
  <1>10. \A l, m \in leaves : openings[l].ref = openings[m].ref => l = m
    BY <1>8, <1>9 DEF Injection, IsInjective
  <1>11. counted \cup opened = Seen
    <2>1. IsFiniteSet(counted) /\ IsFiniteSet(opened) /\ IsFiniteSet(counted \cup opened)
      <3>1. /\ counted \in SUBSET Seen /\ opened \in SUBSET Seen
            /\ (counted \cup opened) \in SUBSET Seen
        BY <1>4
      <3> QED BY <3>1, <1>9, FS_Subset
    <2>2. Cardinality(counted \cup opened) = Cardinality(counted) + Cardinality(opened)
      <3>1. Cardinality(counted \cup opened)
              = Cardinality(counted) + Cardinality(opened) - Cardinality(counted \cap opened)
        BY <2>1, FS_Union
      <3>2. Cardinality(counted \cap opened) = 0
        BY <1>3, FS_EmptySet
      <3>3. Cardinality(counted) \in Nat /\ Cardinality(opened) \in Nat
        BY <2>1, FS_CardinalityType
      <3> QED BY <3>1, <3>2, <3>3
    <2>3. Cardinality(leaves) = Cardinality(cast) + Cardinality(challenge)
      <3>1. Cardinality(cast \cup challenge)
              = Cardinality(cast) + Cardinality(challenge) - Cardinality(cast \cap challenge)
        BY <1>5, FS_Union
      <3>2. Cardinality(cast \cap challenge) = 0
        BY <1>2, FS_EmptySet
      <3>3. Cardinality(cast) \in Nat /\ Cardinality(challenge) \in Nat
        BY <1>5, FS_CardinalityType
      <3> QED BY <1>2, <3>1, <3>2, <3>3
    <2>4. Cardinality(Seen) = Cardinality(counted \cup opened)
      BY <2>2, <2>3, <1>4
    <2>5. (counted \cup opened) \in SUBSET Seen
      BY <1>4
    <2> QED BY <1>9, <2>4, <2>5, FS_Subset
  <1> QED BY <1>1, <1>10, <1>11 DEF leaves, counted, opened

LEMMA RecordExact ==
    ASSUME Stored, ClosingTypeOK, SealInv
    PROVE  ReconciledRecordIsExact
  <1> SUFFICES ASSUME reconciled PROVE ReconciledRecordIsExact
    BY DEF ReconciledRecordIsExact
  <1> DEFINE leaves == SealedLeaves \ LeavesOf("cover")
  <1>0. \A kind \in {"cast", "challenge"} : \A l \in LeavesOf(kind) :
            l \in leaves /\ openings[l].class = kind
    BY DEF LeavesOf
  <1>1. ASSUME NEW b \in BallotIds, NEW kind \in {"cast", "challenge"}
        PROVE  Cardinality({l \in LeavesOf(kind) : openings[l].ref = b})
                  = IF ListOf(kind)[b] = None THEN 0 ELSE 1
    <2> DEFINE mine == {l \in LeavesOf(kind) : openings[l].ref = b}
    <2>1. CASE ListOf(kind)[b] = None
      <3>1. \A l \in LeavesOf(kind) : openings[l].ref # b
        <4> SUFFICES ASSUME NEW l \in LeavesOf(kind), openings[l].ref = b PROVE FALSE
          OBVIOUS
        <4>1. b \in Seen /\ Named(b, kind)
          BY <1>0, AllListed DEF Seen
        <4>2. lists.accepted[b] # None \/ lists.spoiled[b] # None
          BY <4>1, AllListed DEF Listed
        <4> QED BY <2>1, <4>1, <4>2 DEF Named, ListOf
      <3>2. mine = {}
        BY <3>1
      <3> QED BY <2>1, <3>2, FS_EmptySet
    <2>2. CASE ListOf(kind)[b] # None
      <3>1. b \in Seen
        BY <2>2, AllListed DEF Listed, ListOf
      <3>2. PICK l \in leaves : openings[l].ref = b
        BY <3>1 DEF Seen
      <3>3. openings[l].class \in {"cast", "challenge"} /\ Named(b, openings[l].class)
        BY <3>2, AllListed
      <3>4. l \in LeavesOf(kind)
        BY <2>2, <3>2, <3>3 DEF Named, ListOf, LeavesOf
      <3>5. \A m \in LeavesOf(kind) : openings[m].ref = b => m = l
        BY <1>0, <3>2, AllListed
      <3>6. mine = {l}
        BY <3>2, <3>4, <3>5
      <3> QED BY <2>2, <3>6, FS_Singleton
    <2> QED BY <2>1, <2>2
  <1>2. ASSUME NEW kind \in {"cast", "challenge"}, NEW l \in LeavesOf(kind)
        PROVE  openings[l].digest = ListOf(kind)[openings[l].ref]
    <2> DEFINE b == openings[l].ref
    <2>1. /\ b \in Seen /\ Named(b, kind) /\ ListOf(kind)[b] \in {None, openings[l].digest}
      BY <1>0, <1>2, AllListed DEF Seen
    <2>2. lists.accepted[b] # None \/ lists.spoiled[b] # None
      BY <2>1, AllListed DEF Listed
    <2> QED BY <1>2, <2>1, <2>2 DEF Named, ListOf
  <1>3. \A l \in LeavesOf("cast") : openings[l].digest = lists.accepted[openings[l].ref]
    BY <1>2 DEF ListOf
  <1>4. \A l \in LeavesOf("challenge") : openings[l].digest = lists.spoiled[openings[l].ref]
    BY <1>2 DEF ListOf
  <1> QED BY <1>1, <1>3, <1>4 DEF ReconciledRecordIsExact, ListOf

(* A transaction in flight has consumed at most the capability it spends.  *)
LEMMA LiveSpent ==
    ASSUME TypeOK, InFlight
    PROVE  /\ Spent(Committed.continuations) \subseteq Spent(continuations)
           /\ Spent(continuations) \subseteq Spent(Committed.continuations) \cup {request.cap}
  <1>1. CASE phase = "idle"
    BY <1>1 DEF Committed, Store
  <1>2. CASE phase # "idle"
    <2>1. snapshot.continuations \in [Capabilities -> ContinuationState]
      BY <1>2, RequestFields DEF ReferenceStore
    <2>2. continuations \in {snapshot.continuations,
              [snapshot.continuations EXCEPT ![request.cap] = Consumed(@)],
              [snapshot.continuations EXCEPT ![request.cap] = ChallengeSpent(@)]}
      BY <1>2 DEF InFlight, WritesSoFar
    <2>3. Committed = snapshot
      BY <1>2 DEF Committed
    <2>4. CASE continuations = snapshot.continuations
      BY <2>3, <2>4
    <2>5. CASE continuations = [snapshot.continuations EXCEPT ![request.cap] = Consumed(@)]
      BY <2>1, <2>3, <2>5 DEF Spent, Consumed
    <2>6. CASE continuations = [snapshot.continuations EXCEPT ![request.cap] = ChallengeSpent(@)]
      BY <2>1, <2>3, <2>6 DEF Spent, ChallengeSpent, ContinuationState
    <2> QED BY <2>2, <2>4, <2>5, <2>6
  <1> QED BY <1>1, <1>2

LEMMA CountedPaid ==
    ASSUME Stored, ClosingTypeOK, SealInv, Paid(Committed)
    PROVE  CountedBallotsArePaidFor
  <1>1. tallied \subseteq Accepted(Committed) /\ \A b \in tallied : spoiled[b] = None
    <2> SUFFICES ASSUME NEW b \in tallied
                 PROVE  b \in Accepted(Committed) /\ spoiled[b] = None
      OBVIOUS
    <2>1. b \in BallotIds /\ step # "gather" /\ lists.accepted[b] # None
      BY DEF SealInv, ClosingStages, ClosingTypeOK, Listed
    <2> QED BY <2>1, ListedIsLive DEF SealInv, ListsStand, Accepted
  <1> DEFINE old == Spent(Committed.continuations)
             new == Spent(continuations)
  <1>2. /\ IsFiniteSet(Accepted(Committed)) /\ IsFiniteSet(old)
        /\ Cardinality(Accepted(Committed)) = Cardinality(old)
    BY DEF Paid
  <1>3. old \subseteq new /\ new \subseteq old \cup {request.cap}
    BY LiveSpent DEF Stored
  <1> HIDE DEF old, new
  <1>4. IsFiniteSet(old \cup {request.cap})
    BY <1>2, FS_AddElement
  <1>5. IsFiniteSet(new) /\ Cardinality(old) <= Cardinality(new)
    BY <1>3, <1>4, NoFewer
  <1>6. Cardinality(tallied) <= Cardinality(Accepted(Committed))
    BY <1>1, <1>2, NoFewer
  <1>7. Cardinality(tallied) \in Nat /\ Cardinality(old) \in Nat /\ Cardinality(new) \in Nat
    BY <1>1, <1>2, <1>3, <1>5, NoFewer
  <1>8. Cardinality(tallied) <= Cardinality(new)
    BY <1>2, <1>5, <1>6, <1>7
  <1> QED BY <1>1, <1>8 DEF CountedBallotsArePaidFor, new, Spent

(* What reconciles is the accepted and the challenged ballots, each at one *)
(* leaf of its class and with its bytes, and what is counted was paid for, *)
(* whatever the submissions do while the record is built.                  *)
THEOREM CountIsExact == PublicationSpec => []CountIsExactAndPaidFor
  <1>1. Spec => []Paid(Committed)
    BY InitPaid, NextPaid, TypeCorrect, TransactionIsolated, CapabilitiesExhaust, PTL DEF Spec
  <1>2. Stored /\ ClosingTypeOK /\ SealInv /\ Paid(Committed) => CountIsExactAndPaidFor
    BY RecordExact, CountedPaid DEF CountIsExactAndPaidFor
  <1> QED BY <1>1, <1>2, ClosingKeepsCasting, AlwaysStored, AlwaysTyped, AlwaysSealed, PTL

(***************************************************************************)
(* The closing procedure implements the one instant of ElectionResult      *)
(***************************************************************************)

(* Commits take no committed reservation back, nor move it.                *)
LEMMA HeldStay ==
    ASSUME TypeOK, InFlight, Coherent(Committed), [Next]_vars
    PROVE  \A k \in Held(Committed) :
              /\ k \in Held(Committed')
              /\ Committed'.reservations[k] = Committed.reservations[k]
  <1>1. CASE Commit
    <2>1. Committed = snapshot /\ Committed' = Store /\ phase = "recorded"
      BY <1>1 DEF Commit, Leave, Store, storeVars, ballotVars, leafVars, owedVars, Committed
    <2>2. PICK l \in CandidateSlots(request.op) :
            Adds(snapshot, Store, Scope, request.env, request.batch, l)
      BY <2>1, CommitWrites
    <2>3. snapshot.reservations \in [Scopes -> LeafReservation \cup {None}]
      BY <2>1, RequestFields DEF ReferenceStore
    <2>4. /\ snapshot.idempotency[Scope] = None
          /\ Store.reservations = [snapshot.reservations EXCEPT ![Scope] =
                [batch |-> request.batch, leaf |-> l, ref |-> BallotIdOf[request.env],
                 committed |-> TRUE]]
      BY <2>2 DEF Adds
    <2>5. \A k \in Held(snapshot) : k # Scope /\ k \in Scopes
      BY <2>1, <2>4 DEF Coherent, Held
    <2>6. \A k \in Held(snapshot) : Store.reservations[k] = snapshot.reservations[k]
      BY <2>3, <2>4, <2>5
    <2> QED BY <2>1, <2>5, <2>6 DEF Held
  <1>2. CASE ~Commit
    <2>1. SameView(Committed, Committed')
      BY <1>2, OthersKeepView
    <2> QED BY <2>1 DEF SameView, Held
  <1> QED BY <1>1, <1>2

(* A reservation seen without the lock, of a ballot that is committed, is  *)
(* itself committed.                                                       *)
LEMMA SeenIsHeld ==
    ASSUME TypeOK, InFlight, NEW k \in Scopes, reservations[k] # None,
           \/ Committed.accepted[reservations[k].ref] # None
           \/ Committed.spoiled[reservations[k].ref] # None
    PROVE  k \in Held(Committed) /\ Committed.reservations[k] = reservations[k]
  <1>1. CASE phase = "idle"
    BY <1>1 DEF Committed, Store, Held
  <1>2. CASE phase # "idle" /\ ~Wrote("reserved")
    BY <1>2 DEF Committed, InFlight, WritesSoFar, Held
  <1>3. CASE phase # "idle" /\ Wrote("reserved")
    <2>1. /\ Committed = snapshot
          /\ snapshot.reservations \in [Scopes -> LeafReservation \cup {None}]
          /\ Scope \in Scopes
      BY <1>3, RequestFields DEF Committed, ReferenceStore
    <2>2. snapshot.accepted[Id] = None /\ snapshot.spoiled[Id] = None
      BY <1>3 DEF InFlight, ChecksHold
    <2>3. reservations = [snapshot.reservations EXCEPT ![Scope] =
                [batch |-> request.batch, leaf |-> reservations[Scope].leaf, ref |-> Id,
                 committed |-> Wrote("leafCommitted")]]
      BY <1>3 DEF InFlight, WritesSoFar
    <2>4. reservations[Scope].ref = Id
      BY <2>1, <2>3
    <2>5. k # Scope
      BY <2>1, <2>2, <2>4
    <2>6. reservations[k] = snapshot.reservations[k]
      BY <2>1, <2>3, <2>5
    <2> QED BY <2>1, <2>6 DEF Held
  <1> QED BY <1>1, <1>2, <1>3

(* The roll of store s with the lists a and c.                             *)
RollOf(s, a, c) ==
    {[kind |-> "cast", leaf |-> LeafOf(s, b), envelope |-> a[b]] : b \in Listed(a)}
    \cup {[kind |-> "challenge", leaf |-> LeafOf(s, b), envelope |-> c[b]] : b \in Listed(c)}

(* A committed ballot is stored under the id its bytes name, and is the    *)
(* answer of one key.                                                      *)
LEMMA BallotsAreAnswers ==
    ASSUME NEW s \in ReferenceStore, Coherent(s), Verbatim(s), NEW b \in BallotIds
    PROVE  /\ s.accepted[b] # None =>
                 /\ BallotIdOf[s.accepted[b]] = b
                 /\ \E k \in Scopes : k[1] = "cast" /\ s.idempotency[k] = s.accepted[b]
           /\ s.spoiled[b] # None =>
                 /\ BallotIdOf[s.spoiled[b]] = b
                 /\ \E k \in Scopes : k[1] = "challenge" /\ s.idempotency[k] = s.spoiled[b]
  <1>1. ASSUME s.accepted[b] # None \/ s.spoiled[b] # None
        PROVE  \E k \in Scopes : /\ k[1] = BoxOf(s, b) /\ k[1] \in {"cast", "challenge"}
                                 /\ s.idempotency[k] # None /\ BallotIdOf[s.idempotency[k]] = b
                                 /\ (IF k[1] = "cast" THEN s.accepted[b] ELSE s.spoiled[b])
                                       = s.idempotency[k]
    <2>1. BoxOf(s, b) # None
      BY <1>1, NoneAssumption DEF BoxOf, Ops
    <2>2. PICK k \in Held(s) : s.reservations[k].ref = b
      BY <2>1 DEF Coherent
    <2>3. /\ k \in Scopes /\ k[1] = BoxOf(s, b) /\ s.idempotency[k] # None
          /\ BallotIdOf[s.idempotency[k]] = b
      BY <2>2 DEF Coherent, Held
    <2> QED BY <2>3 DEF Verbatim, Scopes, Ops
  <1>2. s.accepted[b] = None \/ s.spoiled[b] = None
    BY DEF Coherent
  <1>3. "cast" # "challenge" /\ BoxOf(s, b) = (IF s.accepted[b] # None THEN "cast"
            ELSE IF s.spoiled[b] # None THEN "challenge" ELSE None)
    BY DEF BoxOf
  <1> QED BY <1>1, <1>2, <1>3

(* An answer is a committed ballot.                                        *)
LEMMA AnswersAreBallots ==
    ASSUME NEW s \in ReferenceStore, Verbatim(s), NEW k \in Scopes, s.idempotency[k] # None
    PROVE  /\ BallotIdOf[s.idempotency[k]] \in BallotIds
           /\ \/ k[1] = "cast" /\ s.accepted[BallotIdOf[s.idempotency[k]]] = s.idempotency[k]
              \/ k[1] = "challenge" /\ s.spoiled[BallotIdOf[s.idempotency[k]]] = s.idempotency[k]
  <1>1. s.idempotency[k] \in Envelopes /\ k[1] \in {"cast", "challenge"}
    BY DEF ReferenceStore, Scopes, Ops
  <1> QED BY <1>1, CastingAssumption DEF Verbatim

AnswersOf(s) ==
    {[kind |-> k[1], leaf |-> LeafOf(s, BallotIdOf[s.idempotency[k]]),
      envelope |-> s.idempotency[k]] : k \in {j \in Scopes : s.idempotency[j] # None}}

(* What clients have been answered is the ballots of the two boxes.        *)
LEMMA AnsweredIsListed ==
    ASSUME NEW s \in ReferenceStore, Coherent(s), Verbatim(s)
    PROVE  AnswersOf(s) = RollOf(s, s.accepted, s.spoiled)
  <1>1. ASSUME NEW k \in Scopes, s.idempotency[k] # None
        PROVE  [kind |-> k[1], leaf |-> LeafOf(s, BallotIdOf[s.idempotency[k]]),
                envelope |-> s.idempotency[k]] \in RollOf(s, s.accepted, s.spoiled)
    <2> DEFINE b == BallotIdOf[s.idempotency[k]]
    <2>1. /\ b \in BallotIds
          /\ \/ k[1] = "cast" /\ s.accepted[b] = s.idempotency[k]
             \/ k[1] = "challenge" /\ s.spoiled[b] = s.idempotency[k]
      BY <1>1, AnswersAreBallots
    <2> HIDE DEF b
    <2>2. CASE k[1] = "cast" /\ s.accepted[b] = s.idempotency[k]
      <3>1. b \in Listed(s.accepted)
        BY <1>1, <2>1, <2>2 DEF Listed
      <3>2. [kind |-> k[1], leaf |-> LeafOf(s, b), envelope |-> s.idempotency[k]]
              = [kind |-> "cast", leaf |-> LeafOf(s, b), envelope |-> s.accepted[b]]
        BY <2>2
      <3>3. [kind |-> k[1], leaf |-> LeafOf(s, b), envelope |-> s.idempotency[k]]
              \in RollOf(s, s.accepted, s.spoiled)
        BY <3>1, <3>2 DEF RollOf
      <3> QED BY <3>3 DEF b
    <2>3. CASE k[1] = "challenge" /\ s.spoiled[b] = s.idempotency[k]
      <3>1. b \in Listed(s.spoiled)
        BY <1>1, <2>1, <2>3 DEF Listed
      <3>2. [kind |-> k[1], leaf |-> LeafOf(s, b), envelope |-> s.idempotency[k]]
              = [kind |-> "challenge", leaf |-> LeafOf(s, b), envelope |-> s.spoiled[b]]
        BY <2>3
      <3>3. [kind |-> k[1], leaf |-> LeafOf(s, b), envelope |-> s.idempotency[k]]
              \in RollOf(s, s.accepted, s.spoiled)
        BY <3>1, <3>2 DEF RollOf
      <3> QED BY <3>3 DEF b
    <2> QED BY <2>1, <2>2, <2>3
  <1>2. ASSUME NEW b \in Listed(s.accepted)
        PROVE  [kind |-> "cast", leaf |-> LeafOf(s, b), envelope |-> s.accepted[b]]
                  \in AnswersOf(s)
    <2>1. /\ s.accepted[b] # None /\ BallotIdOf[s.accepted[b]] = b
          /\ \E k \in Scopes : k[1] = "cast" /\ s.idempotency[k] = s.accepted[b]
      BY BallotsAreAnswers DEF Listed
    <2> QED BY <2>1 DEF AnswersOf
  <1>3. ASSUME NEW b \in Listed(s.spoiled)
        PROVE  [kind |-> "challenge", leaf |-> LeafOf(s, b), envelope |-> s.spoiled[b]]
                  \in AnswersOf(s)
    <2>1. /\ s.spoiled[b] # None /\ BallotIdOf[s.spoiled[b]] = b
          /\ \E k \in Scopes : k[1] = "challenge" /\ s.idempotency[k] = s.spoiled[b]
      BY BallotsAreAnswers DEF Listed
    <2> QED BY <2>1 DEF AnswersOf
  <1>4. AnswersOf(s) \subseteq RollOf(s, s.accepted, s.spoiled)
    BY <1>1 DEF AnswersOf
  <1>5. RollOf(s, s.accepted, s.spoiled) \subseteq AnswersOf(s)
    BY <1>2, <1>3 DEF RollOf
  <1> QED BY <1>4, <1>5

(***************************************************************************)
(* What ties the lists and the leaves read to the store                    *)
(***************************************************************************)

(* A leaf read for a listed ballot is the leaf the ballot holds: what was  *)
(* read from a transaction that rolled back belongs to no listed ballot.   *)
LeafHeld(l) ==
    window[l] # None /\ (lists.accepted[window[l]] # None \/ lists.spoiled[window[l]] # None)
    => \E k \in Held(Committed) :
          /\ Committed.reservations[k].batch = ClosedBatch
          /\ Committed.reservations[k].leaf = l
          /\ Committed.reservations[k].ref = window[l]

RollInv ==
    /\ step = "gather" => lists = [accepted |-> NoBallot, spoiled |-> NoBallot]
    /\ step # "gather" => \A b \in Listed(lists.accepted) : BallotIdOf[lists.accepted[b]] = b
    /\ step \notin {"gather", "read", "refused"} => \A l \in SealedLeaves : LeafHeld(l)
    /\ step \in {"reconcile", "done"} => tallied = Listed(lists.accepted)

LEMMA CastingKeepsRollInv ==
    ASSUME Stored, RollInv, [Next]_vars, UNCHANGED closingVars
    PROVE  RollInv'
  <1>1. UNCHANGED <<step, lists, window, tallied>>
    BY DEF closingVars
  <1>2. \A k \in Held(Committed) :
              k \in Held(Committed') /\ Committed'.reservations[k] = Committed.reservations[k]
    BY HeldStay DEF Stored
  <1>3. ASSUME NEW l \in SealedLeaves, LeafHeld(l) PROVE LeafHeld(l)'
    BY <1>1, <1>2, <1>3 DEF LeafHeld
  <1> QED BY <1>1, <1>3 DEF RollInv, Listed

LEMMA GatherRolls ==
    ASSUME Stored, Verbatim(Committed), RollInv, ClosingTypeOK, Gather, UNCHANGED vars
    PROVE  RollInv'
  <1>1. step' = "read"
        /\ lists' = [accepted |-> Committed.accepted, spoiled |-> Committed.spoiled]
    BY DEF Gather, Committed, Store
  <1>2. \A b \in Listed(Committed.accepted) : BallotIdOf[Committed.accepted[b]] = b
    <2>1. Committed \in ReferenceStore
      BY DEF Stored, TypeOK, Committed
    <2> QED BY <2>1, BallotsAreAnswers DEF Listed, Stored
  <1> QED BY <1>1, <1>2 DEF RollInv, Listed

LEMMA ReadRolls ==
    ASSUME Stored, SealInv, RollInv, ClosingTypeOK, ReadReservations, UNCHANGED vars
    PROVE  RollInv'
  <1>1. /\ step = "read" /\ step' \in {"refused", "seal"} /\ UNCHANGED <<lists, tallied>>
        /\ step' = "seal" => window' = Window
    BY DEF ReadReservations
  <1>2. Committed' = Committed
    BY DEF vars, storeVars, ballotVars, leafVars, owedVars, txVars, Committed, Store
  <1>3. ASSUME step' = "seal", NEW l \in SealedLeaves PROVE LeafHeld(l)'
    <2> SUFFICES ASSUME window'[l] # None,
                        lists.accepted[window'[l]] # None \/ lists.spoiled[window'[l]] # None
                 PROVE  \E k \in Held(Committed) :
                           /\ Committed.reservations[k].batch = ClosedBatch
                           /\ Committed.reservations[k].leaf = l
                           /\ Committed.reservations[k].ref = window'[l]
      BY <1>1, <1>2 DEF LeafHeld
    <2>1. window'[l] = Window[l]
      BY <1>1, <1>3
    <2>2. \E k \in ReservedLeaves : reservations[k].leaf = l
      BY <1>3, <2>1 DEF Window
    <2> DEFINE k == CHOOSE j \in ReservedLeaves : reservations[j].leaf = l
    <2>3. k \in ReservedLeaves /\ reservations[k].leaf = l /\ window'[l] = reservations[k].ref
      BY <1>3, <2>1, <2>2 DEF Window
    <2> HIDE DEF k
    <2>4. /\ k \in Scopes /\ reservations[k] # None /\ reservations[k].batch = ClosedBatch
          /\ reservations[k].ref \in BallotIds
      BY <2>3, StoreMaps DEF ReservedLeaves, LeafReservation, Stored
    <2>5. \/ Committed.accepted[reservations[k].ref] # None
          \/ Committed.spoiled[reservations[k].ref] # None
      BY <1>1, <2>3, <2>4 DEF SealInv, ListsStand
    <2>6. k \in Held(Committed) /\ Committed.reservations[k] = reservations[k]
      BY <2>4, <2>5, SeenIsHeld DEF Stored
    <2> QED BY <2>3, <2>4, <2>6
  <1> QED BY <1>1, <1>3 DEF RollInv, Listed

(* The other steps leave the lists and the leaves read as they are.        *)
LEMMA OthersRoll ==
    ASSUME RollInv, UNCHANGED vars,
           \/ SealCover \/ Classify \/ SealLeaf \/ Sealed
           \/ (\E type \in EntryTypes \ {"closed"} : Publish(type))
           \/ PublishCheckpoint \/ Close \/ TallyAccepted \/ Reconcile
    PROVE  RollInv'
  <1>1. /\ UNCHANGED <<lists, window>> /\ step \notin {"gather", "read", "refused", "done"}
        /\ step' \notin {"gather", "read"}
    BY FollowingSteps DEF SealCover, Classify, SealLeaf, Sealed, Publish, PublishCheckpoint,
       Close, TallyAccepted, Reconcile, EntryTypes
  <1>2. Committed' = Committed
    BY DEF vars, storeVars, ballotVars, leafVars, owedVars, txVars, Committed, Store
  <1>3. step' \in {"reconcile", "done"} => tallied' = Listed(lists.accepted)
    <2>1. CASE TallyAccepted
      BY <2>1, FollowingSteps DEF TallyAccepted
    <2>2. CASE Reconcile
      BY <2>2 DEF Reconcile, RollInv
    <2>3. CASE ~TallyAccepted /\ ~Reconcile
      BY <2>3, FollowingSteps DEF SealCover, Classify, SealLeaf, Sealed, Publish,
         PublishCheckpoint, Close, EntryTypes
    <2> QED BY <2>1, <2>2, <2>3
  <1> QED BY <1>1, <1>2, <1>3 DEF RollInv, LeafHeld, Listed

LEMMA AlwaysVerbatim == PublicationSpec => []Verbatim(Committed)
  <1>1. Spec => []Verbatim(Committed)
    BY InitVerbatim, NextVerbatim, TypeCorrect, TransactionIsolated, PTL DEF Spec
  <1> QED BY <1>1, ClosingKeepsCasting, PTL

LEMMA AlwaysRolled == PublicationSpec => []RollInv
  <1>1. PublicationInit => RollInv
    BY DEF PublicationInit, ClosingInit, RollInv
  <1>2. ASSUME Stored, Verbatim(Committed), ClosingTypeOK, SealInv, RollInv,
               [PublicationNext]_<<vars, closingVars>>
        PROVE  RollInv'
    <2>1. CASE [Next]_vars /\ UNCHANGED closingVars
      BY <1>2, <2>1, CastingKeepsRollInv
    <2>2. CASE CloseAndBuild /\ UNCHANGED vars
      BY <1>2, <2>2, GatherRolls, ReadRolls, OthersRoll DEF CloseAndBuild
    <2> QED BY <1>2, <2>1, <2>2 DEF PublicationNext
  <1> QED BY <1>1, <1>2, AlwaysStored, AlwaysVerbatim, AlwaysTyped, AlwaysSealed, PTL
          DEF PublicationSpec

(***************************************************************************)
(* The refinement                                                          *)
(***************************************************************************)

LEMMA RollIsRollOf == Roll = RollOf(Committed, lists.accepted, lists.spoiled)
  BY DEF Roll, RollOf

(* The roll is the same whatever submissions commit after the call.        *)
LEMMA RollStands ==
    ASSUME Stored, SealInv, Coherent(Committed)', [Next]_vars, UNCHANGED lists,
           step # "gather"
    PROVE  Roll' = Roll
  <1>1. ASSUME NEW b \in BallotIds, lists.accepted[b] # None \/ lists.spoiled[b] # None
        PROVE  LeafOf(Committed', b) = LeafOf(Committed, b)
    <2>1. Committed \in ReferenceStore /\ Committed' \in ReferenceStore
      BY TypeStep DEF Stored, TypeOK, Committed
    <2>2. BoxOf(Committed, b) # None
      BY <1>1, NoneAssumption DEF SealInv, ListsStand, BoxOf, Ops
    <2>3. PICK k \in Held(Committed) : Committed.reservations[k].ref = b
      BY <2>2 DEF Stored, Coherent
    <2>4. k \in Held(Committed') /\ Committed'.reservations[k] = Committed.reservations[k]
      BY HeldStay DEF Stored
    <2>5. LeafOf(Committed, b)
            = <<Committed.reservations[k].batch, Committed.reservations[k].leaf>>
      BY <2>1, <2>3, LeafOfHeld DEF Stored
    <2>6. LeafOf(Committed', b)
            = <<Committed'.reservations[k].batch, Committed'.reservations[k].leaf>>
      BY <2>1, <2>3, <2>4, LeafOfHeld
    <2> QED BY <2>4, <2>5, <2>6
  <1>2. Roll' = RollOf(Committed', lists.accepted, lists.spoiled)
    BY DEF Roll, RollOf, Listed
  <1>3. RollOf(Committed', lists.accepted, lists.spoiled)
          = RollOf(Committed, lists.accepted, lists.spoiled)
    BY <1>1 DEF RollOf, Listed
  <1> QED BY <1>2, <1>3, RollIsRollOf

(* Before the call there is nothing on it.                                 *)
LEMMA RollStartsEmpty == ASSUME RollInv, step = "gather" PROVE Roll = {}
  <1>1. Listed(lists.accepted) = {} /\ Listed(lists.spoiled) = {}
    BY DEF RollInv, Listed, NoBallot
  <1> QED BY <1>1 DEF Roll

LEMMA CastsOfTheRoll ==
    ASSUME RollInv, step # "gather"
    PROVE  Result!Casts(Roll) = Listed(lists.accepted)
  <1>1. ASSUME NEW b \in Listed(lists.accepted) PROVE b \in Result!Casts(Roll)
    <2> DEFINE x == [kind |-> "cast", leaf |-> LeafOf(Committed, b),
                     envelope |-> lists.accepted[b]]
    <2>1. x \in Roll /\ x.kind = "cast" /\ BallotIdOf[x.envelope] = b
      BY DEF Roll, RollInv
    <2> HIDE DEF x
    <2> QED BY <2>1 DEF Result!Casts
  <1>2. ASSUME NEW b \in Result!Casts(Roll) PROVE b \in Listed(lists.accepted)
    <2>1. PICK x \in Roll : x.kind = "cast" /\ BallotIdOf[x.envelope] = b
      BY DEF Result!Casts
    <2>2. \E c \in Listed(lists.accepted) : x.envelope = lists.accepted[c]
      BY <2>1 DEF Roll
    <2> QED BY <2>1, <2>2 DEF RollInv
  <1> QED BY <1>1, <1>2

(* What reconciles is the roll, leaf for leaf and byte for byte.           *)
RecordIsRoll == reconciled => Record = Roll

LEMMA RecordedIsRolled ==
    ASSUME Stored, ClosingTypeOK, SealInv, RollInv
    PROVE  RecordIsRoll
  <1> SUFFICES ASSUME reconciled PROVE Record = Roll
    BY DEF RecordIsRoll
  <1> DEFINE leaves == SealedLeaves \ LeavesOf("cover")
             Item(l) == [kind |-> openings[l].class, leaf |-> <<ClosedBatch, l>>,
                         envelope |-> openings[l].digest]
  <1>0. Committed \in ReferenceStore /\ Coherent(Committed) /\ step = "done"
    BY DEF Stored, TypeOK, Committed, SealInv, ClosingStages
  <1>1. ASSUME NEW l \in leaves
        PROVE  /\ openings[l].class \in {"cast", "challenge"}
               /\ openings[l].ref \in BallotIds
               /\ ListOf(openings[l].class)[openings[l].ref] = openings[l].digest
               /\ ListOf(openings[l].class)[openings[l].ref] # None
               /\ LeafOf(Committed, openings[l].ref) = <<ClosedBatch, l>>
    <2> DEFINE b == openings[l].ref
    <2>1. /\ openings[l].class \in {"cast", "challenge"}
          /\ b \in BallotIds
          /\ Named(b, openings[l].class)
          /\ ListOf(openings[l].class)[b] \in {None, openings[l].digest}
          /\ lists.accepted[b] # None \/ lists.spoiled[b] # None
      BY AllListed DEF Seen, Listed
    <2>2. window[l] = b
      <3>1. openings[l] # None /\ l \in SealedLeaves
        BY <1>0, <1>1 DEF SealInv, ClosingStages, Unsealed
      <3>2. openings[l] # Cover
        BY <2>1 DEF Cover
      <3> QED BY <3>1, <3>2 DEF SealInv, LeafStands
    <2> HIDE DEF b
    <2>3. PICK k \in Held(Committed) : /\ Committed.reservations[k].batch = ClosedBatch
                                       /\ Committed.reservations[k].leaf = l
                                       /\ Committed.reservations[k].ref = b
      <3>1. LeafHeld(l)
        BY <1>0, <1>1 DEF RollInv
      <3>2. window[l] # None
        BY <2>1, <2>2, NoneAssumption
      <3> QED BY <2>1, <2>2, <3>1, <3>2 DEF LeafHeld
    <2>4. LeafOf(Committed, b) = <<ClosedBatch, l>>
      BY <1>0, <2>3, LeafOfHeld
    <2>5. ListOf(openings[l].class)[b] # None
      BY <2>1 DEF Named, ListOf
    <2> QED BY <2>1, <2>4, <2>5 DEF b
  <1>2. Record = {Item(l) : l \in leaves}
    BY DEF Record
  <1>3. ASSUME NEW l \in leaves PROVE Item(l) \in Roll
    <2> DEFINE b == openings[l].ref
    <2>1. CASE openings[l].class = "cast"
      <3>1. b \in Listed(lists.accepted) /\ lists.accepted[b] = openings[l].digest
        BY <1>1, <2>1 DEF ListOf, Listed
      <3>2. Item(l) = [kind |-> "cast", leaf |-> LeafOf(Committed, b),
                       envelope |-> lists.accepted[b]]
        BY <1>1, <2>1, <3>1
      <3> QED BY <3>1, <3>2 DEF Roll
    <2>2. CASE openings[l].class = "challenge"
      <3>1. b \in Listed(lists.spoiled) /\ lists.spoiled[b] = openings[l].digest
        BY <1>1, <2>2 DEF ListOf, Listed
      <3>2. Item(l) = [kind |-> "challenge", leaf |-> LeafOf(Committed, b),
                       envelope |-> lists.spoiled[b]]
        BY <1>1, <2>2, <3>1
      <3> QED BY <3>1, <3>2 DEF Roll
    <2> QED BY <1>1, <2>1, <2>2
  <1>4. ASSUME NEW kind \in {"cast", "challenge"}, NEW b \in Listed(ListOf(kind))
        PROVE  \E l \in leaves : Item(l) = [kind |-> kind, leaf |-> LeafOf(Committed, b),
                                            envelope |-> ListOf(kind)[b]]
    <2>1. b \in Seen /\ b \in BallotIds /\ ListOf(kind)[b] # None
      BY AllListed DEF Listed, ListOf
    <2>2. PICK l \in leaves : openings[l].ref = b
      BY <2>1 DEF Seen
    <2>3. Named(b, openings[l].class) /\ openings[l].class \in {"cast", "challenge"}
      BY <2>2, AllListed
    <2>4. openings[l].class = kind
      BY <2>1, <2>3 DEF Named, ListOf
    <2> QED BY <1>1, <2>2, <2>4
  <1> HIDE DEF leaves, Item
  <1>5. Roll \subseteq Record
    <2>1. \A b \in Listed(lists.accepted) :
            [kind |-> "cast", leaf |-> LeafOf(Committed, b), envelope |-> lists.accepted[b]]
              \in Record
      BY <1>2, <1>4 DEF ListOf
    <2>2. \A b \in Listed(lists.spoiled) :
            [kind |-> "challenge", leaf |-> LeafOf(Committed, b), envelope |-> lists.spoiled[b]]
              \in Record
      BY <1>2, <1>4 DEF ListOf
    <2> QED BY <2>1, <2>2 DEF Roll
  <1>6. Record \subseteq Roll
    BY <1>2, <1>3
  <1> QED BY <1>5, <1>6

LEMMA InitResult == PublicationInit => Result!RInit
  <1> SUFFICES ASSUME PublicationInit PROVE Result!RInit
    OBVIOUS
  <1>1. A!AInit
    BY InitPromise DEF PublicationInit
  <1>2. Result!AInit
    BY <1>1 DEF Result!AInit, A!AInit, Result!Ops, A!Ops
  <1>3. /\ step = "gather" /\ tallied = {} /\ reconciled = FALSE
        /\ lists = [accepted |-> NoBallot, spoiled |-> NoBallot]
    BY DEF PublicationInit, ClosingInit
  <1>4. Roll = {}
    <2>1. Listed(lists.accepted) = {} /\ Listed(lists.spoiled) = {}
      BY <1>3 DEF Listed, NoBallot
    <2> QED BY <2>1 DEF Roll
  <1>5. Record = {}
    BY <1>3 DEF Record
  <1> QED BY <1>2, <1>3, <1>4, <1>5 DEF Result!RInit

(* Acceptance in ElectionResult is Acceptance.                             *)
LEMMA SameAcceptance == ASSUME [A!ANext]_A!avars PROVE Result!ANext \/ UNCHANGED Result!avars
  <1>1. CASE A!ANext
    <2>1. Result!ANext
      BY <1>1 DEF A!ANext, A!Accept, A!Eligible, A!Entitled, A!Left, A!Ops,
         Result!ANext, Result!Accept, Result!Eligible, Result!Entitled, Result!Left, Result!Ops
    <2> QED BY <2>1
  <1>2. CASE UNCHANGED A!avars
    BY <1>2 DEF A!avars, Result!avars
  <1> QED BY <1>1, <1>2

(* The store of the committed ballots is not touched by closing.           *)
LEMMA ClosingStutters == ASSUME UNCHANGED vars PROVE UNCHANGED Result!avars /\ Committed' = Committed
  <1>1. Committed' = Committed
    BY DEF vars, storeVars, ballotVars, leafVars, owedVars, txVars, Committed, Store
  <1>2. SameView(Committed, Committed')
    BY <1>1 DEF SameView
  <1>3. UNCHANGED A!avars
    BY <1>2, Stuttering
  <1> QED BY <1>1, <1>3 DEF A!avars, Result!avars

ResultStep == Result!RNext \/ UNCHANGED <<Result!avars, Result!closing>>

LEMMA CastingSteps ==
    ASSUME Stored, SealInv, RollInv, RollInv', Coherent(Committed)', [A!ANext]_A!avars,
           [Next]_vars, UNCHANGED closingVars
    PROVE  ResultStep
  <1>1. UNCHANGED <<step, lists, window, class, openings, tallied, reconciled>>
    BY DEF closingVars
  <1>2. Roll' = Roll
    <2>1. CASE step = "gather"
      <3>1. Roll = {}
        BY <2>1, RollStartsEmpty
      <3>2. Roll' = {}
        <4>1. lists' = [accepted |-> NoBallot, spoiled |-> NoBallot]
          BY <1>1, <2>1 DEF RollInv
        <4>2. Listed(lists'.accepted) = {} /\ Listed(lists'.spoiled) = {}
          BY <4>1 DEF Listed, NoBallot
        <4> QED BY <4>2 DEF Roll, Listed
      <3> QED BY <3>1, <3>2
    <2>2. CASE step # "gather"
      BY <1>1, <2>2, RollStands
    <2> QED BY <2>1, <2>2
  <1>3. Record' = Record
    BY <1>1 DEF Record, LeavesOf
  <1>4. UNCHANGED Result!closing
    BY <1>1, <1>2, <1>3 DEF Result!closing
  <1>5. Result!ANext \/ UNCHANGED Result!avars
    BY SameAcceptance
  <1> QED BY <1>4, <1>5 DEF Result!RNext, ResultStep

LEMMA GatherCalls ==
    ASSUME Stored, SealInv, Verbatim(Committed), Gather, UNCHANGED vars
    PROVE  Result!Call
  <1>1. /\ step = "gather" /\ step' = "read" /\ tallied' = tallied
        /\ reconciled = FALSE /\ reconciled' = FALSE
        /\ lists' = [accepted |-> Committed.accepted, spoiled |-> Committed.spoiled]
    BY DEF Gather, Committed, Store, SealInv, ClosingStages
  <1>2. UNCHANGED Result!avars /\ Committed' = Committed
    BY ClosingStutters
  <1>3. Committed \in ReferenceStore /\ Coherent(Committed)
    BY DEF Stored, TypeOK, Committed
  <1>4. Roll' = RollOf(Committed, Committed.accepted, Committed.spoiled)
    BY <1>1, <1>2 DEF Roll, RollOf, Listed
  <1>5. Result!Standing = AnswersOf(Committed)
    <2>1. Result!Answered = {k \in Scopes : Committed.idempotency[k] # None}
      BY DEF Result!Answered, Result!Ops, Scopes, Ops
    <2>2. \A k \in Scopes : Committed.idempotency[k] # None =>
             BallotIdOf[Committed.idempotency[k]] \in BallotIds
      BY <1>3, AnswersAreBallots
    <2> QED BY <2>1, <2>2 DEF Result!Standing, AnswersOf
  <1>6. Roll' = Result!Standing
    BY <1>3, <1>4, <1>5, AnsweredIsListed
  <1>7. Record' = Record
    BY <1>1 DEF Record
  <1> QED BY <1>1, <1>2, <1>6, <1>7 DEF Result!Call

LEMMA ClosingSteps ==
    ASSUME Stored, ClosingTypeOK, SealInv, RollInv, Verbatim(Committed), RecordIsRoll',
           CloseAndBuild, UNCHANGED vars
    PROVE  ResultStep
  <1>1. UNCHANGED Result!avars /\ Committed' = Committed
    BY ClosingStutters
  <1>2. CASE Gather
    BY <1>2, GatherCalls DEF Result!RNext, ResultStep
  <1>3. CASE ~Gather
    <2>1. /\ UNCHANGED lists /\ step # "gather" /\ step' # "gather" /\ ~reconciled
      BY <1>3, FollowingSteps DEF CloseAndBuild, ReadReservations, SealCover, Classify, SealLeaf,
         Sealed, Publish, PublishCheckpoint, Close, TallyAccepted, Reconcile, EntryTypes,
         SealInv, ClosingStages
    <2>2. Roll' = Roll
      BY <1>1, <2>1 DEF Roll, Listed
    <2>3. Record = {}
      BY <2>1 DEF Record
    <2>4. CASE TallyAccepted
      <3>1. UNCHANGED reconciled /\ (tallied' = tallied \/ tallied' = Listed(lists.accepted))
        BY <2>4 DEF TallyAccepted
      <3>2. Record' = Record
        BY <2>1, <2>3, <3>1 DEF Record
      <3>3. CASE tallied' = tallied
        BY <1>1, <2>1, <2>2, <3>2, <3>3 DEF Result!closing, ResultStep
      <3>4. CASE tallied' = Listed(lists.accepted)
        <4>1. Result!Count
          BY <1>1, <2>1, <2>2, <3>2, <3>4, CastsOfTheRoll DEF Result!Count
        <4> QED BY <4>1 DEF Result!RNext, ResultStep
      <3> QED BY <3>1, <3>3, <3>4
    <2>5. CASE Reconcile
      <3>1. UNCHANGED tallied /\ step = "reconcile"
        BY <2>5 DEF Reconcile
      <3>2. CASE reconciled'
        <4>1. Record' = Roll
          BY <2>2, <3>2 DEF RecordIsRoll
        <4>2. tallied = Result!Casts(Roll)
          BY <2>1, <3>1, CastsOfTheRoll DEF RollInv
        <4>3. Result!Conclude
          BY <1>1, <2>1, <2>2, <3>1, <4>1, <4>2 DEF Result!Conclude
        <4> QED BY <4>3 DEF Result!RNext, ResultStep
      <3>3. CASE ~reconciled'
        <4>1. Record' = Record
          BY <2>1, <3>3 DEF Record
        <4> QED BY <1>1, <2>1, <2>2, <3>1, <4>1 DEF Result!closing, ResultStep
      <3> QED BY <3>2, <3>3
    <2>6. CASE ~TallyAccepted /\ ~Reconcile
      <3>1. UNCHANGED <<tallied, reconciled>>
        BY <1>3, <2>6 DEF CloseAndBuild, ReadReservations, SealCover, Classify, SealLeaf,
           Sealed, Publish, PublishCheckpoint, Close
      <3>2. Record' = Record
        BY <2>1, <3>1 DEF Record
      <3> QED BY <1>1, <2>1, <2>2, <3>1, <3>2 DEF Result!closing, ResultStep
    <2> QED BY <2>4, <2>5, <2>6
  <1> QED BY <1>2, <1>3

(* PublishesTheResult: reading leaf after leaf without the lock, testing a *)
(* class apart from looking it up, using lists gathered before closure,    *)
(* counting and reconciling, all while submissions commit and roll back,   *)
(* is as if the answered ballots had been taken at one instant.            *)
THEOREM ImplementsTheResult == PublicationSpec => PublishesTheResult
  <1>1. PublicationSpec => []RecordIsRoll
    BY RecordedIsRolled, AlwaysStored, AlwaysTyped, AlwaysSealed, AlwaysRolled, PTL
  <1>2. PublicationSpec => []Exhaustion
    BY CapabilitiesExhaust, ClosingKeepsCasting, PTL
  <1> DEFINE Inv == /\ Stored /\ ClosingTypeOK /\ SealInv /\ RollInv /\ Verbatim(Committed)
                    /\ Exhaustion /\ RecordIsRoll
  <1>3. Inv /\ Inv' /\ [PublicationNext]_<<vars, closingVars>>
          => [Result!RNext]_<<Result!avars, Result!closing>>
    <2> SUFFICES ASSUME Inv, Inv', [PublicationNext]_<<vars, closingVars>>
                 PROVE  ResultStep
      BY DEF ResultStep
    <2>1. CASE [Next]_vars /\ UNCHANGED closingVars
      <3>1. [A!ANext]_A!avars
        BY <2>1, AcceptsOrStutters DEF Stored
      <3>2. Coherent(Committed)'
        BY DEF Stored
      <3> QED BY <2>1, <3>1, <3>2, CastingSteps
    <2>2. CASE CloseAndBuild /\ UNCHANGED vars
      BY <2>2, ClosingSteps
    <2> QED BY <2>1, <2>2 DEF PublicationNext
  <1> HIDE DEF Inv
  <1>4. PublicationSpec => []Inv
    BY <1>1, <1>2, AlwaysStored, AlwaysTyped, AlwaysSealed, AlwaysRolled, AlwaysVerbatim, PTL
       DEF Inv
  <1> QED BY InitResult, <1>3, <1>4, PTL DEF PublicationSpec, PublishesTheResult, Result!RSpec
=============================================================================
