---------------------------- MODULE AccessProofs ----------------------------
(***************************************************************************)
(* Proofs about the privileged access service, for any constants that meet *)
(* the assumptions of the modules: the frame of its commands, emergency    *)
(* access, exports, grants with their sessions, and search.  The parts     *)
(* share no state; each has an inductive invariant of its own.             *)
(***************************************************************************)
EXTENDS CommandFrame, BreakGlass, DataExport, PrivilegedAccess, GovernedSearch,
        FiniteSetTheorems, TLAPS

-----------------------------------------------------------------------------
(***************************************************************************)
(* Proofs about CommandFrame, for any set of event ids and any number of   *)
(* emissions.  Nothing that one event_id's run reads is written by another *)
(* run, so the inductive invariant is one assertion for each event_id: it  *)
(* ties the stage of the run to what the run has already written.          *)
(***************************************************************************)

Stages == {"rest", "save", "audit", "publish", "record"}

(* The types, of one event_id.                                             *)
TypeOf(e) ==
    /\ run[e] \in [stage : Stages, next : 1 .. Emissions[e]]
    /\ saves[e] \in 0 .. MaxTries
    /\ rows[e] \in 0 .. Emissions[e]

(* The events 1 .. n are on the stream.                                    *)
StreamUpTo(e, n) == \A k \in 1 .. n : stream[e][k] = 1

(* No event after n is.                                                    *)
NothingAfter(e, n) == \A k \in Ordinals : k > n => stream[e][k] = 0

(* What a run that stands at its stage has done, and what it has not: this *)
(* is what an action leaves to the next one.                               *)
WrittenBy(e) ==
    /\ run[e].stage \in {"rest", "save"} => run[e].next = 1
    /\ run[e].stage = "save" => rows[e] = 0 /\ saves[e] < MaxTries
    /\ run[e].stage = "audit" =>
          /\ rows[e] = run[e].next - 1
          /\ StreamUpTo(e, rows[e])
    /\ run[e].stage = "publish" =>
          /\ rows[e] = run[e].next
          /\ StreamUpTo(e, rows[e] - 1)
          /\ stream[e][rows[e]] = 0
    /\ run[e].stage = "record" =>
          /\ rows[e] = Emissions[e]
          /\ StreamUpTo(e, rows[e])
    /\ run[e].stage \in {"audit", "publish", "record"} => saves[e] >= 1
    /\ run[e].stage # "rest" => e \notin recorded

(* A recorded command is complete, whatever its caller does next.          *)
CompleteOnceRecorded(e) ==
    e \in recorded =>
        saves[e] >= 1 /\ rows[e] = Emissions[e] /\ StreamUpTo(e, rows[e])

(* No event is published twice or before its row.                          *)
RowsBeforeEvents(e) ==
    /\ NothingAfter(e, rows[e])
    /\ \A k \in Ordinals : stream[e][k] <= 1

Stands(e) ==
    TypeOf(e) /\ WrittenBy(e) /\ CompleteOnceRecorded(e) /\ RowsBeforeEvents(e)

Shape ==
    /\ run \in [EventIds -> [stage : Stages, next : Nat]]
    /\ saves \in [EventIds -> Nat] /\ rows \in [EventIds -> Nat]
    /\ stream \in [EventIds -> [Ordinals -> Nat]]
    /\ recorded \subseteq EventIds /\ successes \subseteq recorded

FrameInv == Shape /\ \A e \in EventIds : Stands(e)

-----------------------------------------------------------------------------
LEMMA OrdinalsOf ==
    ASSUME NEW e \in EventIds
    PROVE  Emissions[e] \in Nat \ {0} /\ 1 .. Emissions[e] \subseteq Ordinals
           /\ 1 \in Ordinals /\ Ordinals \subseteq Nat \ {0}
  BY CommandFrameAssumption DEF Ordinals

(* An event_id whose state a step leaves alone stands as it stood.         *)
LEMMA Untouched ==
    ASSUME NEW e \in EventIds, Stands(e),
           run'[e] = run[e], saves'[e] = saves[e], rows'[e] = rows[e],
           stream'[e] = stream[e], e \in recorded' <=> e \in recorded
    PROVE  Stands(e)'
  BY DEF Stands, TypeOf, WrittenBy, CompleteOnceRecorded, RowsBeforeEvents,
         StreamUpTo, NothingAfter

LEMMA InitStands == FrameInit => FrameInv
  <1> SUFFICES ASSUME FrameInit PROVE FrameInv
    OBVIOUS
  <1>1. Shape
    BY OrdinalsOf DEF FrameInit, Shape, AtRest, Stages
  <1>2. ASSUME NEW e \in EventIds PROVE Stands(e)
    BY <1>2, OrdinalsOf, CommandFrameAssumption
       DEF FrameInit, Stands, TypeOf, WrittenBy, CompleteOnceRecorded, RowsBeforeEvents,
           StreamUpTo, NothingAfter, AtRest, Stages
  <1> QED BY <1>1, <1>2 DEF FrameInv

-----------------------------------------------------------------------------
(* Every step keeps the shape, and leaves the other event ids alone.       *)
LEMMA StepShape ==
    ASSUME FrameInv, NEW e \in EventIds,
           \/ Begin(e) \/ Replay(e) \/ SaveAggregate(e) \/ AppendRow(e)
           \/ PublishEvent(e) \/ RecordCommand(e) \/ StopRun(e)
    PROVE  /\ Shape'
           /\ \A f \in EventIds \ {e} : Stands(f)'
  <1> USE DEF FrameInv, Shape, Advance, Stages
  <1>0. run[e].next \in 1 .. Emissions[e] /\ run[e].next \in Ordinals
    BY OrdinalsOf DEF Stands, TypeOf
  <1>1. Shape'
    <2>1. CASE Begin(e)
      BY <2>1 DEF Begin
    <2>2. CASE Replay(e)
      BY <2>2 DEF Replay, Replayed
    <2>3. CASE SaveAggregate(e)
      BY <2>3 DEF SaveAggregate
    <2>4. CASE AppendRow(e)
      BY <1>0, <2>4 DEF AppendRow
    <2>5. CASE PublishEvent(e)
      <3>1. AfterPublish(e) \in [stage : Stages, next : Nat]
        BY <1>0 DEF AfterPublish
      <3>2. [stream[e] EXCEPT ![run[e].next] = @ + 1] \in [Ordinals -> Nat]
        BY <1>0
      <3> QED BY <2>5, <3>1, <3>2 DEF PublishEvent
    <2>6. CASE RecordCommand(e)
      BY <2>6 DEF RecordCommand, AtRest
    <2>7. CASE StopRun(e)
      BY <2>7 DEF StopRun, AtRest
    <2> QED BY <2>1, <2>2, <2>3, <2>4, <2>5, <2>6, <2>7
  <1>2. ASSUME NEW f \in EventIds \ {e} PROVE Stands(f)'
    <2>1. /\ run'[f] = run[f] /\ saves'[f] = saves[f] /\ rows'[f] = rows[f]
          /\ stream'[f] = stream[f] /\ (f \in recorded' <=> f \in recorded)
      BY DEF Begin, Replay, SaveAggregate, AppendRow, PublishEvent, RecordCommand, StopRun
    <2> QED BY <2>1, Untouched
  <1> QED BY <1>1, <1>2

LEMMA BeginStands ==
    ASSUME FrameInv, NEW e \in EventIds, Begin(e) PROVE Stands(e)'
  <1>1. /\ run'[e] = [stage |-> "save", next |-> 1] /\ saves[e] < MaxTries
        /\ e \notin recorded /\ rows[e] = 0
        /\ UNCHANGED <<saves, rows, stream, recorded>>
    BY DEF FrameInv, Shape, Begin, Advance, Unaccounted
  <1>2. Stands(e)
    BY DEF FrameInv
  <1>3. TypeOf(e)'
    BY <1>1, <1>2, OrdinalsOf, CommandFrameAssumption DEF Stands, TypeOf, WrittenBy, Stages
  <1>4. WrittenBy(e)'
    BY <1>1, <1>2, OrdinalsOf, CommandFrameAssumption
       DEF Stands, TypeOf, WrittenBy, RowsBeforeEvents, NothingAfter, StreamUpTo
  <1>5. CompleteOnceRecorded(e)'
    BY <1>1, <1>2, OrdinalsOf, CommandFrameAssumption
       DEF Stands, TypeOf, WrittenBy, CompleteOnceRecorded, StreamUpTo
  <1>6. RowsBeforeEvents(e)'
    BY <1>1, <1>2, OrdinalsOf, CommandFrameAssumption
       DEF Stands, TypeOf, WrittenBy, RowsBeforeEvents, NothingAfter
  <1> QED BY <1>3, <1>4, <1>5, <1>6 DEF Stands

LEMMA ReplayStands ==
    ASSUME FrameInv, NEW e \in EventIds, Replay(e) PROVE Stands(e)'
  BY Untouched DEF FrameInv, Replay

LEMMA SaveStands ==
    ASSUME FrameInv, NEW e \in EventIds, SaveAggregate(e) PROVE Stands(e)'
  <1>1. /\ run[e].stage = "save" /\ run'[e] = [stage |-> "audit", next |-> 1]
        /\ saves'[e] = saves[e] + 1
        /\ UNCHANGED <<rows, stream, recorded>>
    BY DEF FrameInv, Shape, SaveAggregate, Advance
  <1>2. Stands(e)
    BY DEF FrameInv
  <1>3. TypeOf(e)'
    BY <1>1, <1>2, OrdinalsOf, CommandFrameAssumption DEF Stands, TypeOf, WrittenBy, Stages
  <1>4. WrittenBy(e)'
    BY <1>1, <1>2, OrdinalsOf, CommandFrameAssumption
       DEF Stands, TypeOf, WrittenBy, RowsBeforeEvents, NothingAfter, StreamUpTo
  <1>5. CompleteOnceRecorded(e)'
    BY <1>1, <1>2, OrdinalsOf, CommandFrameAssumption
       DEF Stands, TypeOf, WrittenBy, CompleteOnceRecorded, StreamUpTo
  <1>6. RowsBeforeEvents(e)'
    BY <1>1, <1>2, OrdinalsOf, CommandFrameAssumption
       DEF Stands, TypeOf, WrittenBy, RowsBeforeEvents, NothingAfter
  <1> QED BY <1>3, <1>4, <1>5, <1>6 DEF Stands

LEMMA AppendStands ==
    ASSUME FrameInv, NEW e \in EventIds, AppendRow(e) PROVE Stands(e)'
  <1>1. /\ run[e].stage = "audit" /\ run'[e] = [stage |-> "publish", next |-> run[e].next]
        /\ rows'[e] = IF run[e].next > rows[e] THEN run[e].next ELSE rows[e]
        /\ UNCHANGED <<saves, stream, recorded>>
    BY DEF FrameInv, Shape, AppendRow, Advance
  <1>2. Stands(e)
    BY DEF FrameInv
  <1>3. TypeOf(e)'
    BY <1>1, <1>2, OrdinalsOf, CommandFrameAssumption DEF Stands, TypeOf, WrittenBy, Stages
  <1>4. WrittenBy(e)'
    BY <1>1, <1>2, OrdinalsOf, CommandFrameAssumption
       DEF Stands, TypeOf, WrittenBy, RowsBeforeEvents, NothingAfter, StreamUpTo
  <1>5. CompleteOnceRecorded(e)'
    BY <1>1, <1>2, OrdinalsOf, CommandFrameAssumption
       DEF Stands, TypeOf, WrittenBy, CompleteOnceRecorded, StreamUpTo
  <1>6. RowsBeforeEvents(e)'
    BY <1>1, <1>2, OrdinalsOf, CommandFrameAssumption
       DEF Stands, TypeOf, WrittenBy, RowsBeforeEvents, NothingAfter
  <1> QED BY <1>3, <1>4, <1>5, <1>6 DEF Stands

LEMMA PublishStands ==
    ASSUME FrameInv, NEW e \in EventIds, PublishEvent(e) PROVE Stands(e)'
  <1>1. /\ run[e].stage = "publish" /\ run'[e] = AfterPublish(e)
        /\ run[e].next \in Ordinals
        /\ \A k \in Ordinals :
              stream'[e][k] = IF k = run[e].next THEN stream[e][k] + 1 ELSE stream[e][k]
        /\ UNCHANGED <<saves, rows, recorded>>
    <2>1. PublishEvent(e) /\ Shape /\ run[e].next \in 1 .. Emissions[e]
      BY DEF FrameInv, Stands, TypeOf
    <2>2. stream'[e] = [stream[e] EXCEPT ![run[e].next] = @ + 1]
      BY <2>1 DEF PublishEvent, Shape
    <2>3. run[e].stage = "publish" /\ run'[e] = AfterPublish(e)
          /\ UNCHANGED <<saves, rows, recorded>>
      BY <2>1 DEF PublishEvent, Shape
    <2>4. DOMAIN stream[e] = Ordinals /\ run[e].next \in Ordinals
      BY <2>1, OrdinalsOf DEF Shape
    <2> QED BY <2>2, <2>3, <2>4
  <1>2. Stands(e)
    BY DEF FrameInv
  <1>3. TypeOf(e)'
    BY <1>1, <1>2, OrdinalsOf, CommandFrameAssumption DEF Stands, TypeOf, WrittenBy, AfterPublish, Stages
  <1>4. WrittenBy(e)'
    <2>1. run[e].next \in 1 .. Emissions[e] /\ rows[e] = run[e].next
          /\ stream'[e][rows[e]] = 1 /\ StreamUpTo(e, rows[e])'
      BY <1>1, <1>2, OrdinalsOf DEF Stands, TypeOf, WrittenBy, StreamUpTo
    <2>2. CASE run[e].next < Emissions[e]
      BY <1>1, <1>2, <2>1, <2>2, OrdinalsOf DEF Stands, TypeOf, WrittenBy, AfterPublish, StreamUpTo
    <2>3. CASE ~(run[e].next < Emissions[e])
      BY <1>1, <1>2, <2>1, <2>3, OrdinalsOf DEF Stands, TypeOf, WrittenBy, AfterPublish, StreamUpTo
    <2> QED BY <2>2, <2>3
  <1>5. CompleteOnceRecorded(e)'
    BY <1>1, <1>2, OrdinalsOf, CommandFrameAssumption
       DEF Stands, TypeOf, WrittenBy, CompleteOnceRecorded, StreamUpTo
  <1>6. RowsBeforeEvents(e)'
    BY <1>1, <1>2, OrdinalsOf, CommandFrameAssumption
       DEF Stands, TypeOf, WrittenBy, RowsBeforeEvents, NothingAfter
  <1> QED BY <1>3, <1>4, <1>5, <1>6 DEF Stands

LEMMA RecordStands ==
    ASSUME FrameInv, NEW e \in EventIds, RecordCommand(e) PROVE Stands(e)'
  <1>1. /\ run[e].stage = "record" /\ run'[e] = [stage |-> "rest", next |-> 1]
        /\ UNCHANGED <<saves, rows, stream>>
    BY DEF FrameInv, Shape, RecordCommand, Advance, AtRest
  <1>2. Stands(e)
    BY DEF FrameInv
  <1>3. TypeOf(e)'
    BY <1>1, <1>2, OrdinalsOf, CommandFrameAssumption DEF Stands, TypeOf, WrittenBy, Stages
  <1>4. WrittenBy(e)'
    BY <1>1, <1>2, OrdinalsOf, CommandFrameAssumption
       DEF Stands, TypeOf, WrittenBy, RowsBeforeEvents, NothingAfter, StreamUpTo
  <1>5. CompleteOnceRecorded(e)'
    BY <1>1, <1>2, OrdinalsOf, CommandFrameAssumption
       DEF Stands, TypeOf, WrittenBy, CompleteOnceRecorded, StreamUpTo
  <1>6. RowsBeforeEvents(e)'
    BY <1>1, <1>2, OrdinalsOf, CommandFrameAssumption
       DEF Stands, TypeOf, WrittenBy, RowsBeforeEvents, NothingAfter
  <1> QED BY <1>3, <1>4, <1>5, <1>6 DEF Stands

LEMMA StopStands ==
    ASSUME FrameInv, NEW e \in EventIds, StopRun(e) PROVE Stands(e)'
  <1>1. /\ run'[e] = [stage |-> "rest", next |-> 1]
        /\ UNCHANGED <<saves, rows, stream, recorded>>
    BY DEF FrameInv, Shape, StopRun, Advance, AtRest
  <1>2. Stands(e)
    BY DEF FrameInv
  <1>3. TypeOf(e)'
    BY <1>1, <1>2, OrdinalsOf, CommandFrameAssumption DEF Stands, TypeOf, WrittenBy, Stages
  <1>4. WrittenBy(e)'
    BY <1>1, <1>2, OrdinalsOf, CommandFrameAssumption
       DEF Stands, TypeOf, WrittenBy, RowsBeforeEvents, NothingAfter, StreamUpTo
  <1>5. CompleteOnceRecorded(e)'
    BY <1>1, <1>2, OrdinalsOf, CommandFrameAssumption
       DEF Stands, TypeOf, WrittenBy, CompleteOnceRecorded, StreamUpTo
  <1>6. RowsBeforeEvents(e)'
    BY <1>1, <1>2, OrdinalsOf, CommandFrameAssumption
       DEF Stands, TypeOf, WrittenBy, RowsBeforeEvents, NothingAfter
  <1> QED BY <1>3, <1>4, <1>5, <1>6 DEF Stands

LEMMA NextStands == FrameInv /\ [FrameNext]_frameVars => FrameInv'
  <1> SUFFICES ASSUME FrameInv, [FrameNext]_frameVars PROVE FrameInv'
    OBVIOUS
  <1>1. CASE UNCHANGED frameVars
    <2>1. Shape'
      BY <1>1 DEF FrameInv, Shape, frameVars
    <2>2. ASSUME NEW e \in EventIds PROVE Stands(e)'
      BY <1>1, Untouched DEF FrameInv, frameVars
    <2> QED BY <2>1, <2>2 DEF FrameInv
  <1>2. CASE FrameNext
    <2> PICK e \in EventIds :
          \/ Begin(e) \/ Replay(e) \/ SaveAggregate(e) \/ AppendRow(e)
          \/ PublishEvent(e) \/ RecordCommand(e) \/ StopRun(e)
      BY <1>2 DEF FrameNext
    <2>1. Shape' /\ \A f \in EventIds \ {e} : Stands(f)'
      BY StepShape
    <2>2. Stands(e)'
      BY BeginStands, ReplayStands, SaveStands, AppendStands, PublishStands,
         RecordStands, StopStands
    <2> QED BY <2>1, <2>2 DEF FrameInv
  <1> QED BY <1>1, <1>2

LEMMA AlwaysStands == FrameSpec => []FrameInv
  BY InitStands, NextStands, PTL DEF FrameSpec

-----------------------------------------------------------------------------
(* Every reachable state has the types the model declares.                 *)
THEOREM FrameTypeCorrect == FrameSpec => []FrameTypeOK
  <1>1. FrameInv => FrameTypeOK
    <2> SUFFICES ASSUME FrameInv PROVE FrameTypeOK
      OBVIOUS
    <2>1. run \in [EventIds -> [stage : Stages, next : Ordinals \cup {1}]]
      <3>1. ASSUME NEW e \in EventIds
            PROVE  run[e] \in [stage : Stages, next : Ordinals \cup {1}]
        BY OrdinalsOf DEF FrameInv, Stands, TypeOf
      <3> QED BY <3>1 DEF FrameInv, Shape
    <2>2. saves \in [EventIds -> 0 .. MaxTries]
      BY DEF FrameInv, Shape, Stands, TypeOf
    <2>3. ASSUME NEW e \in EventIds
          PROVE  rows[e] \in 0 .. Emissions[e] /\ run[e].next <= Emissions[e]
      BY OrdinalsOf DEF FrameInv, Stands, TypeOf
    <2> QED BY <2>1, <2>2, <2>3 DEF FrameTypeOK, FrameInv, Shape, Stages
  <1> QED BY <1>1, AlwaysStands, PTL

(* No event is published twice, and none before its audit row, wherever    *)
(* runs stop and however often callers retry (_guard, _finish).            *)
THEOREM EventsHaveRows == FrameSpec => []EventsAreAccountedFor
  <1>1. FrameInv => EventsAreAccountedFor
    <2> SUFFICES ASSUME FrameInv, NEW e \in EventIds, NEW k \in Ordinals
                 PROVE  stream[e][k] <= (IF k <= rows[e] THEN 1 ELSE 0)
      BY DEF EventsAreAccountedFor
    <2> QED BY OrdinalsOf
            DEF FrameInv, Stands, RowsBeforeEvents, NothingAfter, TypeOf
  <1> QED BY <1>1, AlwaysStands, PTL

(* A caller told that its command ran finds the aggregate saved, every row *)
(* and every event, once each (_finish).                                   *)
THEOREM SuccessIsComplete == FrameSpec => []SuccessMeansComplete
  <1>1. FrameInv => SuccessMeansComplete
    BY DEF FrameInv, Shape, Stands, CompleteOnceRecorded, StreamUpTo, SuccessMeansComplete
  <1> QED BY <1>1, AlwaysStands, PTL

(* Once an event_id has an audit row, its aggregate is not saved again     *)
(* under it (_guard refuses the retry of a run that stopped in between).   *)
THEOREM RowsFreezeTheAggregate ==
    FrameSpec => [][\A e \in EventIds : rows[e] > 0 => saves'[e] = saves[e]]_frameVars
  <1>1. FrameInv /\ [FrameNext]_frameVars
          => [\A e \in EventIds : rows[e] > 0 => saves'[e] = saves[e]]_frameVars
    <2> SUFFICES ASSUME FrameInv, FrameNext, NEW e \in EventIds, rows[e] > 0
                 PROVE  saves'[e] = saves[e]
      OBVIOUS
    <2> PICK f \in EventIds :
          \/ Begin(f) \/ Replay(f) \/ SaveAggregate(f) \/ AppendRow(f)
          \/ PublishEvent(f) \/ RecordCommand(f) \/ StopRun(f)
      BY DEF FrameNext
    <2>1. CASE SaveAggregate(f)
      <3>1. f # e
        BY <2>1 DEF SaveAggregate, FrameInv, Stands, WrittenBy
      <3> QED BY <2>1, <3>1 DEF SaveAggregate, FrameInv, Shape
    <2> QED BY <2>1 DEF Begin, Replay, AppendRow, PublishEvent, RecordCommand, StopRun
  <1> QED BY <1>1, AlwaysStands, PTL DEF FrameSpec

(* Wherever runs stop and however often callers retry, rows, events and    *)
(* reported successes agree, and a row stands for one change (_guard,      *)
(* _finish).                                                               *)
THEOREM CommandsStayWhole == FrameSpec => CommandsAreWhole
  BY EventsHaveRows, SuccessIsComplete, RowsFreezeTheAggregate, PTL DEF CommandsAreWhole

-----------------------------------------------------------------------------
(***************************************************************************)
(* Proofs about BreakGlass, for any actors and any activation ids.         *)
(***************************************************************************)

(* An approval is on record before access opens, and stays there while it  *)
(* is open and after it.                                                   *)
ApprovedByAnother(x) ==
    activation[x].state \in {"APPROVED", "ACTIVATED", "EXPIRED", "REVOKED"} =>
        activation[x].approvedBy \in Guards \ {activation[x].activator}

NotificationTold(x) ==
    /\ activation[x].state \in {"ACTIVATED", "EXPIRED", "REVOKED"} =>
          x \in told /\ activation[x].notification = "delivered"
    /\ activation[x].state = "ESCALATED" => activation[x].notification = "failed"

(* An approved activation has one approval that no opening has used.       *)
ApprovalsPaidFor(x) ==
    activations[x] + (IF activation[x].state = "APPROVED" THEN 1 ELSE 0) <= approvals[x]

ReviewedByAnother(x) ==
    activation[x].state = "REVIEW_COMPLETED" =>
        review[x] \in Guards \ {activation[x].activator, activation[x].approver}

Governed(x) ==
    ApprovedByAnother(x) /\ NotificationTold(x) /\ ApprovalsPaidFor(x) /\ ReviewedByAnother(x)

GlassInv == BreakGlassTypeOK /\ \A x \in Emergencies : Governed(x)

-----------------------------------------------------------------------------
LEMMA InitGoverned == BreakGlassInit => GlassInv
  BY BreakGlassAssumption
     DEF BreakGlassInit, GlassInv, BreakGlassTypeOK, NoActivation, Governed,
         ApprovedByAnother, NotificationTold, ApprovalsPaidFor, ReviewedByAnother

(* What the record that an invoked id names looks like.                    *)
LEMMA RecordOf ==
    ASSUME BreakGlassTypeOK, NEW x \in Emergencies
    PROVE  /\ Invoked(x) => activation[x] \in ActivationRecords
           /\ activations[x] \in Nat /\ approvals[x] \in Nat
           /\ requests[x] \in 0 .. MaxRequests
  BY DEF BreakGlassTypeOK, Invoked

(* A step on one id leaves the records of the others as they are.          *)
LEMMA OthersGoverned ==
    ASSUME GlassInv, NEW x \in Emergencies, NEW y \in Emergencies, x # y,
           activation'[y] = activation[y], review'[y] = review[y],
           activations'[y] = activations[y], approvals'[y] = approvals[y],
           y \in told' <=> y \in told
    PROVE  Governed(y)'
  BY DEF GlassInv, Governed, ApprovedByAnother, NotificationTold, ApprovalsPaidFor,
         ReviewedByAnother

LEMMA RequestGoverned ==
    ASSUME GlassInv, NEW x \in Emergencies, NEW actor \in Guards, NEW named \in Guards,
           RequestBreakGlass(x, actor, named)
    PROVE  GlassInv'
  <1> USE BreakGlassAssumption, RecordOf DEF GlassInv, RequestBreakGlass
  <1>1. BreakGlassTypeOK'
    BY DEF BreakGlassTypeOK, ActivationRecords, EmergencyStates
  <1>2. Governed(x)'
    BY DEF BreakGlassTypeOK, Governed, ApprovedByAnother, NotificationTold,
           ApprovalsPaidFor, ReviewedByAnother
  <1>3. ASSUME NEW y \in Emergencies, y # x PROVE Governed(y)'
    BY <1>3, OthersGoverned DEF BreakGlassTypeOK
  <1> QED BY <1>1, <1>2, <1>3

LEMMA ApproveGoverned ==
    ASSUME GlassInv, NEW x \in Emergencies, NEW actor \in Guards, ApproveBreakGlass(x, actor)
    PROVE  GlassInv'
  <1> USE BreakGlassAssumption, RecordOf
      DEF GlassInv, ApproveBreakGlass, SecondControl, MayTurn, EmergencyTransitions
  <1>1. BreakGlassTypeOK'
    <2>1. [activation[x] EXCEPT !.state = "APPROVED", !.approvedBy = actor]
            \in ActivationRecords
      BY DEF ActivationRecords, EmergencyStates
    <2>2. activation' \in [Emergencies -> ActivationRecords \union {NoActivation}]
      BY <2>1 DEF BreakGlassTypeOK
    <2> QED BY <2>2 DEF BreakGlassTypeOK
  <1>2. Governed(x)'
    BY DEF BreakGlassTypeOK, ActivationRecords, Governed, ApprovedByAnother,
           NotificationTold, ApprovalsPaidFor, ReviewedByAnother
  <1>3. ASSUME NEW y \in Emergencies, y # x PROVE Governed(y)'
    BY <1>3, OthersGoverned DEF BreakGlassTypeOK
  <1> QED BY <1>1, <1>2, <1>3

LEMMA ActivateGoverned ==
    ASSUME GlassInv, NEW x \in Emergencies, NEW actor \in Guards, ActivateBreakGlass(x, actor)
    PROVE  GlassInv'
  <1> USE BreakGlassAssumption, RecordOf DEF GlassInv, MayTurn, EmergencyTransitions, Opened
  <1> PICK arrives \in BOOLEAN :
        /\ told' = IF arrives THEN told \union {x} ELSE told
        /\ IF MayTurn(x, Opened(arrives))
             THEN /\ activation' = [activation EXCEPT
                          ![x].state = Opened(arrives),
                          ![x].notification = IF arrives THEN "delivered" ELSE "failed"]
                  /\ activations' = IF Opened(arrives) = "ACTIVATED"
                                      THEN [activations EXCEPT ![x] = @ + 1] ELSE activations
             ELSE UNCHANGED <<activation, activations>>
    BY DEF ActivateBreakGlass
  <1>0. Invoked(x) /\ UNCHANGED <<review, requests, approvals>>
    BY DEF ActivateBreakGlass
  <1>1. BreakGlassTypeOK'
    BY <1>0 DEF BreakGlassTypeOK, ActivationRecords, EmergencyStates
  <1>2. Governed(x)'
    BY <1>0 DEF BreakGlassTypeOK, ActivationRecords, Governed, ApprovedByAnother,
                NotificationTold, ApprovalsPaidFor, ReviewedByAnother
  <1>3. ASSUME NEW y \in Emergencies, y # x PROVE Governed(y)'
    BY <1>0, <1>3, OthersGoverned DEF BreakGlassTypeOK
  <1> QED BY <1>1, <1>2, <1>3

LEMMA EndGoverned ==
    ASSUME GlassInv, NEW x \in Emergencies, NEW target, EndBreakGlass(x, target)
    PROVE  GlassInv'
  <1> USE BreakGlassAssumption, RecordOf
      DEF GlassInv, EndBreakGlass, MayTurn, EmergencyTransitions
  <1>1. BreakGlassTypeOK'
    BY DEF BreakGlassTypeOK, ActivationRecords, EmergencyStates
  <1>2. Governed(x)'
    BY DEF BreakGlassTypeOK, ActivationRecords, Governed, ApprovedByAnother,
           NotificationTold, ApprovalsPaidFor, ReviewedByAnother
  <1>3. ASSUME NEW y \in Emergencies, y # x PROVE Governed(y)'
    BY <1>3, OthersGoverned DEF BreakGlassTypeOK
  <1> QED BY <1>1, <1>2, <1>3

LEMMA ReviewGoverned ==
    ASSUME GlassInv, NEW x \in Emergencies, NEW actor \in Guards,
           CompleteBreakGlassReview(x, actor)
    PROVE  GlassInv'
  <1> USE BreakGlassAssumption, RecordOf
      DEF GlassInv, CompleteBreakGlassReview, Independent
  <1>1. BreakGlassTypeOK'
    BY DEF BreakGlassTypeOK, ActivationRecords, EmergencyStates
  <1>2. Governed(x)'
    BY DEF BreakGlassTypeOK, ActivationRecords, Governed, ApprovedByAnother,
           NotificationTold, ApprovalsPaidFor, ReviewedByAnother
  <1>3. ASSUME NEW y \in Emergencies, y # x PROVE Governed(y)'
    BY <1>3, OthersGoverned DEF BreakGlassTypeOK
  <1> QED BY <1>1, <1>2, <1>3

LEMMA NextGoverned == GlassInv /\ [BreakGlassNext]_glassVars => GlassInv'
  <1> SUFFICES ASSUME GlassInv, [BreakGlassNext]_glassVars PROVE GlassInv'
    OBVIOUS
  <1>1. CASE UNCHANGED glassVars
    BY <1>1 DEF glassVars, GlassInv, BreakGlassTypeOK, Governed, ApprovedByAnother,
                NotificationTold, ApprovalsPaidFor, ReviewedByAnother
  <1>2. CASE BreakGlassNext
    <2> PICK x \in Emergencies, actor \in Guards :
          \/ \E named \in Guards : RequestBreakGlass(x, actor, named)
          \/ ApproveBreakGlass(x, actor)
          \/ ActivateBreakGlass(x, actor)
          \/ \E target \in {"EXPIRED", "REVOKED"} : EndBreakGlass(x, target)
          \/ CompleteBreakGlassReview(x, actor)
      BY <1>2 DEF BreakGlassNext
    <2> QED BY RequestGoverned, ApproveGoverned, ActivateGoverned, EndGoverned,
               ReviewGoverned
  <1> QED BY <1>1, <1>2

LEMMA AlwaysGoverned == BreakGlassSpec => []GlassInv
  BY InitGoverned, NextGoverned, PTL DEF BreakGlassSpec

-----------------------------------------------------------------------------
(* Every reachable state has the types the model declares.                 *)
THEOREM BreakGlassTypeCorrect == BreakGlassSpec => []BreakGlassTypeOK
  BY AlwaysGoverned, PTL DEF GlassInv

(* Access that is or was open was approved by somebody other than its      *)
(* activator, and a notification of it was delivered                       *)
(* (approve_break_glass, activate_break_glass).                            *)
THEOREM OpenAccess == BreakGlassSpec => []OpenAccessIsSharedAndTold
  <1>1. GlassInv => OpenAccessIsSharedAndTold
    BY DEF GlassInv, Governed, ApprovedByAnother, NotificationTold, OpenAccessIsSharedAndTold
  <1> QED BY <1>1, AlwaysGoverned, PTL

(* Access is never opened more often than it was approved                  *)
(* (activate_break_glass).                                                 *)
THEOREM OpeningsAreApproved == BreakGlassSpec => []EachOpeningWasApproved
  <1>1. GlassInv => EachOpeningWasApproved
    BY RecordOf DEF GlassInv, Governed, ApprovalsPaidFor, EachOpeningWasApproved
  <1> QED BY <1>1, AlwaysGoverned, PTL

(* The review on record of a reviewed emergency is by neither its activator*)
(* nor its named approver (complete_break_glass_review).                   *)
THEOREM IndependentReviews == BreakGlassSpec => []ReviewsAreIndependent
  <1>1. GlassInv => ReviewsAreIndependent
    BY DEF GlassInv, Governed, ReviewedByAnother, ReviewsAreIndependent
  <1> QED BY <1>1, AlwaysGoverned, PTL

(* All three together: every opening of emergency access has an approval   *)
(* of its own by another person, somebody was told, and a third reviews it *)
(* (approve_break_glass, activate_break_glass,                             *)
(* complete_break_glass_review).                                           *)
THEOREM EmergenciesAreLawful == BreakGlassSpec => []EmergenciesAreGoverned
  <1>1. OpenAccessIsSharedAndTold /\ EachOpeningWasApproved /\ ReviewsAreIndependent
          <=> EmergenciesAreGoverned
    BY DEF EmergenciesAreGoverned
  <1> QED BY <1>1, OpenAccess, OpeningsAreApproved, IndependentReviews, PTL

-----------------------------------------------------------------------------
(***************************************************************************)
(* Proofs about DataExport, for any officers, exports and artifacts.  An   *)
(* artifact is saved before the state machine is asked, so what protects   *)
(* it is not the state of the export but the approver on its record, whom  *)
(* the caller may have named: the inductive invariant follows both.        *)
(***************************************************************************)

(* An export with an approver on record was approved, or filed so.         *)
ApproverVouched(x) ==
    Filed(x) /\ export[x].approver # NoOfficer => x \in vouched

(* What approval required is still on record in every later state.         *)
ApprovalStands(x) ==
    export[x].state \in PastApproval =>
        /\ export[x].approver \in approvedBy[x] \ {export[x].requester, export[x].owner}
        /\ export[x].disclosed /\ assessment[x] # NoAssessment

ArtifactVouched(a) == Held(a) => artifact[a].of \in vouched

ExportInv ==
    /\ DataExportTypeOK
    /\ \A x \in Exports : ApproverVouched(x) /\ ApprovalStands(x)
    /\ \A a \in Artifacts : ArtifactVouched(a)

-----------------------------------------------------------------------------
LEMMA RequestOf ==
    ASSUME DataExportTypeOK, NEW x \in Exports
    PROVE  /\ Filed(x) => export[x] \in Requests
           /\ approvedBy[x] \subseteq Officers
  BY DEF DataExportTypeOK, Filed

LEMMA ArtifactOf ==
    ASSUME DataExportTypeOK, NEW a \in Artifacts, Held(a)
    PROVE  /\ artifact[a].of \in Exports
           /\ artifact[a] \in [of : Exports, count : 0 .. AccessLimit, revoked : BOOLEAN,
                               expires : 2 .. MaxHours + 1]
  BY DEF DataExportTypeOK, Held

(* A move keeps the request and its owner, and reaches a state past        *)
(* approval only from another one, or by the approval itself.              *)
LEMMA Move ==
    ASSUME DataExportTypeOK, NEW x \in Exports, NEW target, Filed(x), MayMove(x, target)
    PROVE  /\ Moved(x, target) \in [Exports -> Requests \union {NoRequest}]
           /\ Moved(x, target)[x] = [export[x] EXCEPT !.state = target]
           /\ target \in PastApproval \ {"APPROVED"} => export[x].state \in PastApproval
  <1>1. export[x] \in Requests
    BY RequestOf
  <1>2. target \in ExportStates
    BY DEF MayMove, ExportTransitions, ExportStates
  <1>3. [export[x] EXCEPT !.state = target] \in Requests
    BY <1>1, <1>2 DEF Requests
  <1>4. Moved(x, target) = [export EXCEPT ![x] = [export[x] EXCEPT !.state = target]]
    BY DEF Moved
  <1>5. target \in PastApproval \ {"APPROVED"} => export[x].state \in PastApproval
    BY DEF MayMove, ExportTransitions, PastApproval
  <1> QED BY <1>3, <1>4, <1>5 DEF DataExportTypeOK

(* The invariant of a step that touches no artifact, moves only the export *)
(* x, and moves it as the state machine allows.                            *)
LEMMA PlainMove ==
    ASSUME ExportInv, NEW x \in Exports, NEW target, Filed(x), MayMove(x, target),
           target # "APPROVED", export' = Moved(x, target),
           \A y \in Exports : assessment[y] # NoAssessment => assessment'[y] # NoAssessment,
           UNCHANGED <<approvedBy, vouched>>
    PROVE  /\ export' \in [Exports -> Requests \union {NoRequest}]
           /\ \A y \in Exports : ApproverVouched(y)' /\ ApprovalStands(y)'
  <1> USE Move DEF ExportInv
  <1>1. export[x] \in Requests /\ export'[x] = [export[x] EXCEPT !.state = target]
    BY RequestOf
  <1>2. ApproverVouched(x)' /\ ApprovalStands(x)'
    BY <1>1 DEF ApproverVouched, ApprovalStands, Filed, PastApproval, Requests
  <1>3. ASSUME NEW y \in Exports, y # x PROVE ApproverVouched(y)' /\ ApprovalStands(y)'
    <2>1. export'[y] = export[y]
      BY <1>3 DEF Moved, DataExportTypeOK
    <2> QED BY <2>1 DEF ApproverVouched, ApprovalStands, Filed
  <1> QED BY <1>2, <1>3

(* The same for a step that leaves the exports alone.                      *)
LEMMA NoMove ==
    ASSUME ExportInv, UNCHANGED <<export, approvedBy, vouched>>,
           \A y \in Exports : assessment[y] # NoAssessment => assessment'[y] # NoAssessment
    PROVE  /\ export' \in [Exports -> Requests \union {NoRequest}]
           /\ \A y \in Exports : ApproverVouched(y)' /\ ApprovalStands(y)'
  BY DEF ExportInv, DataExportTypeOK, ApproverVouched, ApprovalStands, Filed

LEMMA SameArtifacts ==
    ASSUME ExportInv, UNCHANGED artifact, vouched \subseteq vouched'
    PROVE  \A a \in Artifacts : ArtifactVouched(a)'
  BY ArtifactOf DEF ExportInv, ArtifactVouched, Held

-----------------------------------------------------------------------------
LEMMA InitApproved == DataExportInit => ExportInv
  BY DataExportAssumption
     DEF DataExportInit, ExportInv, DataExportTypeOK, ApproverVouched, ApprovalStands,
         ArtifactVouched, NoRequest, NoArtifact, Filed, Held, PastApproval

LEMMA RequestApproved ==
    ASSUME ExportInv, NEW x \in Exports, RequestDataExport(x)
    PROVE  ExportInv'
  <1> PICK requester \in Officers, owner \in Officers, approver \in Officers \union {NoOfficer},
           disclosed \in BOOLEAN :
        /\ export' = [export EXCEPT ![x] =
                        [state |-> "DLP_ASSESSMENT", requester |-> requester, owner |-> owner,
                         approver |-> approver, disclosed |-> disclosed]]
        /\ vouched' = vouched \union {y \in {x} : approver # NoOfficer}
    BY DEF RequestDataExport
  <1>1. /\ approvedBy' = [approvedBy EXCEPT ![x] = {}]
        /\ UNCHANGED <<assessment, artifact, attested, hour>>
    BY DEF RequestDataExport
  <1>2. export'[x] = [state |-> "DLP_ASSESSMENT", requester |-> requester, owner |-> owner,
                      approver |-> approver, disclosed |-> disclosed]
    BY DEF ExportInv, DataExportTypeOK
  <1>3. export'[x] \in Requests
    BY <1>2 DEF Requests, ExportStates
  <1>4. DataExportTypeOK'
    BY <1>1, <1>2, <1>3 DEF ExportInv, DataExportTypeOK
  <1>5. ApproverVouched(x)' /\ ApprovalStands(x)'
    BY <1>2 DEF ApproverVouched, ApprovalStands, PastApproval
  <1>6. ASSUME NEW y \in Exports, y # x PROVE ApproverVouched(y)' /\ ApprovalStands(y)'
    <2>1. export'[y] = export[y] /\ approvedBy'[y] = approvedBy[y]
      BY <1>1, <1>6 DEF ExportInv, DataExportTypeOK
    <2> QED BY <1>1, <2>1 DEF ExportInv, ApproverVouched, ApprovalStands, Filed
  <1> QED BY <1>1, <1>4, <1>5, <1>6, SameArtifacts DEF ExportInv

LEMMA DlpApproved ==
    ASSUME ExportInv, NEW x \in Exports, NEW actor \in Officers, RecordDlpAssessment(x, actor)
    PROVE  ExportInv'
  <1> PICK outcome \in {"permits", "refuses"} :
        assessment' = [assessment EXCEPT ![x] = [outcome |-> outcome, assessor |-> actor]]
    BY DEF RecordDlpAssessment
  <1>1. /\ Filed(x) /\ UNCHANGED <<artifact, attested, approvedBy, vouched, hour>>
        /\ export' = IF MayMove(x, "DISCLOSURE_ASSESSMENT")
                       THEN Moved(x, "DISCLOSURE_ASSESSMENT") ELSE export
    BY DEF RecordDlpAssessment
  <1>2. \A y \in Exports : assessment[y] # NoAssessment => assessment'[y] # NoAssessment
    BY DEF ExportInv, DataExportTypeOK, NoAssessment
  <1>3. /\ export' \in [Exports -> Requests \union {NoRequest}]
        /\ \A y \in Exports : ApproverVouched(y)' /\ ApprovalStands(y)'
    BY <1>1, <1>2, PlainMove, NoMove
  <1>4. DataExportTypeOK'
    BY <1>1, <1>3 DEF ExportInv, DataExportTypeOK
  <1> QED BY <1>1, <1>3, <1>4, SameArtifacts DEF ExportInv

LEMMA DisclosureApproved ==
    ASSUME ExportInv, NEW x \in Exports, NEW actor \in Officers,
           RecordDisclosureAssessment(x, actor)
    PROVE  ExportInv'
  <1>1. /\ Filed(x) /\ export' = [export EXCEPT ![x].disclosed = TRUE]
        /\ UNCHANGED <<assessment, artifact, attested, approvedBy, vouched, hour>>
    BY DEF RecordDisclosureAssessment
  <1>2. export[x] \in Requests /\ [export[x] EXCEPT !.disclosed = TRUE] \in Requests
    BY <1>1, RequestOf DEF ExportInv, Requests
  <1>3. DataExportTypeOK'
    BY <1>1, <1>2 DEF ExportInv, DataExportTypeOK
  <1>4. ASSUME NEW y \in Exports PROVE ApproverVouched(y)' /\ ApprovalStands(y)'
    BY <1>1, <1>2
       DEF ExportInv, DataExportTypeOK, ApproverVouched, ApprovalStands, Filed, Requests
  <1> QED BY <1>1, <1>3, <1>4, SameArtifacts DEF ExportInv

LEMMA ApproveApproved ==
    ASSUME ExportInv, NEW x \in Exports, NEW actor \in Officers, ApproveDataExport(x, actor)
    PROVE  ExportInv'
  <1>1. /\ Filed(x) /\ assessment[x] # NoAssessment /\ export[x].disclosed
        /\ actor \notin {export[x].requester, export[x].owner}
        /\ MayMove(x, "APPROVED")
        /\ export' = [Moved(x, "APPROVED") EXCEPT ![x].approver = actor]
        /\ approvedBy' = [approvedBy EXCEPT ![x] = @ \union {actor}]
        /\ vouched' = vouched \union {x}
        /\ UNCHANGED <<assessment, artifact, attested, hour>>
    BY DEF ApproveDataExport, MayApprove
  <1>2. export[x] \in Requests
    BY <1>1, RequestOf DEF ExportInv
  <1>3. export'[x] = [export[x] EXCEPT !.state = "APPROVED", !.approver = actor]
    BY <1>1, <1>2, Move DEF ExportInv, Requests
  <1>4. export'[x] \in Requests
    BY <1>2, <1>3 DEF Requests, ExportStates
  <1>5. export' \in [Exports -> Requests \union {NoRequest}]
    BY <1>1, <1>4, Move DEF ExportInv
  <1>6. DataExportTypeOK'
    BY <1>1, <1>5 DEF ExportInv, DataExportTypeOK
  <1>7. ApproverVouched(x)' /\ ApprovalStands(x)'
    <2>1. approvedBy'[x] = approvedBy[x] \union {actor}
      BY <1>1 DEF ExportInv, DataExportTypeOK
    <2>2. /\ export'[x].approver = actor /\ export'[x].requester = export[x].requester
          /\ export'[x].owner = export[x].owner
          /\ export'[x].disclosed = export[x].disclosed
      BY <1>2, <1>3 DEF Requests
    <2>3. export'[x].disclosed
      BY <1>1, <2>2, Zenon
    <2> QED BY <1>1, <2>1, <2>2, <2>3 DEF ApproverVouched, ApprovalStands
  <1>8. ASSUME NEW y \in Exports, y # x PROVE ApproverVouched(y)' /\ ApprovalStands(y)'
    <2>1. export'[y] = export[y] /\ approvedBy'[y] = approvedBy[y]
      BY <1>1, <1>8 DEF ExportInv, DataExportTypeOK, Moved
    <2> QED BY <1>1, <2>1 DEF ExportInv, ApproverVouched, ApprovalStands, Filed
  <1> QED BY <1>1, <1>6, <1>7, <1>8, SameArtifacts DEF ExportInv

(* Denials, deliveries and expiries only move an export.                   *)
LEMMA MoveApproved ==
    ASSUME ExportInv, NEW x \in Exports, NEW target \in {"DENIED", "DELIVERED", "EXPIRED"},
           Filed(x), MayMove(x, target), export' = Moved(x, target),
           UNCHANGED <<assessment, artifact, attested, approvedBy, vouched, hour>>
    PROVE  ExportInv'
  <1>1. /\ export' \in [Exports -> Requests \union {NoRequest}]
        /\ \A y \in Exports : ApproverVouched(y)' /\ ApprovalStands(y)'
    BY PlainMove
  <1>2. DataExportTypeOK'
    BY <1>1 DEF ExportInv, DataExportTypeOK
  <1> QED BY <1>1, <1>2, SameArtifacts DEF ExportInv

LEMMA GenerateApproved ==
    ASSUME ExportInv, NEW x \in Exports, NEW a \in Artifacts, GenerateExportArtifact(x, a)
    PROVE  ExportInv'
  <1>1. /\ Filed(x) /\ export[x].approver # NoOfficer
        /\ artifact' = [artifact EXCEPT ![a] = Fresh(x)]
        /\ export' = IF MayMove(x, "ARTIFACT_GENERATED")
                       THEN Moved(x, "ARTIFACT_GENERATED") ELSE export
        /\ UNCHANGED <<assessment, attested, approvedBy, vouched, hour>>
    BY DEF GenerateExportArtifact, MayGenerate
  <1>2. /\ export' \in [Exports -> Requests \union {NoRequest}]
        /\ \A y \in Exports : ApproverVouched(y)' /\ ApprovalStands(y)'
    BY <1>1, PlainMove, NoMove
  <1>3. Fresh(x) \in [of : Exports, count : 0 .. AccessLimit, revoked : BOOLEAN,
                      expires : 2 .. MaxHours + 1]
    BY DataExportAssumption DEF ExportInv, DataExportTypeOK, Fresh
  <1>4. DataExportTypeOK'
    BY <1>1, <1>2, <1>3 DEF ExportInv, DataExportTypeOK
  <1>5. x \in vouched
    BY <1>1 DEF ExportInv, ApproverVouched
  <1>6. ASSUME NEW b \in Artifacts PROVE ArtifactVouched(b)'
    BY <1>1, <1>5 DEF ExportInv, DataExportTypeOK, ArtifactVouched, Held, Fresh
  <1> QED BY <1>2, <1>4, <1>6 DEF ExportInv

LEMMA AccessApproved ==
    ASSUME ExportInv, NEW a \in Artifacts, AccessExportArtifact(a)
    PROVE  ExportInv'
  <1>1. /\ Held(a) /\ artifact[a].count < AccessLimit
        /\ artifact' = [artifact EXCEPT ![a].count = @ + 1]
        /\ UNCHANGED <<export, assessment, attested, approvedBy, vouched, hour>>
    BY DEF AccessExportArtifact, Accessible
  <1>2. artifact[a] \in [of : Exports, count : 0 .. AccessLimit, revoked : BOOLEAN,
                         expires : 2 .. MaxHours + 1]
    BY <1>1, ArtifactOf DEF ExportInv
  <1>3. [artifact[a] EXCEPT !.count = @ + 1]
            \in [of : Exports, count : 0 .. AccessLimit, revoked : BOOLEAN,
                 expires : 2 .. MaxHours + 1]
    BY <1>1, <1>2, DataExportAssumption
  <1>4. DataExportTypeOK'
    BY <1>1, <1>3 DEF ExportInv, DataExportTypeOK
  <1>5. ASSUME NEW b \in Artifacts PROVE ArtifactVouched(b)'
    BY <1>1, <1>2 DEF ExportInv, DataExportTypeOK, ArtifactVouched, Held
  <1> QED BY <1>1, <1>4, <1>5, NoMove DEF ExportInv

LEMMA RevokeApproved ==
    ASSUME ExportInv, NEW x \in Exports, RevokeDataExport(x)
    PROVE  ExportInv'
  <1> PICK named \in SUBSET Artifacts :
        artifact' = [a \in Artifacts |->
                       IF a \in named /\ Held(a)
                         THEN [artifact[a] EXCEPT !.revoked = TRUE] ELSE artifact[a]]
    BY DEF RevokeDataExport
  <1>1. /\ Filed(x) /\ UNCHANGED <<assessment, attested, approvedBy, vouched, hour>>
        /\ export' = IF MayMove(x, "REVOKED") THEN Moved(x, "REVOKED") ELSE export
    BY DEF RevokeDataExport
  <1>2. /\ export' \in [Exports -> Requests \union {NoRequest}]
        /\ \A y \in Exports : ApproverVouched(y)' /\ ApprovalStands(y)'
    BY <1>1, PlainMove, NoMove
  <1>3. ASSUME NEW a \in Artifacts
        PROVE  /\ artifact'[a] \in [of : Exports, count : 0 .. AccessLimit, revoked : BOOLEAN,
                                    expires : 2 .. MaxHours + 1] \union {NoArtifact}
               /\ Held(a)' => Held(a) /\ artifact'[a].of = artifact[a].of
    <2>1. CASE a \in named /\ Held(a)
      BY <2>1, ArtifactOf DEF ExportInv, Held
    <2>2. CASE ~(a \in named /\ Held(a))
      BY <2>2 DEF ExportInv, DataExportTypeOK, Held
    <2> QED BY <2>1, <2>2
  <1>4. artifact' \in [Artifacts -> [of : Exports, count : 0 .. AccessLimit, revoked : BOOLEAN,
                                     expires : 2 .. MaxHours + 1] \union {NoArtifact}]
    BY <1>3
  <1>5. DataExportTypeOK'
    BY <1>1, <1>2, <1>4 DEF ExportInv, DataExportTypeOK
  <1>6. ASSUME NEW a \in Artifacts, Held(a)' PROVE artifact'[a].of \in vouched
    <2>1. Held(a) /\ artifact'[a].of = artifact[a].of
      BY <1>3, <1>6
    <2> QED BY <2>1 DEF ExportInv, ArtifactVouched
  <1>7. ASSUME NEW a \in Artifacts PROVE ArtifactVouched(a)'
    BY <1>1, <1>6 DEF ArtifactVouched
  <1> QED BY <1>2, <1>5, <1>7 DEF ExportInv

LEMMA AttestApproved ==
    ASSUME ExportInv, NEW x \in Exports, AttestExportDestruction(x)
    PROVE  ExportInv'
  <1>1. /\ Filed(x) /\ attested' = attested \union {x}
        /\ UNCHANGED <<assessment, artifact, approvedBy, vouched, hour>>
        /\ export' = IF MayMove(x, "DESTRUCTION_ATTESTED")
                       THEN Moved(x, "DESTRUCTION_ATTESTED") ELSE export
    BY DEF AttestExportDestruction
  <1>2. /\ export' \in [Exports -> Requests \union {NoRequest}]
        /\ \A y \in Exports : ApproverVouched(y)' /\ ApprovalStands(y)'
    BY <1>1, PlainMove, NoMove
  <1>3. DataExportTypeOK'
    BY <1>1, <1>2 DEF ExportInv, DataExportTypeOK
  <1> QED BY <1>1, <1>2, <1>3, SameArtifacts DEF ExportInv

LEMMA HourApproved == ASSUME ExportInv, HourPasses PROVE ExportInv'
  <1>1. DataExportTypeOK'
    BY DataExportAssumption DEF ExportInv, HourPasses, DataExportTypeOK
  <1> QED BY <1>1, NoMove, SameArtifacts DEF ExportInv, HourPasses

LEMMA NextApproved == ExportInv /\ [DataExportNext]_exportVars => ExportInv'
  <1> SUFFICES ASSUME ExportInv, [DataExportNext]_exportVars PROVE ExportInv'
    OBVIOUS
  <1>1. CASE UNCHANGED exportVars
    <2>1. DataExportTypeOK'
      BY <1>1 DEF ExportInv, exportVars, DataExportTypeOK
    <2> QED BY <1>1, <2>1, NoMove, SameArtifacts DEF ExportInv, exportVars
  <1>2. CASE DataExportNext
    <2>1. CASE \E x \in Exports :
                 \/ RequestDataExport(x)
                 \/ \E a \in Artifacts : GenerateExportArtifact(x, a)
                 \/ RevokeDataExport(x) \/ AttestExportDestruction(x)
      BY <2>1, RequestApproved, GenerateApproved, RevokeApproved, AttestApproved
    <2>2. CASE \E x \in Exports, actor \in Officers :
                 \/ RecordDlpAssessment(x, actor) \/ RecordDisclosureAssessment(x, actor)
                 \/ ApproveDataExport(x, actor)
      BY <2>2, DlpApproved, DisclosureApproved, ApproveApproved
    <2>3. CASE \E x \in Exports, actor \in Officers : DenyDataExport(x, actor)
      BY <2>3, MoveApproved DEF DenyDataExport
    <2>4. CASE \E a \in Artifacts : DeliverExportArtifact(a) \/ ExpireExportArtifact(a)
      <3> PICK a \in Artifacts : DeliverExportArtifact(a) \/ ExpireExportArtifact(a)
        BY <2>4
      <3>1. artifact[a].of \in Exports
        BY ArtifactOf DEF ExportInv, DeliverExportArtifact, ExpireExportArtifact
      <3>2. Filed(artifact[a].of)
        BY <3>1 DEF DeliverExportArtifact, ExpireExportArtifact, MayMove, Filed, NoRequest,
                    ExportTransitions
      <3> QED BY <3>1, <3>2, MoveApproved DEF DeliverExportArtifact, ExpireExportArtifact
    <2>5. CASE \E a \in Artifacts : AccessExportArtifact(a)
      BY <2>5, AccessApproved
    <2> QED BY <1>2, <2>1, <2>2, <2>3, <2>4, <2>5, HourApproved DEF DataExportNext
  <1> QED BY <1>1, <1>2

LEMMA AlwaysApproved == DataExportSpec => []ExportInv
  BY InitApproved, NextApproved, PTL DEF DataExportSpec

-----------------------------------------------------------------------------
(* Every reachable state has the types the model declares; among them, no  *)
(* artifact's count passes the ceiling.                                    *)
THEOREM DataExportTypeCorrect == DataExportSpec => []DataExportTypeOK
  BY AlwaysApproved, PTL DEF ExportInv

(* Whatever was refused, reordered or overwritten on the way, and whomever *)
(* the caller named, an export past its approval names an independent      *)
(* approver who approved the request on record (request_data_export,       *)
(* approve_data_export, generate_export_artifact and the commands after).  *)
THEOREM ApproversAreNamed == DataExportSpec => []DecidedExportsNameTheirApprover
  <1>1. ExportInv => DecidedExportsNameTheirApprover
    BY DEF ExportInv, ApprovalStands, DecidedExportsNameTheirApprover
  <1> QED BY <1>1, AlwaysApproved, PTL

(* An artifact exists only of an export that somebody approved or that was *)
(* filed naming an approver, although it is saved before the state machine *)
(* is asked (generate_export_artifact).                                    *)
THEOREM ArtifactsHaveVouchers == DataExportSpec => []ArtifactsAreVouchedFor
  <1>1. ExportInv => ArtifactsAreVouchedFor
    BY DEF ExportInv, ArtifactVouched, ArtifactsAreVouchedFor
  <1> QED BY <1>1, AlwaysApproved, PTL

(* An export past its approval was approved by somebody entitled to, and   *)
(* no artifact exists of one nobody approved or named an approver for      *)
(* (request_data_export, approve_data_export, generate_export_artifact).   *)
THEOREM ExportsAreApproved == DataExportSpec => []ExportsWereApproved
  BY ApproversAreNamed, ArtifactsHaveVouchers, PTL DEF ExportsWereApproved

-----------------------------------------------------------------------------
(***************************************************************************)
(* Proofs about PrivilegedAccess.                                          *)
(***************************************************************************)

(* How far the life of a grant has come in a state.                        *)
Rank(state) ==
    CASE state = "under_evaluation" -> 0
      [] state = "approved" -> 1
      [] state = "denied" -> 1
      [] state = "activated" -> 2
      [] state = "active" -> 3
      [] state = "expired" -> 4
      [] state = "revoked" -> 4
      [] state = "under_review" -> 5
      [] state = "review_completed" -> 6

LEMMA RankIsNat == \A s \in GrantStates : Rank(s) \in Nat
  BY DEF GrantStates, Rank

LEMMA TransitionsRise ==
  \A s, t : <<s, t>> \in Transitions =>
      /\ s \in GrantStates /\ t \in GrantStates
      /\ Rank(s) < Rank(t)
      /\ s # "denied"
      /\ t \notin {"under_evaluation", "approved", "denied"}
  BY DEF Transitions, GrantStates, Rank

(* The life of a grant goes one way: decided once, and from then on every  *)
(* state is further than the one before.                                   *)
OneWay(h) ==
    /\ h \in Seq(GrantStates)
    /\ Len(h) >= 2
    /\ h[1] = "under_evaluation" /\ h[2] \in {"approved", "denied"}
    /\ Len(h) > 2 => h[2] = "approved"
    /\ \A i, j \in 1 .. Len(h) : i < j => Rank(h[i]) < Rank(h[j])

Links == {chain[i] : i \in DOMAIN chain}

GrantsInv ==
    /\ requested \subseteq Subjects
    /\ lapsed \subseteq GrantIds /\ superseded \subseteq GrantIds
    /\ grants \in [GrantIds -> Grants \cup {NoGrant}]
    /\ \A g \in GrantIds : grants[g] # NoGrant => OneWay(grants[g].history)

ChainInv ==
    /\ sessions \in [SessionIds -> Sessions \cup {NoSession}]
    /\ chain \in Seq(Links)
    /\ \A i \in DOMAIN chain :
          chain[i].session \in SessionIds /\ chain[i].operations \in 0 .. MaxOperations
    /\ ChainVerifies
    /\ SealedEvidenceStands

PrivilegedInv == GrantsInv /\ ChainInv

grantVars == <<requested, grants, timeVars>>
evidenceVars == <<sessions, chain>>

LEMMA NoActorApart == NoActor \notin Subjects /\ MaxOperations \in Nat
  BY PrivilegedAccessAssumption DEF PrivilegedAccessAssumption

(* A transition of a history that goes one way goes the same way on.       *)
LEMMA OneWayOn ==
  ASSUME NEW h, OneWay(h), NEW t, <<h[Len(h)], t>> \in Transitions
  PROVE  OneWay(Append(h, t))
  <1> DEFINE k == Append(h, t)
  <1>1. /\ h[Len(h)] \in GrantStates /\ t \in GrantStates /\ Rank(h[Len(h)]) < Rank(t)
        /\ h[Len(h)] # "denied"
    BY TransitionsRise
  <1>2. h \in Seq(GrantStates) /\ Len(h) >= 2 /\ Len(h) \in Nat
    BY DEF OneWay
  <1>3. /\ k \in Seq(GrantStates) /\ Len(k) = Len(h) + 1 /\ k[Len(h) + 1] = t
        /\ \A i \in 1 .. Len(h) : k[i] = h[i]
    BY <1>1, <1>2
  <1>4. /\ \A i \in 1 .. Len(h) : Rank(h[i]) \in Nat
        /\ Rank(t) \in Nat
    BY <1>1, <1>2, RankIsNat
  <1>5. \A i \in 1 .. Len(h) : Rank(h[i]) < Rank(t)
    <2> TAKE i \in 1 .. Len(h)
    <2>1. CASE i = Len(h)
      BY <2>1, <1>1
    <2>2. CASE i < Len(h)
      <3>1. Len(h) \in 1 .. Len(h)
        BY <1>2
      <3>2. Rank(h[i]) < Rank(h[Len(h)])
        BY <2>2, <3>1 DEF OneWay
      <3> QED
        BY <1>1, <1>4, <3>1, <3>2
    <2> QED
      BY <2>1, <2>2, <1>2
  <1> HIDE DEF k
  <1>6. \A i, j \in 1 .. Len(k) : i < j => Rank(k[i]) < Rank(k[j])
    <2> TAKE i, j \in 1 .. Len(k)
    <2> HAVE i < j
    <2>1. i \in 1 .. Len(h)
      BY <1>2, <1>3
    <2>2. CASE j = Len(h) + 1
      BY <2>1, <2>2, <1>3, <1>5
    <2>3. CASE j # Len(h) + 1
      <3>1. j \in 1 .. Len(h)
        BY <2>3, <1>2, <1>3
      <3> QED
        BY <2>1, <3>1, <1>3 DEF OneWay
    <2> QED
      BY <2>2, <2>3
  <1>7. Len(k) >= 2 /\ k[1] = h[1] /\ k[2] = h[2]
    BY <1>2, <1>3
  <1>8. h[2] = "approved"
    <2>1. CASE Len(h) = 2
      BY <2>1, <1>1 DEF OneWay
    <2>2. CASE Len(h) > 2
      BY <2>2 DEF OneWay
    <2> QED
      BY <1>2, <2>1, <2>2
  <1>9. OneWay(k)
    BY <1>3, <1>6, <1>7, <1>8 DEF OneWay
  <1> QED
    BY <1>9 DEF k

(* A grant that may enter a state is one, and stays one when it does.      *)
LEMMA GrantEnters ==
  ASSUME GrantsInv, NEW g \in GrantIds, NEW t, MayEnter(grants[g], t)
  PROVE  /\ grants[g] \in Grants
         /\ WithState(grants[g], t) \in Grants
         /\ OneWay(WithState(grants[g], t).history)
  <1>1. State(grants[g]) \in GrantStates /\ t \in GrantStates
    BY TransitionsRise DEF MayEnter
  <1>2. grants[g] # NoGrant
    BY <1>1 DEF State, NoGrant, GrantStates
  <1>3. grants[g] \in Grants /\ OneWay(grants[g].history)
    BY <1>2 DEF GrantsInv
  <1> DEFINE h == grants[g].history
  <1>4. h # <<>>
    BY <1>3 DEF OneWay
  <1>5. <<h[Len(h)], t>> \in Transitions
    BY <1>4 DEF MayEnter, State, Last
  <1>6. WithState(grants[g], t) = [grants[g] EXCEPT !.history = Append(h, t)]
    BY DEF WithState
  <1> HIDE DEF h
  <1>7. OneWay(Append(h, t))
    BY <1>3, <1>5, OneWayOn DEF h
  <1>8. Append(h, t) \in Seq(GrantStates)
    BY <1>7 DEF OneWay
  <1>9. WithState(grants[g], t) \in Grants /\ WithState(grants[g], t).history = Append(h, t)
    BY <1>3, <1>6, <1>8 DEF Grants
  <1> QED
    BY <1>3, <1>7, <1>9

(* One grant replaced by another in the register.                          *)
LEMMA GrantStored ==
  ASSUME GrantsInv, NEW g \in GrantIds, NEW new \in Grants, OneWay(new.history),
         grants' = [grants EXCEPT ![g] = new], UNCHANGED requested,
         lapsed' \subseteq lapsed, superseded' \subseteq superseded
  PROVE  GrantsInv'
  <1>1. grants \in [GrantIds -> Grants \cup {NoGrant}]
    BY DEF GrantsInv
  <1>2. /\ grants' \in [GrantIds -> Grants \cup {NoGrant}]
        /\ grants'[g] = new
        /\ \A h \in GrantIds : h # g => grants'[h] = grants[h]
    BY <1>1
  <1> QED
    BY <1>2 DEF GrantsInv

LEMMA GrantSaved ==
  ASSUME GrantsInv, NEW g \in GrantIds, NEW t, MayEnter(grants[g], t),
         SaveGrant(g, WithState(grants[g], t))
  PROVE  GrantsInv' /\ UNCHANGED evidenceVars
  <1>1. WithState(grants[g], t) \in Grants /\ OneWay(WithState(grants[g], t).history)
    BY GrantEnters
  <1>2. /\ grants' = [grants EXCEPT ![g] = WithState(grants[g], t)]
        /\ UNCHANGED <<requested, sessions, chain, lapsed, superseded>>
    BY DEF SaveGrant, timeVars
  <1> QED
    BY <1>1, <1>2, GrantStored DEF evidenceVars

(* What Append does to a sequence.                                         *)
LEMMA Appended ==
  ASSUME NEW S, NEW s \in Seq(S), NEW x \in S
  PROVE  /\ Append(s, x) \in Seq(S)
         /\ Len(Append(s, x)) = Len(s) + 1
         /\ Append(s, x)[Len(s) + 1] = x
         /\ \A i \in 1 .. Len(s) : Append(s, x)[i] = s[i]
  OBVIOUS

(* A decision stores a history of two entries.                             *)
LEMMA FirstHistory ==
  ASSUME NEW t \in {"approved", "denied"}
  PROVE  OneWay(Append(<<"under_evaluation">>, t))
  <1>1. PICK f : f = <<"under_evaluation">>
    OBVIOUS
  <1>2. f \in Seq(GrantStates)
    BY <1>1 DEF GrantStates
  <1>3. Len(f) = 1 /\ f[1] = "under_evaluation"
    BY <1>1
  <1>4. t \in GrantStates
    BY DEF GrantStates
  <1>5. PICK h : h = Append(f, t)
    OBVIOUS
  <1>6. /\ h \in Seq(GrantStates) /\ Len(h) = Len(f) + 1 /\ h[Len(f) + 1] = t
        /\ \A i \in 1 .. Len(f) : h[i] = f[i]
    <2>1. /\ Append(f, t) \in Seq(GrantStates)
          /\ Len(Append(f, t)) = Len(f) + 1
          /\ Append(f, t)[Len(f) + 1] = t
          /\ \A i \in 1 .. Len(f) : Append(f, t)[i] = f[i]
      BY <1>2, <1>4, Appended
    <2> QED
      BY <2>1, <1>5
  <1>7. Len(h) = 2 /\ h[1] = "under_evaluation" /\ h[2] = t
    BY <1>3, <1>6
  <1>8. Rank(h[1]) < Rank(h[2])
    BY <1>7 DEF Rank
  <1>9. \A i, j \in 1 .. Len(h) : i < j => Rank(h[i]) < Rank(h[j])
    <2> TAKE i, j \in 1 .. Len(h)
    <2> HAVE i < j
    <2>1. i = 1 /\ j = 2
      BY <1>7
    <2> QED
      BY <2>1, <1>8
  <1>10. OneWay(h)
    <2>1. Len(h) >= 2 /\ ~(Len(h) > 2)
      BY <1>7
    <2>2. h[2] \in {"approved", "denied"}
      BY <1>7
    <2> QED
      BY <2>1, <2>2, <1>6, <1>7, <1>9 DEF OneWay
  <1> QED
    BY <1>1, <1>5, <1>10

LEMMA GrantDecided ==
  ASSUME GrantsInv, NEW g \in GrantIds, NEW subject \in Subjects, NEW approvers \in SUBSET Actors,
         NEW t \in {"approved", "denied"}, Decide(g, WithState(Evaluated(subject, approvers), t))
  PROVE  GrantsInv' /\ UNCHANGED evidenceVars
  <1> DEFINE new == WithState(Evaluated(subject, approvers), t)
  <1>1. new = [subject |-> subject, approvers |-> approvers,
               history |-> Append(<<"under_evaluation">>, t)]
    BY DEF WithState, Evaluated
  <1>2. PICK h : h = Append(<<"under_evaluation">>, t)
    OBVIOUS
  <1>5. OneWay(h)
    BY <1>2, FirstHistory
  <1>6. new \in Grants /\ new.history = h
    BY <1>1, <1>2, <1>5 DEF Grants, OneWay
  <1>7. /\ grants' = [grants EXCEPT ![g] = new]
        /\ lapsed' = lapsed \ {g} /\ superseded' = superseded \ {g}
        /\ UNCHANGED <<requested, sessions, chain>>
    BY DEF Decide
  <1> HIDE DEF new
  <1> QED
    BY <1>5, <1>6, <1>7, GrantStored DEF evidenceVars

(* Sessions and chain stand still while grants move, and the reverse.      *)
LEMMA ChainUntouched == ASSUME ChainInv, UNCHANGED evidenceVars PROVE ChainInv'
  BY DEF ChainInv, evidenceVars, Links, ChainVerifies, SealedEvidenceStands

LEMMA GrantsUntouched == ASSUME GrantsInv, UNCHANGED grantVars PROVE GrantsInv'
  BY DEF GrantsInv, grantVars, timeVars

(* A session that is not sealed, in the place of any other.                *)
LEMMA SessionStored ==
  ASSUME ChainInv, NEW s \in SessionIds, NEW new \in Sessions, new.state # "sealed",
         sessions' = [sessions EXCEPT ![s] = new], chain' = chain
  PROVE  ChainInv'
  <1>1. sessions \in [SessionIds -> Sessions \cup {NoSession}]
    BY DEF ChainInv
  <1>2. /\ sessions' \in [SessionIds -> Sessions \cup {NoSession}]
        /\ sessions'[s] = new
        /\ \A z \in SessionIds : z # s => sessions'[z] = sessions[z]
    BY <1>1
  <1>3. SealedEvidenceStands'
    BY <1>2 DEF ChainInv, SealedEvidenceStands
  <1>4. ChainVerifies' /\ Links' = Links
    BY DEF ChainInv, ChainVerifies, Links
  <1> QED
    BY <1>2, <1>3, <1>4 DEF ChainInv

LEMMA SessionOpened ==
  ASSUME PrivilegedInv, NEW s \in SessionIds, NEW g \in GrantIds, OpenSession(s, g),
         \/ UNCHANGED grants
         \/ grants' = [grants EXCEPT ![g] = IF State(@) = "activated"
                                            THEN WithState(@, "active") ELSE @]
  PROVE  PrivilegedInv'
  <1>1. GrantsInv /\ ChainInv
    BY DEF PrivilegedInv
  <1>2. State(grants[g]) \in {"activated", "active"}
    BY DEF OpenSession, Usable
  <1>3. grants[g] # NoGrant
    BY <1>2 DEF State, NoGrant
  <1>4. grants[g] \in Grants
    BY <1>1, <1>3 DEF GrantsInv
  <1> DEFINE new == [grant |-> g, subject |-> grants[g].subject, state |-> "started",
                     operations |-> 0]
  <1>5. new \in Sessions /\ new.state = "started"
    BY <1>4, NoActorApart DEF Sessions, Grants
  <1>6. sessions' = [sessions EXCEPT ![s] = new] /\ chain' = chain
    BY DEF OpenSession
  <1> HIDE DEF new
  <1>7. ChainInv'
    BY <1>1, <1>5, <1>6, SessionStored
  <1>8. UNCHANGED <<requested, lapsed, superseded>>
    BY DEF OpenSession, timeVars
  <1>9. CASE grants' = grants
    BY <1>1, <1>7, <1>8, <1>9 DEF GrantsInv, PrivilegedInv
  <1>10. CASE State(grants[g]) = "activated"
              /\ grants' = [grants EXCEPT ![g] = WithState(grants[g], "active")]
    <2>1. MayEnter(grants[g], "active")
      BY <1>10 DEF MayEnter, Transitions
    <2>2. WithState(grants[g], "active") \in Grants
          /\ OneWay(WithState(grants[g], "active").history)
      BY <1>1, <2>1, GrantEnters
    <2>3. GrantsInv'
      BY <1>1, <1>8, <1>10, <2>2, GrantStored
    <2> QED
      BY <1>7, <2>3 DEF PrivilegedInv
  <1>11. grants \in [GrantIds -> Grants \cup {NoGrant}]
    BY <1>1 DEF GrantsInv
  <1> QED
    BY <1>9, <1>10, <1>11

LEMMA OperationRecorded ==
  ASSUME ChainInv, NEW s \in SessionIds, RecordOperation(s) \/ EndSession(s)
  PROVE  ChainInv' /\ UNCHANGED grantVars
  <1>1. sessions \in [SessionIds -> Sessions \cup {NoSession}]
    BY DEF ChainInv
  <1>2. sessions[s].state = "started"
    BY DEF RecordOperation, MayRecord, EndSession
  <1>3. sessions[s] \in Sessions
    BY <1>1, <1>2 DEF NoSession
  <1>4. \E new \in Sessions : new.state # "sealed" /\ sessions' = [sessions EXCEPT ![s] = new]
    <2>1. CASE RecordOperation(s)
      <3> DEFINE n == sessions[s].operations + 1
      <3>1. n \in 0 .. MaxOperations
        BY <1>3, <2>1, NoActorApart DEF RecordOperation, Sessions
      <3> DEFINE new == [sessions[s] EXCEPT !.operations = n]
      <3>2. sessions' = [sessions EXCEPT ![s] = new]
        BY <1>1, <2>1 DEF RecordOperation
      <3> HIDE DEF n
      <3>3. new \in Sessions /\ new.state = "started"
        BY <1>2, <1>3, <3>1 DEF Sessions
      <3> QED
        BY <3>2, <3>3
    <2>2. CASE EndSession(s)
      <3> DEFINE new == [sessions[s] EXCEPT !.state = "ended"]
      <3>1. sessions' = [sessions EXCEPT ![s] = new]
        BY <1>1, <2>2 DEF EndSession
      <3>2. new \in Sessions /\ new.state = "ended"
        BY <1>3 DEF Sessions
      <3> QED
        BY <3>1, <3>2
    <2> QED
      BY <2>1, <2>2
  <1>5. chain' = chain /\ UNCHANGED grantVars
    BY DEF RecordOperation, EndSession, grantVars
  <1> QED
    BY <1>4, <1>5, SessionStored

(* The chain grows by a link to its head.                                  *)
LEMMA LinkAppended ==
  ASSUME ChainInv, NEW s \in SessionIds, sessions[s].state = "ended",
         chain' = Append(chain, SealedLink(s))
  PROVE  /\ chain' \in Seq(Links')
         /\ \A i \in DOMAIN chain' :
              chain'[i].session \in SessionIds /\ chain'[i].operations \in 0 .. MaxOperations
         /\ ChainVerifies'
         /\ \A i \in DOMAIN chain : i \in DOMAIN chain' /\ chain'[i] = chain[i]
         /\ \E i \in DOMAIN chain' : /\ chain'[i].session = s
                                     /\ chain'[i].operations = sessions[s].operations
  <1> DEFINE link == SealedLink(s)
  <1>1. chain \in Seq(Links)
    BY DEF ChainInv
  <1>2. sessions[s] \in Sessions
    BY DEF ChainInv, NoSession
  <1>3. /\ link.session = s /\ link.operations = sessions[s].operations
        /\ link.previous = HeadHash
        /\ link.operations \in 0 .. MaxOperations
    BY <1>2 DEF SealedLink, Sessions
  <1> HIDE DEF link
  <1>4. chain' = Append(chain, link)
    BY DEF link
  <1>4a. chain \in Seq(Links \cup {link}) /\ link \in Links \cup {link}
    BY <1>1
  <1>5. /\ Len(chain) \in Nat /\ DOMAIN chain = 1 .. Len(chain)
        /\ Len(chain') = Len(chain) + 1 /\ DOMAIN chain' = 1 .. Len(chain) + 1
        /\ chain'[Len(chain) + 1] = link
        /\ \A i \in 1 .. Len(chain) : chain'[i] = chain[i]
        /\ chain' \in Seq(Links \cup {link})
    BY <1>4, <1>4a
  <1>6. Links' = Links \cup {link}
    BY <1>5 DEF Links
  <1>7. ChainVerifies'
    <2> SUFFICES ASSUME NEW i \in 1 .. Len(chain) + 1
                 PROVE  chain'[i].previous = IF i = 1 THEN Genesis ELSE chain'[i - 1]
      BY <1>5 DEF ChainVerifies
    <2>1. CASE i \in 1 .. Len(chain)
      <3>1. chain[i].previous = IF i = 1 THEN Genesis ELSE chain[i - 1]
        BY <2>1, <1>5 DEF ChainInv, ChainVerifies
      <3>2. i # 1 => i - 1 \in 1 .. Len(chain)
        BY <2>1, <1>5
      <3> QED
        BY <2>1, <3>1, <3>2, <1>5
    <2>2. CASE i = Len(chain) + 1
      <3>1. CASE chain = <<>>
        <4>1. Len(chain) = 0
          BY <3>1
        <4> QED
          BY <2>2, <3>1, <4>1, <1>3, <1>5 DEF HeadHash
      <3>2. CASE chain # <<>>
        <4>1. Len(chain) # 0
          BY <3>2, <1>1
        <4>2. i # 1 /\ i - 1 = Len(chain) /\ Len(chain) \in 1 .. Len(chain)
          BY <2>2, <4>1, <1>5
        <4> QED
          BY <2>2, <3>2, <4>2, <1>3, <1>5 DEF HeadHash, Last
      <3> QED
        BY <3>1, <3>2
    <2> QED
      BY <2>1, <2>2, <1>5
  <1>8. \A i \in DOMAIN chain' :
            chain'[i].session \in SessionIds /\ chain'[i].operations \in 0 .. MaxOperations
    <2> TAKE i \in DOMAIN chain'
    <2>1. i \in DOMAIN chain \/ i = Len(chain) + 1
      BY <1>5
    <2> QED
      BY <2>1, <1>3, <1>5 DEF ChainInv
  <1>9. Len(chain) + 1 \in DOMAIN chain'
    BY <1>5
  <1> QED
    BY <1>3, <1>5, <1>6, <1>7, <1>8, <1>9

LEMMA SessionSealed ==
  ASSUME ChainInv, NEW s \in SessionIds, NEW actor \in Actors,
         SealSession(actor, s) \/ SealSessionHalf(actor, s)
  PROVE  ChainInv' /\ UNCHANGED grantVars
  <1>1. /\ sessions[s].state = "ended" /\ chain' = Append(chain, SealedLink(s))
        /\ UNCHANGED grantVars
        /\ sessions' = [sessions EXCEPT ![s].state = "sealed"] \/ sessions' = sessions
    BY DEF SealSession, SealSessionHalf, MaySeal, grantVars
  <1>2. /\ chain' \in Seq(Links')
        /\ \A i \in DOMAIN chain' :
              chain'[i].session \in SessionIds /\ chain'[i].operations \in 0 .. MaxOperations
        /\ ChainVerifies'
        /\ \A i \in DOMAIN chain : i \in DOMAIN chain' /\ chain'[i] = chain[i]
        /\ \E i \in DOMAIN chain' : /\ chain'[i].session = s
                                    /\ chain'[i].operations = sessions[s].operations
    BY <1>1, LinkAppended
  <1>3. sessions \in [SessionIds -> Sessions \cup {NoSession}]
    BY DEF ChainInv
  <1>4. sessions[s] \in Sessions
    BY <1>1, <1>3 DEF NoSession
  <1> DEFINE new == [sessions[s] EXCEPT !.state = "sealed"]
  <1>5. new \in Sessions /\ new.operations = sessions[s].operations
    BY <1>4 DEF Sessions
  <1>6. sessions' = [sessions EXCEPT ![s] = new] \/ sessions' = sessions
    BY <1>1, <1>3
  <1> HIDE DEF new
  <1>7. /\ sessions' \in [SessionIds -> Sessions \cup {NoSession}]
        /\ \A z \in SessionIds : z # s => sessions'[z] = sessions[z]
        /\ sessions'[s] = sessions[s] \/ sessions'[s] = new
    BY <1>3, <1>5, <1>6
  <1>8. SealedEvidenceStands'
    <2> SUFFICES ASSUME NEW z \in SessionIds, sessions'[z].state = "sealed"
                 PROVE  \E i \in DOMAIN chain' : /\ chain'[i].session = z
                                                 /\ chain'[i].operations = sessions'[z].operations
      BY DEF SealedEvidenceStands
    <2>1. CASE z = s
      BY <2>1, <1>1, <1>2, <1>5, <1>7
    <2>2. CASE z # s
      <3>1. \E i \in DOMAIN chain : chain[i].session = z
                                    /\ chain[i].operations = sessions[z].operations
        BY <2>2, <1>7 DEF ChainInv, SealedEvidenceStands
      <3> QED
        BY <2>2, <3>1, <1>2, <1>7
    <2> QED
      BY <2>1, <2>2
  <1> QED
    BY <1>1, <1>2, <1>7, <1>8 DEF ChainInv

LEMMA PrivilegedStart == PrivilegedInit => PrivilegedInv
  <1> SUFFICES ASSUME PrivilegedInit PROVE PrivilegedInv
    OBVIOUS
  <1>1. GrantsInv
    BY DEF PrivilegedInit, GrantsInv
  <1>2. chain = <<>> /\ DOMAIN chain = {}
    BY DEF PrivilegedInit
  <1>3. chain \in Seq(Links) /\ ChainVerifies
    BY <1>2 DEF ChainVerifies
  <1>4. SealedEvidenceStands
    BY DEF PrivilegedInit, SealedEvidenceStands, NoSession
  <1>5. sessions \in [SessionIds -> Sessions \cup {NoSession}]
    BY DEF PrivilegedInit
  <1> QED
    BY <1>1, <1>2, <1>3, <1>4, <1>5 DEF PrivilegedInv, ChainInv

LEMMA PrivilegedStep == PrivilegedInv /\ [PrivilegedNext]_privilegedVars => PrivilegedInv'
  <1> SUFFICES ASSUME PrivilegedInv, [PrivilegedNext]_privilegedVars PROVE PrivilegedInv'
    OBVIOUS
  <1>g. GrantsInv /\ ChainInv
    BY DEF PrivilegedInv
  <1>1. CASE UNCHANGED privilegedVars
    <2>1. UNCHANGED grantVars /\ UNCHANGED evidenceVars
      BY <1>1 DEF privilegedVars, grantVars, evidenceVars
    <2> QED
      BY <2>1, <1>g, GrantsUntouched, ChainUntouched DEF PrivilegedInv
  <1>2. CASE PolicyChanges
    <2>1. UNCHANGED evidenceVars /\ GrantsInv'
      BY <1>2, <1>g DEF PolicyChanges, GrantsInv, evidenceVars
    <2> QED
      BY <2>1, <1>g, ChainUntouched DEF PrivilegedInv
  <1>3. ASSUME NEW subject \in Subjects, RequestAccess(subject) PROVE PrivilegedInv'
    <2>1. UNCHANGED evidenceVars /\ GrantsInv'
      BY <1>3, <1>g DEF RequestAccess, GrantsInv, evidenceVars, timeVars
    <2> QED
      BY <2>1, <1>g, ChainUntouched DEF PrivilegedInv
  <1>4. ASSUME NEW g \in GrantIds, GrantLapses(g) PROVE PrivilegedInv'
    <2>1. UNCHANGED evidenceVars /\ GrantsInv'
      BY <1>4, <1>g DEF GrantLapses, GrantsInv, evidenceVars
    <2> QED
      BY <2>1, <1>g, ChainUntouched DEF PrivilegedInv
  <1>5. ASSUME NEW g \in GrantIds, NEW t, EndAccess(g, t) PROVE PrivilegedInv'
    BY <1>5, <1>g, GrantSaved, ChainUntouched DEF EndAccess, PrivilegedInv
  <1>6. ASSUME NEW actor \in Actors, NEW g \in GrantIds,
               ActivateAccess(actor, g) \/ RequestReview(actor, g) \/ CompleteReview(actor, g)
        PROVE  PrivilegedInv'
    <2>1. \E t : MayEnter(grants[g], t) /\ SaveGrant(g, WithState(grants[g], t))
      <3>1. CASE ActivateAccess(actor, g)
        BY <3>1 DEF ActivateAccess
      <3>2. CASE RequestReview(actor, g)
        BY <3>2 DEF RequestReview
      <3>3. CASE CompleteReview(actor, g)
        BY <3>3 DEF CompleteReview
      <3> QED
        BY <1>6, <3>1, <3>2, <3>3
    <2> QED
      BY <2>1, <1>g, GrantSaved, ChainUntouched DEF PrivilegedInv
  <1>7. ASSUME NEW actor \in Actors, NEW g \in GrantIds, NEW subject \in Subjects,
               NEW approvers \in SUBSET Actors, ApproveAccess(actor, subject, g, approvers)
        PROVE  PrivilegedInv'
    <2>1. "approved" \in {"approved", "denied"}
      OBVIOUS
    <2> QED
      BY <2>1, <1>7, <1>g, GrantDecided, ChainUntouched DEF ApproveAccess, PrivilegedInv
  <1>8. ASSUME NEW actor \in Actors, NEW g \in GrantIds, NEW subject \in Subjects,
               DenyAccess(actor, subject, g)
        PROVE  PrivilegedInv'
    <2>1. "denied" \in {"approved", "denied"} /\ {} \in SUBSET Actors
      OBVIOUS
    <2> QED
      BY <2>1, <1>8, <1>g, GrantDecided, ChainUntouched DEF DenyAccess, PrivilegedInv
  <1>9. ASSUME NEW s \in SessionIds, NEW g \in GrantIds,
               StartSession(s, g) \/ StartSessionHalf(s, g)
        PROVE  PrivilegedInv'
    BY <1>9, SessionOpened DEF StartSession, StartSessionHalf
  <1>10. ASSUME NEW s \in SessionIds, RecordOperation(s) \/ EndSession(s) PROVE PrivilegedInv'
    BY <1>10, <1>g, OperationRecorded, GrantsUntouched DEF PrivilegedInv
  <1>11. ASSUME NEW s \in SessionIds, NEW a \in Actors, SealSession(a, s) \/ SealSessionHalf(a, s)
         PROVE  PrivilegedInv'
    BY <1>11, <1>g, SessionSealed, GrantsUntouched DEF PrivilegedInv
  <1> QED
    BY <1>1, <1>2, <1>3, <1>4, <1>5, <1>6, <1>7, <1>8, <1>9, <1>10, <1>11 DEF PrivilegedNext

LEMMA PrivilegedInvHolds == PrivilegedSpec => []PrivilegedInv
  BY PrivilegedStart, PrivilegedStep, PTL DEF PrivilegedSpec

(* A history that goes one way was approved before it was activated, which *)
(* it was once at most, and is not usable after its end.                   *)
LEMMA OneWayEnds ==
  ASSUME NEW grant, OneWay(grant.history)
  PROVE  /\ Cardinality(Entries(grant, "activated")) <= Cardinality(Entries(grant, "approved"))
         /\ \A i \in Entries(grant, "revoked") \cup Entries(grant, "expired") :
              \A j \in Entries(grant, "activated") \cup Entries(grant, "active") : j < i
  <1> DEFINE h == grant.history
             activated == Entries(grant, "activated")
             approved == Entries(grant, "approved")
  <1>1. h \in Seq(GrantStates) /\ Len(h) \in Nat /\ DOMAIN h = 1 .. Len(h)
    BY DEF OneWay
  <1>2. \A i, j \in DOMAIN h : i < j => Rank(h[i]) < Rank(h[j])
    BY <1>1 DEF OneWay
  <1>3. \A i, j \in DOMAIN h : i \in Nat /\ j \in Nat /\ (i < j \/ j < i \/ i = j)
    BY <1>1
  <1>4. /\ Rank("activated") = 2 /\ Rank("active") = 3 /\ Rank("approved") = 1
        /\ Rank("revoked") = 4 /\ Rank("expired") = 4
    BY DEF Rank
  <1>5. \A i \in Entries(grant, "revoked") \cup Entries(grant, "expired") :
            \A j \in Entries(grant, "activated") \cup Entries(grant, "active") : j < i
    <2> TAKE i \in Entries(grant, "revoked") \cup Entries(grant, "expired")
    <2> TAKE j \in Entries(grant, "activated") \cup Entries(grant, "active")
    <2>1. i \in DOMAIN h /\ j \in DOMAIN h /\ Rank(h[i]) = 4 /\ Rank(h[j]) \in {2, 3}
      BY <1>4 DEF Entries
    <2>2. ~(i < j) /\ i # j
      BY <2>1, <1>2
    <2> QED
      BY <2>1, <2>2, <1>3
  <1>6. \A i, j \in activated : i = j
    <2> TAKE i, j \in activated
    <2>1. i \in DOMAIN h /\ j \in DOMAIN h /\ Rank(h[i]) = 2 /\ Rank(h[j]) = 2
      BY <1>4 DEF Entries
    <2>2. ~(i < j) /\ ~(j < i)
      BY <2>1, <1>2
    <2> QED
      BY <2>1, <2>2, <1>3
  <1>7. approved \in SUBSET (1 .. Len(h))
    BY <1>1 DEF Entries
  <1>8. IsFiniteSet(1 .. Len(h))
    BY <1>1, FS_Interval
  <1>9. IsFiniteSet(approved) /\ Cardinality(approved) \in Nat
    BY <1>7, <1>8, FS_Subset, FS_CardinalityType
  <1>10. CASE activated = {}
    <2>1. Cardinality(activated) = 0
      BY <1>10, FS_EmptySet
    <2> QED
      BY <1>5, <1>9, <2>1
  <1>11. ASSUME NEW i \in activated
         PROVE  Cardinality(activated) <= Cardinality(approved)
    <2>1. activated = {i}
      BY <1>6
    <2>2. Cardinality(activated) = 1
      BY <2>1, FS_Singleton
    <2>3. i \in 1 .. Len(h) /\ h[i] = "activated"
      BY <1>1 DEF Entries
    <2>4. i # 1 /\ i # 2
      BY <2>3 DEF OneWay
    <2>5. Len(h) > 2
      BY <1>1, <2>3, <2>4
    <2>6. 2 \in approved
      BY <1>1, <2>5 DEF OneWay, Entries
    <2> HIDE DEF approved
    <2>7. approved # {}
      BY <2>6
    <2>8. Cardinality(approved) # 0
      BY <1>9, <2>7, FS_EmptySet
    <2> QED
      BY <1>9, <2>2, <2>8
  <1> QED
    BY <1>5, <1>10, <1>11

(* The register, the sessions and the chain keep their types.              *)
THEOREM PrivilegedTypeCorrect == PrivilegedSpec => []PrivilegedTypeOK
  <1>1. PrivilegedInv => PrivilegedTypeOK
    BY DEF PrivilegedInv, GrantsInv, ChainInv, PrivilegedTypeOK
  <1> QED
    BY <1>1, PrivilegedInvHolds, PTL

(* For any actors, grants and sessions, under ids used again and sealings  *)
(* that stop half way: access that ended comes back only by a new          *)
(* decision, and what the store calls sealed is in an unbroken chain.      *)
THEOREM EvidenceIsLeft == PrivilegedSpec => []AccessLeavesEvidence
  <1>1. ASSUME PrivilegedInv PROVE AccessLeavesEvidence
    <2>1. ChainVerifies /\ SealedEvidenceStands
      BY <1>1 DEF PrivilegedInv, ChainInv
    <2>2. ASSUME NEW g \in GrantIds
          PROVE  /\ Cardinality(Entries(grants[g], "activated"))
                        <= Cardinality(Entries(grants[g], "approved"))
                 /\ \A i \in Entries(grants[g], "revoked") \cup Entries(grants[g], "expired") :
                      \A j \in Entries(grants[g], "activated") \cup Entries(grants[g], "active") :
                          j < i
      <3>1. CASE grants[g] # NoGrant
        <4>1. OneWay(grants[g].history)
          BY <1>1, <3>1 DEF PrivilegedInv, GrantsInv
        <4> QED
          BY <4>1, OneWayEnds
      <3>2. CASE grants[g] = NoGrant
        <4>1. \A state : Entries(grants[g], state) = {}
          BY <3>2 DEF NoGrant, Entries
        <4>2. Cardinality({}) = 0
          BY FS_EmptySet
        <4> QED
          BY <4>1, <4>2
      <3> QED
        BY <3>1, <3>2
    <2>3. EndedAccessStaysEnded
      BY <2>2 DEF EndedAccessStaysEnded
    <2> QED
      BY <2>1, <2>3 DEF AccessLeavesEvidence
  <1> QED
    BY <1>1, PrivilegedInvHolds, PTL

-----------------------------------------------------------------------------
(***************************************************************************)
(* Proofs about GovernedSearch.                                            *)
(***************************************************************************)

(* What a policy admits is on record for its version, what is open now was *)
(* open at some time, and whatever is cached under a key was due to its    *)
(* reader under its version when it was decided.                           *)
DecisionsInContext ==
    /\ policy.admits \subseteq admittedBy[policy.version]
    /\ \A r \in Readers : openable[r] \subseteq wasOpen[r]
    /\ \A r \in Readers, v \in PolicyVersions :
          cache[<<r, v>>] # Miss => cache[<<r, v>>] \subseteq wasOpen[r] \cap admittedBy[v]

(* Nothing was delivered of a query that is not finished; a finished query *)
(* has its audit and its row.                                              *)
FinishedIsAudited ==
    /\ \A q \in Queries : q \notin finished => delivered[q] = 0
    /\ \A q \in Queries : delivered[q] <= 1
    /\ \A q \in finished : firstRow[q] # 0 /\ q \in audited

SearchInv ==
    /\ SearchTypeOK
    /\ DecisionsInContext
    /\ AnswersStayInContext
    /\ FinishedIsAudited

(* What a search decides, or takes from the cache, is due to the reader.   *)
LEMMA DecisionIsDue ==
  ASSUME SearchTypeOK, DecisionsInContext, NEW r \in Readers
  PROVE  /\ CacheKey(r) \in Keys
         /\ Decision(r) \in SUBSET Records
         /\ Decision(r) \subseteq wasOpen[r] \cap admittedBy[policy.version]
  <1>1. policy.version \in PolicyVersions
    BY DEF SearchTypeOK
  <1>2. CacheKey(r) \in Keys
    BY <1>1 DEF CacheKey, Keys
  <1>3. cache[CacheKey(r)] \in (SUBSET Records) \cup {Miss}
    BY <1>2 DEF SearchTypeOK
  <1>4. CASE cache[CacheKey(r)] = Miss
    BY <1>2, <1>4 DEF Decision, Decided, SearchTypeOK, DecisionsInContext
  <1>5. CASE cache[CacheKey(r)] # Miss
    BY <1>1, <1>2, <1>3, <1>5 DEF Decision, CacheKey, DecisionsInContext
  <1> QED
    BY <1>2, <1>4, <1>5

(* A decision cached under its key is in its context.                      *)
LEMMA CacheKeepsContext ==
  ASSUME SearchTypeOK, DecisionsInContext, NEW q \in Queries, NEW r \in Readers, Evaluate(q, r)
  PROVE  /\ cache' \in [Keys -> (SUBSET Records) \cup {Miss}]
         /\ DecisionsInContext'
         /\ audited' \subseteq Queries
         /\ UNCHANGED <<sourceVars, instant>>
         /\ audited' = audited \cup {q}
  <1>1. /\ CacheKey(r) \in Keys
        /\ Decision(r) \in SUBSET Records
        /\ Decision(r) \subseteq wasOpen[r] \cap admittedBy[policy.version]
    BY DecisionIsDue
  <1>2. cache \in [Keys -> (SUBSET Records) \cup {Miss}] /\ audited \subseteq Queries
    BY DEF SearchTypeOK
  <1>3. cache' = [cache EXCEPT ![CacheKey(r)] = Decision(r)]
    BY DEF Evaluate
  <1>4. cache' \in [Keys -> (SUBSET Records) \cup {Miss}]
    BY <1>1, <1>2, <1>3
  <1>5. /\ policy' = policy /\ admittedBy' = admittedBy
        /\ openable' = openable /\ wasOpen' = wasOpen
    BY DEF Evaluate, sourceVars
  <1>6. ASSUME NEW s \in Readers, NEW v \in PolicyVersions, cache'[<<s, v>>] # Miss
        PROVE  cache'[<<s, v>>] \subseteq wasOpen[s] \cap admittedBy[v]
    <2>1. <<s, v>> \in Keys
      BY DEF Keys
    <2>2. CASE <<s, v>> = CacheKey(r)
      <3>1. s = r /\ v = policy.version
        BY <2>2 DEF CacheKey
      <3>2. cache'[<<s, v>>] = Decision(r)
        BY <1>1, <1>2, <1>3, <2>2
      <3> QED
        BY <1>1, <3>1, <3>2
    <2>3. CASE <<s, v>> # CacheKey(r)
      <3>1. cache'[<<s, v>>] = cache[<<s, v>>]
        BY <1>2, <1>3, <2>1, <2>3
      <3> QED
        BY <1>6, <3>1 DEF DecisionsInContext
    <2> QED
      BY <2>2, <2>3
  <1>7. DecisionsInContext'
    BY <1>5, <1>6 DEF DecisionsInContext
  <1> QED
    BY <1>2, <1>4, <1>7 DEF Evaluate

LEMMA InstantIsShown ==
  ASSUME SearchTypeOK
  PROVE  instant \in 0 .. MaxInstants /\ instant # 0
  BY GovernedSearchAssumption DEF SearchTypeOK, GovernedSearchAssumption

LEMMA QueryAnswered ==
  ASSUME SearchInv, NEW q \in Queries, NEW r \in Readers, AnswerQuery(q, r)
  PROVE  SearchInv'
  <1> USE DEF AnswerQuery
  <1>1. SearchTypeOK /\ DecisionsInContext
    BY DEF SearchInv
  <1>2. /\ cache' \in [Keys -> (SUBSET Records) \cup {Miss}]
        /\ DecisionsInContext'
        /\ audited' \subseteq Queries
        /\ UNCHANGED <<sourceVars, instant>>
        /\ audited' = audited \cup {q}
    BY <1>1, CacheKeepsContext
  <1>3. /\ Decision(r) \in SUBSET Records
        /\ Decision(r) \subseteq wasOpen[r] \cap admittedBy[policy.version]
    BY <1>1, DecisionIsDue
  <1>4. instant \in 0 .. MaxInstants /\ instant # 0
    BY <1>1, InstantIsShown
  <1>5. q \notin finished /\ delivered[q] = 0
    BY DEF Evaluate, SearchInv, FinishedIsAudited
  <1>6. /\ firstRow' = [firstRow EXCEPT ![q] = instant]
        /\ delivered' = [delivered EXCEPT ![q] = @ + 1]
        /\ finished' = finished \cup {q}
        /\ answer' = [reader |-> r, results |-> Decision(r)]
    OBVIOUS
  <1>7. /\ firstRow \in [Queries -> 0 .. MaxInstants] /\ delivered \in [Queries -> Nat]
        /\ finished \subseteq Queries
    BY <1>1 DEF SearchTypeOK
  <1>8. /\ firstRow' \in [Queries -> 0 .. MaxInstants] /\ firstRow'[q] = instant
        /\ \A p \in Queries : p # q => firstRow'[p] = firstRow[p]
    BY <1>4, <1>6, <1>7
  <1>9. /\ delivered' \in [Queries -> Nat] /\ delivered'[q] = 1
        /\ \A p \in Queries : p # q => delivered'[p] = delivered[p]
    BY <1>5, <1>6, <1>7
  <1>10. answer' \in [reader : Readers \cup {NoReader}, results : SUBSET Records]
    BY <1>3, <1>6
  <1>11. SearchTypeOK'
    BY <1>1, <1>2, <1>6, <1>7, <1>8, <1>9, <1>10 DEF SearchTypeOK, sourceVars
  <1>12. AnswersStayInContext'
    BY <1>2, <1>3, <1>6 DEF AnswersStayInContext, sourceVars
  <1>13. FinishedIsAudited'
    BY <1>2, <1>4, <1>6, <1>7, <1>8, <1>9 DEF SearchInv, FinishedIsAudited
  <1> QED
    BY <1>2, <1>11, <1>12, <1>13 DEF SearchInv

LEMMA RunStopped ==
  ASSUME SearchInv, NEW q \in Queries, NEW r \in Readers, StopAfterRow(q, r) \/ RowConflicts(q, r)
  PROVE  SearchInv'
  <1>1. SearchTypeOK /\ DecisionsInContext
    BY DEF SearchInv
  <1>2. /\ Evaluate(q, r) /\ answer' = NoAnswer /\ UNCHANGED <<finished, delivered>>
        /\ firstRow' = [firstRow EXCEPT ![q] = instant] \/ firstRow' = firstRow
    BY DEF StopAfterRow, RowConflicts
  <1>3. /\ cache' \in [Keys -> (SUBSET Records) \cup {Miss}]
        /\ DecisionsInContext'
        /\ audited' \subseteq Queries
        /\ UNCHANGED <<sourceVars, instant>>
        /\ audited' = audited \cup {q}
    BY <1>1, <1>2, CacheKeepsContext
  <1>4. instant \in 0 .. MaxInstants /\ instant # 0
    BY <1>1, InstantIsShown
  <1>5. firstRow \in [Queries -> 0 .. MaxInstants]
    BY <1>1 DEF SearchTypeOK
  <1>6. /\ firstRow' \in [Queries -> 0 .. MaxInstants]
        /\ \A p \in Queries : firstRow[p] # 0 => firstRow'[p] # 0
    BY <1>2, <1>4, <1>5
  <1>7. answer' \in [reader : Readers \cup {NoReader}, results : SUBSET Records]
    BY <1>2 DEF NoAnswer
  <1>8. SearchTypeOK'
    BY <1>1, <1>2, <1>3, <1>6, <1>7 DEF SearchTypeOK, sourceVars
  <1>9. AnswersStayInContext'
    BY <1>2 DEF AnswersStayInContext, NoAnswer
  <1>10. FinishedIsAudited'
    BY <1>1, <1>2, <1>3, <1>6 DEF SearchInv, FinishedIsAudited, SearchTypeOK
  <1> QED
    BY <1>3, <1>8, <1>9, <1>10 DEF SearchInv

LEMMA QueryRefusedOrReplayed ==
  ASSUME SearchInv, NEW q \in Queries,
         DenyQuery(q) \/ \E r \in Readers : ReplayQuery(q, r)
  PROVE  SearchInv'
  <1>1. SearchTypeOK
    BY DEF SearchInv
  <1>2. UNCHANGED <<sourceVars, cache, audited, finished, delivered, instant>>
    BY DEF DenyQuery, ReplayQuery
  <1>3. instant \in 0 .. MaxInstants /\ instant # 0
    BY <1>1, InstantIsShown
  <1>4. firstRow \in [Queries -> 0 .. MaxInstants]
    BY <1>1 DEF SearchTypeOK
  <1>5. /\ firstRow' \in [Queries -> 0 .. MaxInstants]
        /\ \A p \in Queries : firstRow[p] # 0 => firstRow'[p] # 0
    BY <1>3, <1>4 DEF DenyQuery, ReplayQuery
  <1>6. answer' \in [reader : Readers \cup {NoReader}, results : SUBSET Records]
        /\ (answer' = NoAnswer \/ answer'.results = {})
    BY DEF DenyQuery, ReplayQuery, NoAnswer
  <1>7. SearchTypeOK'
    BY <1>1, <1>2, <1>5, <1>6 DEF SearchTypeOK, sourceVars
  <1>8. AnswersStayInContext'
    BY <1>6 DEF AnswersStayInContext
  <1>9. DecisionsInContext'
    BY <1>2 DEF SearchInv, DecisionsInContext, sourceVars
  <1>10. FinishedIsAudited'
    BY <1>1, <1>2, <1>5 DEF SearchInv, FinishedIsAudited, SearchTypeOK
  <1> QED
    BY <1>7, <1>8, <1>9, <1>10 DEF SearchInv

(* The sources move; what was due stays due, and nothing is answered.      *)
LEMMA SourcesMove ==
  ASSUME SearchInv, Unanswered,
         indexed' \subseteq Records,
         openable' \in [Readers -> SUBSET Records], wasOpen' \in [Readers -> SUBSET Records],
         policy' \in [version : PolicyVersions, admits : SUBSET Records],
         admittedBy' \in [PolicyVersions -> SUBSET Records],
         instant' \in 1 .. MaxInstants,
         \A r \in Readers : wasOpen[r] \subseteq wasOpen'[r] /\ openable'[r] \subseteq wasOpen'[r],
         \A v \in PolicyVersions : admittedBy[v] \subseteq admittedBy'[v],
         policy'.admits \subseteq admittedBy'[policy'.version]
  PROVE  SearchInv'
  <1>1. SearchTypeOK
    BY DEF SearchInv
  <1>2. answer' = NoAnswer /\ UNCHANGED <<cache, firstRow, audited, finished, delivered>>
    BY DEF Unanswered
  <1>3. answer' \in [reader : Readers \cup {NoReader}, results : SUBSET Records]
    BY <1>2 DEF NoAnswer
  <1>4. SearchTypeOK'
    BY <1>1, <1>2, <1>3 DEF SearchTypeOK
  <1>5. \A r \in Readers, v \in PolicyVersions :
          cache'[<<r, v>>] # Miss => cache'[<<r, v>>] \subseteq wasOpen'[r] \cap admittedBy'[v]
    <2> TAKE r \in Readers, v \in PolicyVersions
    <2>1. cache[<<r, v>>] # Miss => cache[<<r, v>>] \subseteq wasOpen[r] \cap admittedBy[v]
      BY DEF SearchInv, DecisionsInContext
    <2>2. wasOpen[r] \subseteq wasOpen'[r] /\ admittedBy[v] \subseteq admittedBy'[v]
      OBVIOUS
    <2> QED
      BY <2>1, <2>2, <1>2
  <1>6. DecisionsInContext'
    BY <1>5 DEF DecisionsInContext
  <1>7. AnswersStayInContext'
    BY <1>2 DEF AnswersStayInContext, NoAnswer
  <1>8. FinishedIsAudited'
    BY <1>2 DEF SearchInv, FinishedIsAudited
  <1> QED
    BY <1>4, <1>6, <1>7, <1>8 DEF SearchInv

LEMMA SearchStart == SearchInit => SearchInv
  <1> SUFFICES ASSUME SearchInit PROVE SearchInv
    OBVIOUS
  <1> USE DEF SearchInit
  <1>1. \A key \in Keys : cache[key] = Miss
    OBVIOUS
  <1>2. SearchTypeOK
    BY GovernedSearchAssumption DEF SearchTypeOK, NoAnswer, GovernedSearchAssumption
  <1>3. DecisionsInContext
    BY <1>1 DEF DecisionsInContext, Keys
  <1>4. AnswersStayInContext /\ FinishedIsAudited
    BY DEF AnswersStayInContext, FinishedIsAudited
  <1> QED
    BY <1>2, <1>3, <1>4 DEF SearchInv

LEMMA SearchStep == SearchInv /\ [SearchNext]_searchVars => SearchInv'
  <1> SUFFICES ASSUME SearchInv, [SearchNext]_searchVars PROVE SearchInv'
    OBVIOUS
  <1>t. /\ indexed \subseteq Records
        /\ openable \in [Readers -> SUBSET Records] /\ wasOpen \in [Readers -> SUBSET Records]
        /\ policy \in [version : PolicyVersions, admits : SUBSET Records]
        /\ admittedBy \in [PolicyVersions -> SUBSET Records]
        /\ instant \in 1 .. MaxInstants
        /\ policy.admits \subseteq admittedBy[policy.version]
        /\ \A r \in Readers : openable[r] \subseteq wasOpen[r]
    BY DEF SearchInv, SearchTypeOK, DecisionsInContext
  <1>1. CASE UNCHANGED searchVars
    <2> USE <1>1 DEF searchVars, sourceVars, queryVars
    <2>1. SearchTypeOK'
      BY DEF SearchInv, SearchTypeOK
    <2>2. DecisionsInContext' /\ AnswersStayInContext' /\ FinishedIsAudited'
      BY DEF SearchInv, DecisionsInContext, AnswersStayInContext, FinishedIsAudited
    <2> QED
      BY <2>1, <2>2 DEF SearchInv
  <1>2. CASE SearchTick
    <2>1. instant' \in 1 .. MaxInstants
      BY <1>t, <1>2, GovernedSearchAssumption DEF SearchTick, GovernedSearchAssumption
    <2>2. Unanswered /\ UNCHANGED sourceVars
      BY <1>2 DEF SearchTick
    <2> QED
      BY <1>t, <2>1, <2>2, SourcesMove DEF sourceVars
  <1>3. ASSUME NEW q \in Queries, DenyQuery(q) PROVE SearchInv'
    BY <1>3, QueryRefusedOrReplayed
  <1>4. ASSUME NEW q \in Queries, NEW r \in Readers, AnswerQuery(q, r) PROVE SearchInv'
    BY <1>4, QueryAnswered
  <1>5. ASSUME NEW q \in Queries, NEW r \in Readers, StopAfterRow(q, r) \/ RowConflicts(q, r)
        PROVE  SearchInv'
    BY <1>5, RunStopped
  <1>6. ASSUME NEW q \in Queries, NEW r \in Readers, ReplayQuery(q, r) PROVE SearchInv'
    BY <1>6, QueryRefusedOrReplayed
  <1>7. ASSUME NEW record \in Records, RemoveFromIndex(record) PROVE SearchInv'
    <2>1. /\ Unanswered /\ UNCHANGED <<openable, wasOpen, policy, admittedBy, instant>>
          /\ indexed' \subseteq Records
      BY <1>t, <1>7 DEF RemoveFromIndex
    <2> QED
      BY <1>t, <2>1, SourcesMove
  <1>8. ASSUME NEW records \in SUBSET Records, NEW v \in PolicyVersions, ChangePolicy(v, records)
        PROVE  SearchInv'
    <2>1. Unanswered /\ UNCHANGED <<indexed, openable, wasOpen, instant>>
      BY <1>8 DEF ChangePolicy
    <2>2. policy' = [version |-> v, admits |-> records]
          /\ admittedBy' = [admittedBy EXCEPT ![v] = @ \cup records]
      BY <1>8 DEF ChangePolicy
    <2>3. /\ policy' \in [version : PolicyVersions, admits : SUBSET Records]
          /\ admittedBy' \in [PolicyVersions -> SUBSET Records]
          /\ \A w \in PolicyVersions : admittedBy[w] \subseteq admittedBy'[w]
          /\ policy'.admits \subseteq admittedBy'[policy'.version]
      BY <1>t, <2>2
    <2> QED
      BY <1>t, <2>1, <2>3, SourcesMove
  <1>9. ASSUME NEW records \in SUBSET Records, NEW r \in Readers, SourceDecides(r, records)
        PROVE  SearchInv'
    <2>1. Unanswered /\ UNCHANGED <<indexed, policy, admittedBy, instant>>
      BY <1>9 DEF SourceDecides
    <2>2. /\ openable' = [openable EXCEPT ![r] = records]
          /\ wasOpen' = [wasOpen EXCEPT ![r] = @ \cup records]
      BY <1>9 DEF SourceDecides
    <2>3. /\ openable' \in [Readers -> SUBSET Records] /\ wasOpen' \in [Readers -> SUBSET Records]
          /\ \A s \in Readers : wasOpen[s] \subseteq wasOpen'[s] /\ openable'[s] \subseteq wasOpen'[s]
      BY <1>t, <2>2
    <2> QED
      BY <1>t, <2>1, <2>3, SourcesMove
  <1> QED
    BY <1>1, <1>2, <1>3, <1>4, <1>5, <1>6, <1>7, <1>8, <1>9 DEF SearchNext

LEMMA SearchInvHolds == SearchSpec => []SearchInv
  BY SearchStart, SearchStep, PTL DEF SearchSpec

(* For any records, readers, queries and policies: a reader is shown only  *)
(* what the source let that reader open at some time and a policy of the   *)
(* version in force admitted, and the results of a query leave once at     *)
(* most, after its audit, its row and its record are stored.               *)
THEOREM SearchAnswersAreDue == SearchSpec => []AnswersAreDueAndAudited
  <1>1. SearchInv => AnswersAreDueAndAudited
    <2> SUFFICES ASSUME SearchInv PROVE DeliveriesAreAudited
      BY DEF SearchInv, AnswersAreDueAndAudited
    <2> QED
      BY DEF SearchInv, FinishedIsAudited, DeliveriesAreAudited, SearchTypeOK
  <1> QED
    BY <1>1, SearchInvHolds, PTL

(* The index, the cache, the audit trail and the clock keep their types.   *)
THEOREM SearchTypeCorrect == SearchSpec => []SearchTypeOK
  <1>1. SearchInv => SearchTypeOK
    BY DEF SearchInv
  <1> QED
    BY <1>1, SearchInvHolds, PTL
=============================================================================
