---------------------------- MODULE CommandFrame ----------------------------
(***************************************************************************)
(* The frame every governed command of the privileged access service runs *)
(* in (application.py, _guard and _finish; the finance, compliance and     *)
(* document services repeat it): the replay checks, the command's own save *)
(* of its aggregate, then for each event an audit row and a publication,   *)
(* and last the record of the command.  Nothing makes these writes one     *)
(* transaction: a run may stop between any two of them, and the caller     *)
(* then retries under the same event_id.                                   *)
(***************************************************************************)
EXTENDS Integers

CONSTANTS
    EventIds,       \* the event_id of each command a caller wants done
    Emissions,      \* [EventIds -> events the command emits, 1 or more]
    MaxTries        \* bound: runs that reach the aggregate, for each event_id

ASSUME CommandFrameAssumption ==
    /\ Emissions \in [EventIds -> Nat \ {0}]
    /\ MaxTries \in Nat

VARIABLES
    run,        \* [EventIds -> where a run stands]; one command at a time
    saves,      \* [EventIds -> times its aggregate was saved]
    rows,       \* [EventIds -> audit rows appended: ordinals 1 .. rows]
    stream,     \* [EventIds -> [ordinal -> times that event was published]]
    recorded,   \* event ids with a command record
    successes   \* event ids whose caller was told that the command ran

frameVars == <<run, saves, rows, stream, recorded, successes>>

Ordinals == UNION {1 .. Emissions[e] : e \in EventIds}

(* stage "save" writes the aggregate next, "audit" and "publish" the row   *)
(* and the event numbered next, "record" the command record.               *)
AtRest == [stage |-> "rest", next |-> 1]

FrameInit ==
    /\ run = [e \in EventIds |-> AtRest]
    /\ saves = [e \in EventIds |-> 0] /\ rows = [e \in EventIds |-> 0]
    /\ stream = [e \in EventIds |-> [k \in Ordinals |-> 0]]
    /\ recorded = {} /\ successes = {}

Advance(e, stage, k) == run' = [run EXCEPT ![e] = [stage |-> stage, next |-> k]]

-----------------------------------------------------------------------------
(* _guard *)

Replayed(e) == e \in recorded

(* Mutant of Unaccounted: without the second line of defence.              *)
UnaccountedUnchecked(e) == e \notin recorded

(* No record and no audit row: an earlier run, if any, left at most a      *)
(* saved aggregate behind.                                                 *)
Unaccounted(e) == e \notin recorded /\ rows[e] = 0

Begin(e) ==
    /\ \A f \in EventIds : run[f] = AtRest
    /\ Unaccounted(e)
    /\ saves[e] < MaxTries
    /\ Advance(e, "save", 1)
    /\ UNCHANGED <<saves, rows, stream, recorded, successes>>

(* The recorded result is rebuilt and returned; nothing runs.              *)
Replay(e) ==
    /\ \A f \in EventIds : run[f] = AtRest
    /\ Replayed(e)
    /\ successes' = successes \cup {e}
    /\ UNCHANGED <<run, saves, rows, stream, recorded>>

-----------------------------------------------------------------------------
(* The command body, and _finish *)

(* Mutant of SaveAggregate: the event is published before its audit row.   *)
SaveThenPublish(e) ==
    /\ run[e].stage = "save"
    /\ saves' = [saves EXCEPT ![e] = @ + 1]
    /\ Advance(e, "publish", 1)
    /\ UNCHANGED <<rows, stream, recorded, successes>>

SaveAggregate(e) ==
    /\ run[e].stage = "save"
    /\ saves' = [saves EXCEPT ![e] = @ + 1]
    /\ Advance(e, "audit", 1)
    /\ UNCHANGED <<rows, stream, recorded, successes>>

(* append_audit_event, under an id that the event_id and ordinal determine.*)
AppendRow(e) ==
    /\ run[e].stage = "audit"
    /\ rows' = [rows EXCEPT ![e] = IF run[e].next > @ THEN run[e].next ELSE @]
    /\ Advance(e, "publish", run[e].next)
    /\ UNCHANGED <<saves, stream, recorded, successes>>

(* Mutant of AfterPublish: the loop leaves after the first emission.       *)
AfterPublishFirst(e) == [stage |-> "record", next |-> 1]

AfterPublish(e) ==
    IF run[e].next < Emissions[e] THEN [stage |-> "audit", next |-> run[e].next + 1]
                                  ELSE [stage |-> "record", next |-> 1]

PublishEvent(e) ==
    /\ run[e].stage = "publish"
    /\ stream' = [stream EXCEPT ![e][run[e].next] = @ + 1]
    /\ run' = [run EXCEPT ![e] = AfterPublish(e)]
    /\ UNCHANGED <<saves, rows, recorded, successes>>

RecordCommand(e) ==
    /\ run[e].stage = "record"
    /\ recorded' = recorded \cup {e}
    /\ successes' = successes \cup {e}
    /\ run' = [run EXCEPT ![e] = AtRest]
    /\ UNCHANGED <<saves, rows, stream>>

(* A store or the sink raises, or the process ends.                        *)
StopRun(e) ==
    /\ run[e] # AtRest
    /\ run' = [run EXCEPT ![e] = AtRest]
    /\ UNCHANGED <<saves, rows, stream, recorded, successes>>

FrameNext ==
    \E e \in EventIds :
        \/ Begin(e) \/ Replay(e) \/ SaveAggregate(e) \/ AppendRow(e)
        \/ PublishEvent(e) \/ RecordCommand(e) \/ StopRun(e)

FrameSpec == FrameInit /\ [][FrameNext]_frameVars

-----------------------------------------------------------------------------
(* Properties *)

FrameTypeOK ==
    /\ run \in [EventIds -> [stage : {"rest", "save", "audit", "publish", "record"},
                             next : Ordinals \cup {1}]]
    /\ saves \in [EventIds -> 0 .. MaxTries]
    /\ \A e \in EventIds : rows[e] \in 0 .. Emissions[e] /\ run[e].next <= Emissions[e]
    /\ stream \in [EventIds -> [Ordinals -> Nat]]
    /\ recorded \subseteq EventIds /\ successes \subseteq EventIds

(* Whatever point a run stops at, and however often its caller retries, an *)
(* event is on the stream at most once, and never without its audit row.   *)
EventsAreAccountedFor ==
    \A e \in EventIds, k \in Ordinals : stream[e][k] <= (IF k <= rows[e] THEN 1 ELSE 0)

(* A caller is told that its command ran only when all of it is there: the *)
(* aggregate, each audit row, each event.                                  *)
SuccessMeansComplete ==
    \A e \in successes :
        /\ saves[e] >= 1 /\ rows[e] = Emissions[e]
        /\ \A k \in 1 .. Emissions[e] : stream[e][k] = 1

(* Rows and events agree at every point a run may stop at, a reported      *)
(* success is a complete one, and the aggregate is never changed again     *)
(* under an event_id that has an audit row: one row never stands for two   *)
(* changes. (_guard, _finish)                                              *)
CommandsAreWhole ==
    /\ [](EventsAreAccountedFor /\ SuccessMeansComplete)
    /\ [][\A e \in EventIds : rows[e] > 0 => saves'[e] = saves[e]]_frameVars
=============================================================================
