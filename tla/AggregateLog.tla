----------------------------- MODULE AggregateLog -----------------------------
(***************************************************************************)
(* What the data plane promises about one aggregate, with the outbox, the  *)
(* dispatcher, the broker and the consumer's checkpoint left out.          *)
(*                                                                         *)
(* Commands move the aggregate from version to version.  A command logs    *)
(* its event in the step that moves the version or never, so that a        *)
(* version has at most one event; what is logged stays as it is.  Only     *)
(* what is logged is told to the consumer, at any later time and in any    *)
(* order, and the consumer applies what it was told in the order of the    *)
(* versions, each event once.  A key that was answered moves nothing       *)
(* again.                                                                  *)
(*                                                                         *)
(* EventDelivery implements this specification: see                        *)
(* EventDelivery!DeliversItsLog.                                           *)
(***************************************************************************)
EXTENDS Naturals, Sequences

CONSTANT CommandKeys    \* idempotency keys, one request each

VARIABLES
    version,    \* the version of the aggregate
    log,        \* its events: version and the key of the command
    answered,   \* keys whose result is remembered
    told,       \* events that were told to the consumer
    applied     \* the versions whose events the consumer has applied

logVars == <<version, log, answered, told, applied>>

LogInit ==
    /\ version = 0
    /\ log = {}
    /\ answered = {}
    /\ told = {}
    /\ applied = <<>>

(* A command that logs its event, and one whose event is lost.             *)
Perform(k) ==
    /\ k \notin answered
    /\ version' = version + 1
    /\ log' = log \cup {[version |-> version', key |-> k]}
    /\ answered' \in {answered, answered \cup {k}}
    /\ UNCHANGED <<told, applied>>

PerformUnlogged(k) ==
    /\ k \notin answered
    /\ version' = version + 1
    /\ UNCHANGED <<log, answered, told, applied>>

Tell(event) ==
    /\ told' = told \cup {event}
    /\ UNCHANGED <<version, log, answered, applied>>

Apply(event) ==
    /\ event.version = Len(applied) + 1
    /\ applied' = Append(applied, event.version)
    /\ UNCHANGED <<version, log, answered, told>>

LogNext ==
    \/ \E k \in CommandKeys : Perform(k) \/ PerformUnlogged(k)
    \/ \E event \in log : Tell(event)
    \/ \E event \in told : Apply(event)

LogSpec == LogInit /\ [][LogNext]_logVars
=============================================================================
