-------------------------- MODULE PrivilegedAccess --------------------------
(***************************************************************************)
(* Privileged access of the privileged access service: requests, grants    *)
(* and their reviews, and the sessions that run under a grant and are      *)
(* sealed into a hash chain (application.py over access.py, sessions.py    *)
(* and the stores of storage.py).                                          *)
(*                                                                         *)
(* Every command runs in the frame of CommandFrame.  Here a run is one     *)
(* action for each outcome the stores can show: completed, or stopped      *)
(* between two saves.  A retry without an audit row is a run like any      *)
(* other, and every other retry changes nothing.                           *)
(***************************************************************************)
EXTENDS Integers, Sequences, FiniteSets, SequencesExt

CONSTANTS
    Actors,             \* those who approve, activate, review and seal
    Subjects,           \* those of them who ask for access
    NoActor,            \* nobody
    GrantIds,           \* grant_id, chosen by the caller
    SessionIds,         \* session_id, chosen by the caller
    RequiredApprovers,  \* policy.required_approvers(risk_class)
    MaxOperations       \* bound: operations recorded in one session

ASSUME PrivilegedAccessAssumption ==
    /\ NoActor \notin Actors /\ Subjects \subseteq Actors
    /\ RequiredApprovers \in Nat \ {0} /\ MaxOperations \in Nat

VARIABLES
    requested,      \* subjects with a stored request
    grants,         \* [GrantIds -> the grant stored, or NoGrant]
    sessions,       \* [SessionIds -> the session stored, or NoSession]
    chain,          \* sealed sessions, oldest first
    lapsed,         \* grants out of their window or dormant
    superseded      \* grants approved under a policy that was replaced

timeVars == <<lapsed, superseded>>
privilegedVars == <<requested, grants, sessions, chain, timeVars>>

-----------------------------------------------------------------------------
(* Grants *)

GrantStates ==
    {"under_evaluation", "approved", "denied", "activated", "active", "expired",
     "revoked", "under_review", "review_completed"}

(* history holds the state each entry entered; the grant's state is the    *)
(* last one.                                                               *)
Grants ==
    [subject : Subjects, approvers : SUBSET Actors, history : Seq(GrantStates)]

NoGrant ==
    [subject |-> NoActor, approvers |-> {}, history |-> <<>>]

State(grant) == IF grant.history = <<>> THEN "absent" ELSE Last(grant.history)

(* Mutant of Transitions: an expired grant may be activated again.         *)
TransitionsWithRenewal ==
    {<<"approved", "activated">>, <<"approved", "expired">>, <<"approved", "revoked">>,
     <<"activated", "active">>, <<"activated", "revoked">>,
     <<"active", "expired">>, <<"active", "revoked">>, <<"expired", "activated">>,
     <<"expired", "under_review">>, <<"revoked", "under_review">>,
     <<"under_review", "review_completed">>}

(* Those of _ALLOWED_TRANSITIONS that leave a state a stored grant is in.  *)
Transitions ==
    {<<"approved", "activated">>, <<"approved", "expired">>, <<"approved", "revoked">>,
     <<"activated", "active">>, <<"activated", "revoked">>,
     <<"active", "expired">>, <<"active", "revoked">>,
     <<"expired", "under_review">>, <<"revoked", "under_review">>,
     <<"under_review", "review_completed">>}

MayEnter(grant, target) == <<State(grant), target>> \in Transitions

WithState(grant, target) == [grant EXCEPT !.history = Append(@, target)]

(* assert_usable, for an operation that the grant permits.                 *)
Usable(g) == State(grants[g]) \in {"activated", "active"} /\ g \notin lapsed

-----------------------------------------------------------------------------
(* Sessions *)

Sessions ==
    [grant : GrantIds, subject : Subjects, state : {"started", "ended", "sealed"},
     operations : 0 .. MaxOperations]

NoSession == [state |-> "absent"]

(* The integrity reference of a link is a hash of all of it: the link.     *)
Genesis == <<>>
HeadHash == IF chain = <<>> THEN Genesis ELSE Last(chain)

PrivilegedInit ==
    /\ requested = {}
    /\ grants = [g \in GrantIds |-> NoGrant]
    /\ sessions = [s \in SessionIds |-> NoSession]
    /\ chain = <<>>
    /\ lapsed = {} /\ superseded = {}

-----------------------------------------------------------------------------
(* Requests and decisions *)

RequestAccess(subject) ==
    /\ requested' = requested \cup {subject}
    /\ UNCHANGED <<grants, sessions, chain, timeVars>>

(* A decision builds the grant afresh and saves it under the caller's      *)
(* grant_id, whatever is stored there.                                     *)
Decide(g, grant) ==
    /\ grants' = [grants EXCEPT ![g] = grant]
    /\ lapsed' = lapsed \ {g} /\ superseded' = superseded \ {g}
    /\ UNCHANGED <<requested, sessions, chain>>

Evaluated(subject, approvers) ==
    [subject |-> subject, approvers |-> approvers, history |-> <<"under_evaluation">>]

ApproveAccess(actor, subject, g, approvers) ==
    /\ subject \in requested
    /\ actor # subject
    /\ subject \notin approvers /\ Cardinality(approvers) >= RequiredApprovers
    /\ Decide(g, WithState(Evaluated(subject, approvers), "approved"))

DenyAccess(actor, subject, g) ==
    /\ subject \in requested
    /\ actor # subject
    /\ Decide(g, WithState(Evaluated(subject, {}), "denied"))

-----------------------------------------------------------------------------
(* The life of a grant *)

SaveGrant(g, grant) ==
    /\ grants' = [grants EXCEPT ![g] = grant]
    /\ UNCHANGED <<requested, sessions, chain, timeVars>>

ActivateAccess(actor, g) ==
    /\ actor \notin grants[g].approvers
    /\ g \notin lapsed /\ g \notin superseded
    /\ MayEnter(grants[g], "activated")
    /\ SaveGrant(g, WithState(grants[g], "activated"))

EndAccess(g, target) ==
    /\ MayEnter(grants[g], target)
    /\ SaveGrant(g, WithState(grants[g], target))

(* A periodic review is requested without a change of state.               *)
RequestReview(actor, g) ==
    /\ actor # grants[g].subject
    /\ MayEnter(grants[g], "under_review")
    /\ SaveGrant(g, WithState(grants[g], "under_review"))

(* A review of a grant in any other state is stored, and nothing more.     *)
CompleteReview(actor, g) ==
    /\ actor \notin {grants[g].subject} \cup grants[g].approvers
    /\ MayEnter(grants[g], "review_completed")
    /\ SaveGrant(g, WithState(grants[g], "review_completed"))

-----------------------------------------------------------------------------
(* Sessions under a grant *)

(* The session is saved under the caller's session_id, whatever is stored  *)
(* there.                                                                  *)
OpenSession(s, g) ==
    /\ Usable(g)
    /\ sessions' = [sessions EXCEPT ![s] =
           [grant |-> g, subject |-> grants[g].subject, state |-> "started",
            operations |-> 0]]
    /\ UNCHANGED <<requested, chain, timeVars>>

StartSession(s, g) ==
    /\ OpenSession(s, g)
    /\ grants' = [grants EXCEPT ![g] = IF State(@) = "activated"
                                       THEN WithState(@, "active") ELSE @]

(* It stops after the save of the session.                                 *)
StartSessionHalf(s, g) == OpenSession(s, g) /\ UNCHANGED grants

(* Mutant of MayRecord: the state of the session is not looked at.         *)
MayRecordAnyState(s) == sessions[s] # NoSession /\ Usable(sessions[s].grant)

MayRecord(s) == sessions[s].state = "started" /\ Usable(sessions[s].grant)

RecordOperation(s) ==
    /\ MayRecord(s)
    /\ sessions[s].operations < MaxOperations
    /\ sessions' = [sessions EXCEPT ![s].operations = @ + 1]
    /\ UNCHANGED <<requested, grants, chain, timeVars>>

EndSession(s) ==
    /\ sessions[s].state = "started"
    /\ sessions' = [sessions EXCEPT ![s].state = "ended"]
    /\ UNCHANGED <<requested, grants, chain, timeVars>>

NotSealedYet(s) == \A i \in DOMAIN chain : chain[i].session # s

MaySeal(actor, s) ==
    /\ sessions[s].state = "ended"
    /\ actor # sessions[s].subject
    /\ NotSealedYet(s)

(* Mutant of SealedLink: the head is not read, the default stands.         *)
SealedLinkUnlinked(s) ==
    [session |-> s, operations |-> sessions[s].operations, previous |-> Genesis]

SealedLink(s) ==
    [session |-> s, operations |-> sessions[s].operations, previous |-> HeadHash]

SealSession(actor, s) ==
    /\ MaySeal(actor, s)
    /\ chain' = Append(chain, SealedLink(s))
    /\ sessions' = [sessions EXCEPT ![s].state = "sealed"]
    /\ UNCHANGED <<requested, grants, timeVars>>

(* It stops after the append; every later attempt is refused by the chain. *)
SealSessionHalf(actor, s) ==
    /\ MaySeal(actor, s)
    /\ chain' = Append(chain, SealedLink(s))
    /\ UNCHANGED <<requested, grants, sessions, timeVars>>

-----------------------------------------------------------------------------
(* The surroundings *)

(* The window closes, or the grant is unused past the dormancy interval.   *)
GrantLapses(g) ==
    /\ grants[g] # NoGrant
    /\ lapsed' = lapsed \cup {g}
    /\ UNCHANGED <<requested, grants, sessions, chain, superseded>>

PolicyChanges ==
    /\ superseded' = {g \in GrantIds : grants[g] # NoGrant}
    /\ UNCHANGED <<requested, grants, sessions, chain, lapsed>>

PrivilegedNext ==
    \/ PolicyChanges
    \/ \E subject \in Subjects : RequestAccess(subject)
    \/ \E g \in GrantIds :
          GrantLapses(g) \/ EndAccess(g, "expired") \/ EndAccess(g, "revoked")
    \/ \E actor \in Actors, g \in GrantIds :
          \/ \E subject \in Subjects :
                \/ \E approvers \in SUBSET Actors : ApproveAccess(actor, subject, g, approvers)
                \/ DenyAccess(actor, subject, g)
          \/ ActivateAccess(actor, g)
          \/ RequestReview(actor, g)
          \/ CompleteReview(actor, g)
    \/ \E s \in SessionIds :
          \/ \E g \in GrantIds : StartSession(s, g) \/ StartSessionHalf(s, g)
          \/ RecordOperation(s) \/ EndSession(s)
          \/ \E a \in Actors : SealSession(a, s) \/ SealSessionHalf(a, s)

PrivilegedSpec == PrivilegedInit /\ [][PrivilegedNext]_privilegedVars

-----------------------------------------------------------------------------
(* Properties *)

PrivilegedTypeOK ==
    /\ requested \subseteq Subjects
    /\ grants \in [GrantIds -> Grants \cup {NoGrant}]
    /\ sessions \in [SessionIds -> Sessions \cup {NoSession}]
    /\ \A i \in DOMAIN chain :
          chain[i].session \in SessionIds /\ chain[i].operations \in 0 .. MaxOperations
    /\ lapsed \subseteq GrantIds /\ superseded \subseteq GrantIds

Entries(grant, state) == {i \in DOMAIN grant.history : grant.history[i] = state}

(* Access that ended comes back only by a new decision: a history that has *)
(* an end in it never enters a usable state afterwards, and each grant was *)
(* approved once and activated once at most (P12-PAM-007).                 *)
EndedAccessStaysEnded ==
    \A g \in GrantIds : LET grant == grants[g] IN
        /\ Cardinality(Entries(grant, "activated")) <= Cardinality(Entries(grant, "approved"))
        /\ \A i \in Entries(grant, "revoked") \cup Entries(grant, "expired") :
              \A j \in Entries(grant, "activated") \cup Entries(grant, "active") : j < i

(* Each sealed session links to the one sealed before it, in whatever      *)
(* order the sessions were opened and ended: verify_session_chain holds.   *)
ChainVerifies ==
    \A i \in DOMAIN chain :
        chain[i].previous = IF i = 1 THEN Genesis ELSE chain[i - 1]

(* The store never calls a session sealed whose record differs from what   *)
(* the chain holds, though the id of a session may be started again and a  *)
(* sealing may stop half way.                                              *)
SealedEvidenceStands ==
    \A s \in SessionIds : sessions[s].state = "sealed" =>
        \E i \in DOMAIN chain :
            chain[i].session = s /\ chain[i].operations = sessions[s].operations

(* Access and its evidence last: access that ended comes back only by a    *)
(* new decision, and what the store calls sealed is in the chain as it was *)
(* recorded, in an unbroken chain, however often an id is granted or       *)
(* started again and wherever a sealing stops (access.py, session.py).     *)
AccessLeavesEvidence ==
    /\ EndedAccessStaysEnded
    /\ ChainVerifies
    /\ SealedEvidenceStands
=============================================================================
