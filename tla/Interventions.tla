---------------------------- MODULE Interventions ----------------------------
(***************************************************************************)
(* Regional interventions of the control plane (RegionalOperationsService  *)
(* in regional_operations.py): a quarantine of a session, a suspension of  *)
(* an authority, a restriction of an action or a supervision that lends a  *)
(* privilege, requested, approved by a quorum, activated by somebody else, *)
(* ended, reviewed and restored.  One scope and one target of each level. *)
(*                                                                         *)
(* Every command runs under the service's lock, and a refused one changes  *)
(* nothing but the memory of its idempotency key; a replay changes         *)
(* nothing.  A moment before the last one seen counts as that one (_time), *)
(* so that lastTime is the time of every command.                          *)
(***************************************************************************)
EXTENDS AuthorityDirectory, FiniteSets

CONSTANTS
    InterventionIds,    \* request ids, which the caller chooses
    NoExecutor,
    MaxMoment,          \* bound on time
    MaxInterventionActs \* bound on commands, changes of authority and moments

ASSUME InterventionAssumption ==
    /\ NoExecutor \notin {g.actor : g \in AuthorityGrants}
    /\ MaxMoment \in Nat \ {0} /\ MaxInterventionActs \in Nat

VARIABLES
    interventions,      \* request id -> the request
    held,               \* levels whose target is quarantined or suspended
    privileges,         \* request id -> the privilege materialized from it
    moved,              \* levels whose target is recorded with another
                        \* version than the one that the requests name
    lastTime,
    interventionActs

requestVars == <<interventions, held, privileges, moved>>
interventionVars == <<requestVars, lastTime, interventionActs, authority>>

Quarantine == "SESSION_QUARANTINE"
Suspension == "AUTHORITY_SUSPENSION"
Restriction == "REGIONAL_ACTION_RESTRICTION"
Supervision == "TEMPORARY_SUPERVISION"
Levels == {Quarantine, Suspension, Restriction, Supervision}

Pending == {"REQUESTED", "REVIEWING", "APPROVED"}
Ended == {"EXPIRED", "REVOKED", "COMPLETED", "POST_REVIEWED", "REJECTED", "CANCELLED"}

(* _requirements *)
QuorumOf(level) == IF level = Quarantine THEN 1 ELSE 2
ClassesOf(level) ==
    CASE level = Quarantine -> {"security"}
      [] level = Supervision -> {"governance", "security"}
      [] OTHER -> {"governance"}

InterventionInit ==
    /\ interventions = <<>>
    /\ held = {}
    /\ privileges = <<>>
    /\ moved = {}
    /\ lastTime = 0
    /\ interventionActs = 0
    /\ DirectoryInit

Approvers(request) == {a.grant.actor : a \in request.approvals}
ApprovingClasses(request) == {a.grant.class : a \in request.approvals}
Participants(request) == Approvers(request) \cup {request.requester.actor, request.executor}

(* A record saved under its id, over whatever was there.                    *)
SavedAs(r, record, store) ==
    [q \in DOMAIN store \cup {r} |-> IF q = r THEN record ELSE store[q]]

SetState(r, state) == interventions' = [interventions EXCEPT ![r].state = state]

-----------------------------------------------------------------------------
(* request_intervention, and create_privilege_request for a supervision.   *)
(* Nothing asks whether the id is taken.                                   *)
RequestIntervention(r, g, level, until) ==
    /\ until > lastTime
    /\ Holds(g, "request")
    /\ interventions' =
          SavedAs(r, [level |-> level, requester |-> g, grantVersion |-> authority[g].version,
                      until |-> until, state |-> "REQUESTED",
                      approvals |-> {}, executor |-> NoExecutor], interventions)
    /\ UNCHANGED <<held, privileges, moved>>

(* Mutant of Counts: somebody's second approval counts again.           *)
CountsAgain(g, request) ==
    /\ request.state \in {"REQUESTED", "REVIEWING"}
    /\ g.actor # request.requester.actor
    /\ Holds(g, "approve")

Counts(g, request) ==
    /\ request.state \in {"REQUESTED", "REVIEWING"}
    /\ g.actor \notin {request.requester.actor} \cup Approvers(request)
    /\ Holds(g, "approve")

(* Mutant of IsQuorum: the number of approvals decides alone.               *)
IsQuorumByNumber(request) == Cardinality(request.approvals) >= QuorumOf(request.level)

IsQuorum(request) ==
    /\ Cardinality(request.approvals) >= QuorumOf(request.level)
    /\ ClassesOf(request.level) \subseteq ApprovingClasses(request)

(* approve *)
Approve(r, g) ==
    LET approved == [interventions[r] EXCEPT
                        !.approvals = @ \cup {[grant |-> g, version |-> authority[g].version]}]
        state    == IF IsQuorum(approved) THEN "APPROVED" ELSE "REVIEWING"
    IN  /\ Counts(g, interventions[r])
        /\ interventions' = [interventions EXCEPT ![r] = [approved EXCEPT !.state = state]]
        /\ UNCHANGED <<held, privileges, moved>>

(* _reauthorize: a target of which no version is recorded is taken to have *)
(* the requested one.                                                      *)
Reauthorized(request) ==
    /\ Untouched(request.requester, request.grantVersion)
    /\ request.level \notin moved
    /\ \A a \in request.approvals : Untouched(a.grant, a.version)

(* activate *)
Activate(r, g) ==
    LET request == interventions[r]
    IN  /\ request.state = "APPROVED"
        /\ g.actor \notin {request.requester.actor} \cup Approvers(request)
        /\ lastTime < request.until
        /\ Reauthorized(request)
        /\ Holds(g, "execute")
        /\ held' = held \cup ({request.level} \cap {Quarantine, Suspension})
        /\ interventions' = [interventions EXCEPT ![r].state = "ACTIVE",
                                                  ![r].executor = g.actor]
        /\ UNCHANGED <<privileges, moved>>

(* Mutant of Revoke: the target is let go together with the intervention.   *)
RevokeLettingGo(r, g) ==
    /\ Holds(g, "revoke")
    /\ interventions[r].state \notin Ended
    /\ SetState(r, "REVOKED")
    /\ held' = held \ {interventions[r].level}
    /\ UNCHANGED <<privileges, moved>>

(* revoke: the target stays held until it is restored, and a privilege     *)
(* materialized from the request stays active.                             *)
Revoke(r, g) ==
    /\ Holds(g, "revoke")
    /\ interventions[r].state \notin Ended
    /\ SetState(r, "REVOKED")
    /\ UNCHANGED <<held, privileges, moved>>

(* reject, by anyone who may approve, and cancel, by the requester.         *)
Reject(r, g) ==
    /\ Holds(g, "approve")
    /\ interventions[r].state \in Pending
    /\ SetState(r, "REJECTED")
    /\ UNCHANGED <<held, privileges, moved>>
Cancel(r) ==
    /\ interventions[r].state \in Pending
    /\ Untouched(interventions[r].requester, interventions[r].grantVersion)
    /\ SetState(r, "CANCELLED")
    /\ UNCHANGED <<held, privileges, moved>>

(* restore: whether the target is in conflict is the caller's word, which   *)
(* is taken to be true: no other intervention in force on it.               *)
Conflict(r) ==
    \E q \in DOMAIN interventions \ {r} :
        interventions[q].state = "ACTIVE" /\ interventions[q].level = interventions[r].level
Restore(r, g) ==
    /\ interventions[r].state \in {"REVOKED", "EXPIRED", "POST_REVIEWED"}
    /\ ~Conflict(r)
    /\ Holds(g, "restore")
    /\ held' = held \ {interventions[r].level}
    /\ SetState(r, "COMPLETED")
    /\ UNCHANGED <<privileges, moved>>

(* post_review, which a restored and reviewed request passes again.         *)
PostReview(r, g) ==
    /\ interventions[r].state \in {"EXPIRED", "REVOKED", "COMPLETED"}
    /\ g.actor \notin Participants(interventions[r])
    /\ Holds(g, "review")
    /\ SetState(r, "POST_REVIEWED")
    /\ UNCHANGED <<held, privileges, moved>>

(* expire_due at a moment.                                                  *)
ExpiredRequests ==
    [r \in DOMAIN interventions |->
        IF interventions[r].state = "ACTIVE" /\ lastTime >= interventions[r].until
        THEN [interventions[r] EXCEPT !.state = "EXPIRED"] ELSE interventions[r]]
ExpiredPrivileges ==
    [r \in DOMAIN privileges |->
        IF lastTime >= privileges[r].until THEN [privileges[r] EXCEPT !.active = FALSE]
        ELSE privileges[r]]
ExpireDue ==
    /\ interventions' = ExpiredRequests
    /\ privileges' = ExpiredPrivileges
    /\ <<interventions, privileges>>' # <<interventions, privileges>>
    /\ UNCHANGED <<held, moved>>

(* materialize_privilege of a request in force whose target is a principal, *)
(* for a second time too; one kind of privilege.                            *)
MaterializePrivilege(r) ==
    /\ interventions[r].state = "ACTIVE"
    /\ interventions[r].level \notin {Quarantine, Suspension}
    /\ privileges' = SavedAs(r, [active |-> TRUE, until |-> interventions[r].until,
                                 used |-> FALSE], privileges)
    /\ UNCHANGED <<interventions, held, moved>>

(* effective_decision of the privilege's action.                            *)
Restricted ==
    \E q \in DOMAIN interventions :
        /\ interventions[q].state = "ACTIVE"
        /\ interventions[q].level = Restriction
        /\ lastTime < interventions[q].until

(* Mutant of MayUse: the end of the privilege is left to expire_due's next  *)
(* caller.                                                                  *)
MayUseUntilSwept(r) == privileges[r].active /\ ~Restricted

MayUse(r) == privileges[r].active /\ lastTime < privileges[r].until /\ ~Restricted

(* use_privilege, which expires what is due before it looks.                *)
UsePrivilege(r) ==
    /\ MayUse(r)
    /\ interventions' = ExpiredRequests
    /\ privileges' = [ExpiredPrivileges EXCEPT ![r].used = TRUE]
    /\ UNCHANGED <<held, moved>>

(* set_target_version, by the owner of the target.                          *)
TargetChanges(level) ==
    /\ level \notin moved
    /\ Cardinality(moved) + Changes < MaxChanges
    /\ moved' = moved \cup {level}
    /\ UNCHANGED <<interventions, held, privileges>>

(* from_checkpoint(checkpoint()): the versions of targets are not in it.    *)
Restart ==
    /\ moved # {}
    /\ moved' = {}
    /\ UNCHANGED <<interventions, held, privileges>>

InterventionCommand ==
    \/ \E r \in InterventionIds, g \in AuthorityGrants, l \in Levels,
          until \in 1 .. MaxMoment : RequestIntervention(r, g, l, until)
    \/ \E r \in DOMAIN interventions :
          \/ Cancel(r) \/ MaterializePrivilege(r)
          \/ \E g \in AuthorityGrants :
                Approve(r, g) \/ Activate(r, g) \/ Revoke(r, g) \/ Reject(r, g)
                \/ Restore(r, g) \/ PostReview(r, g)
    \/ \E r \in DOMAIN privileges : UsePrivilege(r)
    \/ \E l \in Levels : TargetChanges(l)
    \/ ExpireDue \/ Restart

InterventionNext ==
    /\ interventionActs < MaxInterventionActs
    /\ interventionActs' = interventionActs + 1
    /\ \/ InterventionCommand /\ UNCHANGED <<lastTime, authority>>
       \/ /\ Cardinality(moved) + Changes < MaxChanges
          /\ \E g \in AuthorityGrants : AuthorityChanges(g)
          /\ UNCHANGED <<requestVars, lastTime>>
       \/ /\ lastTime < MaxMoment
          /\ lastTime' = lastTime + 1
          /\ UNCHANGED <<requestVars, authority>>

InterventionSpec == InterventionInit /\ [][InterventionNext]_interventionVars

-----------------------------------------------------------------------------
(* The type of the state.                                                   *)
InterventionTypeOK ==
    /\ DirectoryTypeOK
    /\ DOMAIN interventions \subseteq InterventionIds
    /\ \A r \in DOMAIN interventions :
          /\ interventions[r].level \in Levels
          /\ interventions[r].requester \in AuthorityGrants
          /\ interventions[r].state \in Pending \cup {"ACTIVE"} \cup Ended
          /\ interventions[r].until \in 1 .. MaxMoment
    /\ held \subseteq {Quarantine, Suspension}
    /\ DOMAIN privileges \subseteq InterventionIds
    /\ \A r \in DOMAIN privileges :
          privileges[r] \in [active : BOOLEAN, until : 1 .. MaxMoment, used : BOOLEAN]
    /\ moved \subseteq Levels
    /\ lastTime \in 0 .. MaxMoment
    /\ interventionActs \in 0 .. MaxInterventionActs


(* Whatever was put into force was asked for, approved and executed by     *)
(* different people, the approvers as many and of the classes its level    *)
(* asks for, however often somebody tries again, under whichever of their  *)
(* grants, and whatever becomes of the request afterwards                  *)
(* (RegionalOperationsService.approve and activate); and the target of a   *)
(* quarantine or a suspension in force is held, even when an earlier one   *)
(* of the same target was revoked or restored meanwhile (revoke, restore). *)
ByManyHands ==
    \A r \in DOMAIN interventions :
        LET request   == interventions[r]
            requester == request.requester.actor
        IN  request.executor # NoExecutor =>
               /\ requester \notin Approvers(request)
               /\ request.executor \notin Approvers(request) \cup {requester}
               /\ Cardinality(Approvers(request)) >= QuorumOf(request.level)
               /\ ClassesOf(request.level) \subseteq ApprovingClasses(request)
TargetsInForceAreHeld ==
    \A r \in DOMAIN interventions :
        interventions[r].state = "ACTIVE"
            => {interventions[r].level} \cap {Quarantine, Suspension} \subseteq held

(* What takes force rests on grants nobody touched since the requester and *)
(* each approver relied on theirs (_reauthorize, with expected_version).   *)
TakesForce(r) ==
    /\ r \in DOMAIN interventions
    /\ interventions[r].state # "ACTIVE"
    /\ interventions'[r].state = "ACTIVE"
RestsOnUntouchedGrants ==
    \A r \in InterventionIds :
        TakesForce(r) =>
            \A given \in {[grant |-> interventions[r].requester,
                           version |-> interventions[r].grantVersion]}
                         \cup interventions[r].approvals :
                /\ authority[given.grant].usable
                /\ authority[given.grant].version = given.version

(* A lent privilege does something only before the end of the supervision  *)
(* it came from, and never while a restriction is in force, whether or not *)
(* the sweep that expires them has run (use_privilege,                     *)
(* effective_decision).                                                    *)
PrivilegesEndInTime ==
    \A r \in DOMAIN privileges :
        r \in DOMAIN privileges' /\ privileges'[r].used /\ ~privileges[r].used =>
            /\ lastTime < privileges[r].until
            /\ \A q \in DOMAIN interventions :
                  interventions[q].level = Restriction /\ interventions[q].state = "ACTIVE"
                      => interventions[q].until <= lastTime

(* The four together: an intervention is governed from its request to the  *)
(* end of what it lent (RegionalOperationsService).                        *)
InterventionsAreGoverned ==
    /\ [](ByManyHands /\ TargetsInForceAreHeld)
    /\ [][RestsOnUntouchedGrants /\ PrivilegesEndInTime]_interventionVars
=============================================================================
