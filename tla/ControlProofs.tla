--------------------------- MODULE ControlProofs ----------------------------
(***************************************************************************)
(* Proofs about the control plane's regional interventions and about the   *)
(* documents of the document service.  They share no state; each has an    *)
(* inductive invariant of its own.                                         *)
(***************************************************************************)
EXTENDS Interventions, DocumentRegister, FiniteSetTheorems, TLAPS

-----------------------------------------------------------------------------
(***************************************************************************)
(* Proofs about Interventions.                                             *)
(***************************************************************************)

Officers == {g.actor : g \in AuthorityGrants}
GivenGrants == [grant : AuthorityGrants, version : Nat]

InterventionRecord ==
    [level : Levels, requester : AuthorityGrants, grantVersion : Nat, until : 1 .. MaxMoment,
     state : Pending \cup {"ACTIVE"} \cup Ended, approvals : SUBSET GivenGrants,
     executor : Officers \cup {NoExecutor}]

Privilege == [active : BOOLEAN, until : 1 .. MaxMoment, used : BOOLEAN]

(* Every approval is by another person, who is not the requester; there is *)
(* a quorum of them from the moment the request is approved, and what was  *)
(* put into force was executed by one who is none of them.                 *)
RequestStands(q) ==
    /\ q \in InterventionRecord
    /\ IsFiniteSet(q.approvals)
    /\ q.requester.actor \notin Approvers(q)
    /\ \A a, b \in q.approvals : a.grant.actor = b.grant.actor => a = b
    /\ q.state \in Pending => q.executor = NoExecutor
    /\ q.state = "APPROVED" \/ q.executor # NoExecutor => IsQuorum(q)
    /\ q.executor # NoExecutor => q.executor \notin Approvers(q) \cup {q.requester.actor}

InterventionInv ==
    /\ interventions = [r \in DOMAIN interventions |-> interventions[r]]
    /\ DOMAIN interventions \subseteq InterventionIds
    /\ \A r \in DOMAIN interventions : RequestStands(interventions[r])
    /\ TargetsInForceAreHeld
    /\ privileges = [r \in DOMAIN privileges |-> privileges[r]]
    /\ \A r \in DOMAIN privileges : privileges[r] \in Privilege
    /\ lastTime \in Nat
    /\ authority \in [AuthorityGrants -> [version : Nat \ {0}, usable : BOOLEAN]]

-----------------------------------------------------------------------------
(* As many people approved as there are approvals.                         *)
LEMMA ApproversCounted ==
  ASSUME NEW q, RequestStands(q)
  PROVE  Cardinality(Approvers(q)) = Cardinality(q.approvals)
  <1> DEFINE f == [a \in q.approvals |-> a.grant.actor]
  <1>1. f \in Bijection(q.approvals, Approvers(q))
    <2>1. f \in [q.approvals -> Approvers(q)]
      BY DEF Approvers
    <2>2. \A a, b \in q.approvals : f[a] = f[b] => a = b
      BY DEF RequestStands
    <2>3. \A p \in Approvers(q) : \E a \in q.approvals : f[a] = p
      BY DEF Approvers
    <2> HIDE DEF f
    <2> QED
      BY <2>1, <2>2, <2>3 DEF Bijection, Injection, Surjection, IsInjective
  <1>2. ExistsBijection(q.approvals, Approvers(q))
    BY <1>1 DEF ExistsBijection
  <1> QED
    BY <1>2, FS_Bijection DEF RequestStands

(* A request that only changes its state, and not to a pending one.        *)
LEMMA StateSet ==
  ASSUME NEW q, RequestStands(q), NEW s \in {"ACTIVE"} \cup Ended, NEW p,
         p = [q EXCEPT !.state = s]
  PROVE  RequestStands(p) /\ p.state = s /\ p.level = q.level
  <1>1. /\ p \in InterventionRecord /\ p.state = s /\ p.level = q.level
        /\ p.approvals = q.approvals /\ p.requester = q.requester /\ p.executor = q.executor
    BY DEF RequestStands, InterventionRecord
  <1>2. s \notin Pending /\ s # "APPROVED"
    BY DEF Pending, Ended
  <1> QED
    BY <1>1, <1>2 DEF RequestStands, IsQuorum, Approvers, ApprovingClasses

LEMMA InterventionStart == InterventionInit => InterventionInv
  BY DEF InterventionInit, InterventionInv, TargetsInForceAreHeld, DirectoryInit

-----------------------------------------------------------------------------
(* One request is written; the targets in force stay held.                 *)
LEMMA RequestWritten ==
  ASSUME InterventionInv, NEW r \in DOMAIN interventions, NEW q, RequestStands(q),
         interventions' = [interventions EXCEPT ![r] = q],
         q.state = "ACTIVE" => {q.level} \cap {Quarantine, Suspension} \subseteq held',
         held \subseteq held', UNCHANGED <<privileges, lastTime, authority>>
  PROVE  InterventionInv'
  <1>1. /\ interventions' = [s \in DOMAIN interventions' |-> interventions'[s]]
        /\ DOMAIN interventions' = DOMAIN interventions
        /\ interventions'[r] = q
        /\ \A s \in DOMAIN interventions \ {r} : interventions'[s] = interventions[s]
    BY DEF InterventionInv
  <1>2. \A s \in DOMAIN interventions' : RequestStands(interventions'[s])
    BY <1>1 DEF InterventionInv
  <1>3. TargetsInForceAreHeld'
    BY <1>1 DEF InterventionInv, TargetsInForceAreHeld
  <1> QED
    BY <1>1, <1>2, <1>3 DEF InterventionInv

LEMMA InterventionRequested ==
  ASSUME InterventionInv, NEW r \in InterventionIds, NEW g \in AuthorityGrants,
         NEW l \in Levels, NEW until \in 1 .. MaxMoment, RequestIntervention(r, g, l, until),
         UNCHANGED <<lastTime, authority>>
  PROVE  InterventionInv'
  <1>1. PICK q : q = [level |-> l, requester |-> g, grantVersion |-> authority[g].version,
                      until |-> until, state |-> "REQUESTED",
                      approvals |-> {}, executor |-> NoExecutor]
    OBVIOUS
  <1>2. authority[g].version \in Nat
    BY DEF InterventionInv
  <1>3. q \in InterventionRecord /\ q.approvals = {} /\ q.state = "REQUESTED" /\ q.executor = NoExecutor
    BY <1>1, <1>2 DEF InterventionRecord, Pending, GivenGrants
  <1>4. RequestStands(q)
    BY <1>3, FS_EmptySet DEF RequestStands, Approvers
  <1>5. interventions' = SavedAs(r, q, interventions) /\ UNCHANGED <<held, privileges>>
    BY <1>1 DEF RequestIntervention
  <1>6. /\ DOMAIN interventions' = DOMAIN interventions \cup {r}
        /\ interventions' = [s \in DOMAIN interventions' |-> interventions'[s]]
        /\ interventions'[r] = q
        /\ \A s \in DOMAIN interventions \ {r} : interventions'[s] = interventions[s]
    BY <1>5 DEF SavedAs
  <1>7. \A s \in DOMAIN interventions' : RequestStands(interventions'[s])
    BY <1>4, <1>6 DEF InterventionInv
  <1>8. TargetsInForceAreHeld'
    BY <1>3, <1>5, <1>6 DEF InterventionInv, TargetsInForceAreHeld
  <1> QED
    BY <1>5, <1>6, <1>7, <1>8 DEF InterventionInv

LEMMA Approved ==
  ASSUME InterventionInv, NEW r \in DOMAIN interventions, NEW g \in AuthorityGrants,
         Approve(r, g), UNCHANGED <<lastTime, authority>>
  PROVE  InterventionInv'
  <1> PICK old : old = interventions[r]
    OBVIOUS
  <1> PICK a : a = [grant |-> g, version |-> authority[g].version]
    OBVIOUS
  <1> PICK p : p = [old EXCEPT !.approvals = @ \cup {a}]
    OBVIOUS
  <1> PICK s : s = IF IsQuorum(p) THEN "APPROVED" ELSE "REVIEWING"
    OBVIOUS
  <1> PICK q : q = [p EXCEPT !.state = s]
    OBVIOUS
  <1>1. /\ RequestStands(old) /\ old \in InterventionRecord
        /\ old.state \in {"REQUESTED", "REVIEWING"}
        /\ g.actor # old.requester.actor /\ g.actor \notin Approvers(old)
        /\ interventions' = [interventions EXCEPT ![r] = q]
        /\ UNCHANGED <<held, privileges>>
    BY DEF InterventionInv, RequestStands, Approve, Counts
  <1>2. a \in GivenGrants /\ a.grant = g
    BY DEF InterventionInv, GivenGrants
  <1>3. /\ p \in InterventionRecord /\ p.approvals = old.approvals \cup {a}
        /\ p.level = old.level /\ p.requester = old.requester /\ p.executor = old.executor
    BY <1>1, <1>2 DEF InterventionRecord
  <1>4. s \in {"APPROVED", "REVIEWING"} /\ (s = "APPROVED" => IsQuorum(p))
    OBVIOUS
  <1>5. /\ q \in InterventionRecord /\ q.state = s /\ q.approvals = old.approvals \cup {a}
        /\ q.level = old.level /\ q.requester = old.requester /\ q.executor = NoExecutor
    <2>1. old.executor = NoExecutor
      BY <1>1 DEF RequestStands, Pending
    <2>2. s \in Pending \cup {"ACTIVE"} \cup Ended
      BY <1>4 DEF Pending
    <2> QED
      BY <1>3, <2>1, <2>2 DEF InterventionRecord
  <1>6. s = "APPROVED" => IsQuorum(q)
    BY <1>3, <1>4, <1>5 DEF IsQuorum, ApprovingClasses
  <1>7. IsFiniteSet(q.approvals)
    BY <1>1, <1>5, FS_AddElement DEF RequestStands
  <1>8. q.requester.actor \notin Approvers(q)
    BY <1>1, <1>2, <1>5 DEF RequestStands, Approvers
  <1>9. \A b, c \in q.approvals : b.grant.actor = c.grant.actor => b = c
    BY <1>1, <1>2, <1>5 DEF RequestStands, Approvers
  <1>10. RequestStands(q)
    BY <1>5, <1>6, <1>7, <1>8, <1>9 DEF RequestStands
  <1> QED
    BY <1>1, <1>4, <1>5, <1>10, RequestWritten

LEMMA Activated ==
  ASSUME InterventionInv, NEW r \in DOMAIN interventions, NEW g \in AuthorityGrants,
         Activate(r, g), UNCHANGED <<lastTime, authority>>
  PROVE  InterventionInv'
  <1> PICK old : old = interventions[r]
    OBVIOUS
  <1> PICK q : q = [old EXCEPT !.state = "ACTIVE", !.executor = g.actor]
    OBVIOUS
  <1>1. /\ RequestStands(old) /\ old \in InterventionRecord
        /\ old.state = "APPROVED"
        /\ g.actor # old.requester.actor /\ g.actor \notin Approvers(old)
        /\ held' = held \cup ({old.level} \cap {Quarantine, Suspension})
        /\ UNCHANGED <<privileges>>
    BY DEF InterventionInv, RequestStands, Activate
  <1>2. interventions' = [interventions EXCEPT ![r] = q]
    BY DEF Activate, InterventionInv
  <1>3. g.actor \in Officers
    BY DEF Officers
  <1>4. /\ q \in InterventionRecord /\ q.state = "ACTIVE" /\ q.approvals = old.approvals
        /\ q.level = old.level /\ q.requester = old.requester /\ q.executor = g.actor
    BY <1>1, <1>3 DEF InterventionRecord
  <1>5. IsQuorum(q)
    BY <1>1, <1>4 DEF RequestStands, IsQuorum, ApprovingClasses
  <1>6. RequestStands(q)
    BY <1>1, <1>4, <1>5 DEF RequestStands, Approvers, Pending
  <1> QED
    BY <1>1, <1>2, <1>4, <1>6, RequestWritten

(* Revocation, refusal, withdrawal and review end a request and leave its  *)
(* target as it is.                                                        *)
LEMMA RequestEnds ==
  ASSUME InterventionInv, NEW r \in DOMAIN interventions,
         \/ Cancel(r)
         \/ \E g \in AuthorityGrants : Revoke(r, g) \/ Reject(r, g) \/ PostReview(r, g),
         UNCHANGED <<lastTime, authority>>
  PROVE  InterventionInv'
  <1>1. PICK s \in Ended : SetState(r, s)
    BY DEF Cancel, Revoke, Reject, PostReview, Ended
  <1>2. UNCHANGED <<held, privileges>>
    BY DEF Cancel, Revoke, Reject, PostReview
  <1>3. PICK q : q = [interventions[r] EXCEPT !.state = s]
    OBVIOUS
  <1>4. RequestStands(q) /\ q.state = s
    BY <1>3, StateSet DEF InterventionInv
  <1>5. interventions' = [interventions EXCEPT ![r] = q]
    BY <1>1, <1>3 DEF SetState, InterventionInv
  <1>6. s # "ACTIVE"
    BY DEF Ended
  <1> QED
    BY <1>2, <1>4, <1>5, <1>6, RequestWritten

LEMMA Restored ==
  ASSUME InterventionInv, NEW r \in DOMAIN interventions, NEW g \in AuthorityGrants,
         Restore(r, g), UNCHANGED <<lastTime, authority>>
  PROVE  InterventionInv'
  <1>1. PICK q : q = [interventions[r] EXCEPT !.state = "COMPLETED"]
    OBVIOUS
  <1>2. RequestStands(q) /\ q.state = "COMPLETED"
    BY <1>1, StateSet DEF InterventionInv, Ended
  <1>3. /\ DOMAIN interventions' = DOMAIN interventions
        /\ interventions' = [s \in DOMAIN interventions' |-> interventions'[s]]
        /\ interventions'[r] = q
        /\ \A s \in DOMAIN interventions \ {r} : interventions'[s] = interventions[s]
    BY <1>1 DEF Restore, SetState, InterventionInv
  <1>4. \A s \in DOMAIN interventions' : RequestStands(interventions'[s])
    BY <1>2, <1>3 DEF InterventionInv
  <1>5. TargetsInForceAreHeld'
    <2> SUFFICES ASSUME NEW s \in DOMAIN interventions, interventions'[s].state = "ACTIVE"
                 PROVE  {interventions'[s].level} \cap {Quarantine, Suspension} \subseteq held'
      BY <1>3 DEF TargetsInForceAreHeld
    <2>1. s # r /\ interventions'[s] = interventions[s]
      BY <1>2, <1>3
    <2>2. interventions[s].level # interventions[r].level
      BY <2>1 DEF Restore, Conflict
    <2>3. {interventions[s].level} \cap {Quarantine, Suspension} \subseteq held
      BY <2>1 DEF InterventionInv, TargetsInForceAreHeld
    <2>4. held' = held \ {interventions[r].level}
      BY DEF Restore
    <2> QED
      BY <2>1, <2>2, <2>3, <2>4
  <1> QED
    BY <1>3, <1>4, <1>5 DEF InterventionInv, Restore

(* What is due expires.                                                    *)
LEMMA RequestsExpire ==
  ASSUME InterventionInv, interventions' = ExpiredRequests, held' = held
  PROVE  /\ interventions' = [s \in DOMAIN interventions' |-> interventions'[s]]
         /\ DOMAIN interventions' = DOMAIN interventions
         /\ \A r \in DOMAIN interventions' : RequestStands(interventions'[r])
         /\ TargetsInForceAreHeld'
  <1>1. /\ DOMAIN interventions' = DOMAIN interventions
        /\ interventions' = [s \in DOMAIN interventions' |-> interventions'[s]]
    BY DEF ExpiredRequests
  <1>2. ASSUME NEW r \in DOMAIN interventions
        PROVE  /\ RequestStands(interventions'[r])
               /\ interventions'[r].state = "ACTIVE" => interventions'[r] = interventions[r]
    <2>1. CASE interventions'[r] = interventions[r]
      BY <2>1 DEF InterventionInv
    <2>2. CASE interventions'[r] = [interventions[r] EXCEPT !.state = "EXPIRED"]
      <3>1. "EXPIRED" \in {"ACTIVE"} \cup Ended
        BY DEF Ended
      <3>2. RequestStands(interventions[r])
        BY DEF InterventionInv
      <3> QED
        BY <2>2, <3>1, <3>2, StateSet
    <2> QED
      BY <2>1, <2>2 DEF ExpiredRequests
  <1> QED
    BY <1>1, <1>2 DEF InterventionInv, TargetsInForceAreHeld

LEMMA PrivilegesExpire ==
  ASSUME InterventionInv
  PROVE  /\ DOMAIN ExpiredPrivileges = DOMAIN privileges
         /\ ExpiredPrivileges = [r \in DOMAIN privileges |-> ExpiredPrivileges[r]]
         /\ \A r \in DOMAIN privileges :
               /\ ExpiredPrivileges[r] \in Privilege
               /\ ExpiredPrivileges[r].used = privileges[r].used
  <1>1. ASSUME NEW r \in DOMAIN privileges
        PROVE  /\ ExpiredPrivileges[r] \in Privilege
               /\ ExpiredPrivileges[r].used = privileges[r].used
    <2>1. privileges[r] \in Privilege
      BY DEF InterventionInv
    <2>2. \/ ExpiredPrivileges[r] = privileges[r]
          \/ ExpiredPrivileges[r] = [privileges[r] EXCEPT !.active = FALSE]
      BY DEF ExpiredPrivileges
    <2> QED
      BY <2>1, <2>2 DEF Privilege
  <1> QED
    BY <1>1 DEF ExpiredPrivileges

LEMMA DueExpired ==
  ASSUME InterventionInv, ExpireDue, UNCHANGED <<lastTime, authority>>
  PROVE  InterventionInv'
  BY RequestsExpire, PrivilegesExpire DEF ExpireDue, InterventionInv

(* A use marks the privilege and leaves the rest as it expired.            *)
LEMMA UseMarks ==
  ASSUME InterventionInv, NEW r \in DOMAIN privileges, UsePrivilege(r)
  PROVE  /\ DOMAIN privileges' = DOMAIN privileges
         /\ privileges' = [s \in DOMAIN privileges' |-> privileges'[s]]
         /\ privileges'[r] \in Privilege
         /\ \A s \in DOMAIN privileges \ {r} : privileges'[s] = ExpiredPrivileges[s]
  <1> PICK e : e = ExpiredPrivileges
    OBVIOUS
  <1>1. /\ DOMAIN e = DOMAIN privileges /\ e = [s \in DOMAIN privileges |-> e[s]]
        /\ e[r] \in Privilege
    BY PrivilegesExpire
  <1>2. PICK p : p = [e[r] EXCEPT !.used = TRUE]
    OBVIOUS
  <1>3. p \in Privilege
    BY <1>1, <1>2 DEF Privilege
  <1>4. privileges' = [e EXCEPT ![r] = p]
    BY <1>1, <1>2 DEF UsePrivilege
  <1> QED
    BY <1>1, <1>3, <1>4

LEMMA PrivilegeUsed ==
  ASSUME InterventionInv, NEW r \in DOMAIN privileges, UsePrivilege(r),
         UNCHANGED <<lastTime, authority>>
  PROVE  InterventionInv'
  <1>1. interventions' = ExpiredRequests /\ held' = held
    BY DEF UsePrivilege
  <1>2. \A s \in DOMAIN privileges' : privileges'[s] \in Privilege
    BY UseMarks, PrivilegesExpire
  <1> QED
    BY <1>1, <1>2, UseMarks, RequestsExpire DEF InterventionInv

LEMMA PrivilegeMaterialized ==
  ASSUME InterventionInv, NEW r \in DOMAIN interventions, MaterializePrivilege(r),
         UNCHANGED <<lastTime, authority>>
  PROVE  InterventionInv'
  <1>1. PICK p : p = [active |-> TRUE, until |-> interventions[r].until, used |-> FALSE]
    OBVIOUS
  <1>2. interventions[r].until \in 1 .. MaxMoment
    BY DEF InterventionInv, RequestStands, InterventionRecord
  <1>3. p \in Privilege
    BY <1>1, <1>2 DEF Privilege
  <1>4. privileges' = SavedAs(r, p, privileges) /\ UNCHANGED <<interventions, held>>
    BY <1>1 DEF MaterializePrivilege
  <1>5. /\ privileges' = [s \in DOMAIN privileges' |-> privileges'[s]]
        /\ \A s \in DOMAIN privileges' : privileges'[s] \in Privilege
    BY <1>3, <1>4 DEF SavedAs, InterventionInv
  <1> QED
    BY <1>4, <1>5 DEF InterventionInv, TargetsInForceAreHeld

(* Authority, targets and time change beside the requests.                 *)
LEMMA WorldMoves ==
  ASSUME InterventionInv, UNCHANGED <<interventions, held, privileges>>,
         \/ UNCHANGED <<lastTime, authority>>
         \/ lastTime' = lastTime /\ \E g \in AuthorityGrants : AuthorityChanges(g)
         \/ lastTime' = lastTime + 1 /\ authority' = authority
  PROVE  InterventionInv'
  <1>1. TargetsInForceAreHeld'
    BY DEF InterventionInv, TargetsInForceAreHeld
  <1>2. authority' \in [AuthorityGrants -> [version : Nat \ {0}, usable : BOOLEAN]]
    <2>1. ASSUME NEW g \in AuthorityGrants, AuthorityChanges(g)
          PROVE  authority' \in [AuthorityGrants -> [version : Nat \ {0}, usable : BOOLEAN]]
      <3>1. PICK u \in BOOLEAN :
               authority' = [authority EXCEPT ![g] = [version |-> @.version + 1, usable |-> u]]
        BY <2>1 DEF AuthorityChanges
      <3>2. [version |-> authority[g].version + 1, usable |-> u] \in [version : Nat \ {0}, usable : BOOLEAN]
        BY DEF InterventionInv
      <3> QED
        BY <3>1, <3>2 DEF InterventionInv
    <2> QED
      BY <2>1 DEF InterventionInv
  <1>3. lastTime' \in Nat
    BY DEF InterventionInv
  <1> QED
    BY <1>1, <1>2, <1>3 DEF InterventionInv

LEMMA InterventionStep ==
  InterventionInv /\ [InterventionNext]_interventionVars => InterventionInv'
  <1> SUFFICES ASSUME InterventionInv, [InterventionNext]_interventionVars
               PROVE  InterventionInv'
    OBVIOUS
  <1>1. CASE UNCHANGED interventionVars
    BY <1>1, WorldMoves DEF interventionVars, requestVars
  <1>2. CASE InterventionCommand /\ UNCHANGED <<lastTime, authority>>
    <2>1. ASSUME \E l \in Levels : TargetChanges(l) \/ Restart
          PROVE  InterventionInv'
      BY <1>2, <2>1, WorldMoves DEF TargetChanges, Restart
    <2> QED
      BY <1>2, <2>1, InterventionRequested, Approved, Activated, RequestEnds, Restored, DueExpired,
         PrivilegeUsed, PrivilegeMaterialized DEF InterventionCommand, Levels
  <1>3. CASE \E g \in AuthorityGrants : AuthorityChanges(g) /\ UNCHANGED <<requestVars, lastTime>>
    BY <1>3, WorldMoves DEF requestVars
  <1>4. CASE lastTime' = lastTime + 1 /\ UNCHANGED <<requestVars, authority>>
    BY <1>4, WorldMoves DEF requestVars
  <1> QED
    BY <1>1, <1>2, <1>3, <1>4 DEF InterventionNext

LEMMA InterventionInvHolds == InterventionSpec => []InterventionInv
  BY InterventionStart, InterventionStep, PTL DEF InterventionSpec

-----------------------------------------------------------------------------
(* What else the type of the state says.                                   *)
SidesInv ==
    /\ held \subseteq {Quarantine, Suspension}
    /\ DOMAIN privileges \subseteq InterventionIds
    /\ moved \subseteq Levels
    /\ lastTime \in 0 .. MaxMoment
    /\ interventionActs \in 0 .. MaxInterventionActs

LEMMA SidesStart == InterventionInit => SidesInv
  BY InterventionAssumption DEF InterventionInit, SidesInv

LEMMA SidesStep ==
  InterventionInv /\ SidesInv /\ [InterventionNext]_interventionVars => SidesInv'
  <1> SUFFICES ASSUME InterventionInv, SidesInv, InterventionNext
               PROVE  SidesInv'
    BY DEF interventionVars, requestVars, SidesInv
  <1>1. interventionActs' \in 0 .. MaxInterventionActs
    BY InterventionAssumption DEF InterventionNext, SidesInv
  <1>2. lastTime' \in 0 .. MaxMoment
    BY InterventionAssumption DEF InterventionNext, SidesInv
  <1>3. CASE UNCHANGED requestVars
    BY <1>1, <1>2, <1>3 DEF SidesInv, requestVars
  <1>4. CASE InterventionCommand
    <2>1. held' \subseteq {Quarantine, Suspension}
      BY <1>4 DEF InterventionCommand, SidesInv, RequestIntervention, Approve, Activate, Revoke,
                  Reject, Cancel, Restore, PostReview, ExpireDue, MaterializePrivilege,
                  UsePrivilege, TargetChanges, Restart
    <2>2. DOMAIN privileges' \subseteq InterventionIds
      <3>1. ASSUME NEW r \in DOMAIN interventions, MaterializePrivilege(r)
            PROVE  DOMAIN privileges' \subseteq InterventionIds
        BY <3>1 DEF MaterializePrivilege, SavedAs, SidesInv, InterventionInv
      <3>2. ASSUME NEW r \in DOMAIN privileges, UsePrivilege(r)
            PROVE  DOMAIN privileges' \subseteq InterventionIds
        BY <3>2, UseMarks DEF SidesInv
      <3>3. ASSUME ExpireDue
            PROVE  DOMAIN privileges' \subseteq InterventionIds
        BY <3>3, PrivilegesExpire DEF ExpireDue, SidesInv
      <3> QED
        BY <1>4, <3>1, <3>2, <3>3
           DEF InterventionCommand, SidesInv, RequestIntervention, Approve, Activate, Revoke,
               Reject, Cancel, Restore, PostReview, TargetChanges, Restart
    <2>3. moved' \subseteq Levels
      BY <1>4 DEF InterventionCommand, SidesInv, RequestIntervention, Approve, Activate, Revoke,
                  Reject, Cancel, Restore, PostReview, ExpireDue, MaterializePrivilege,
                  UsePrivilege, TargetChanges, Restart
    <2> QED
      BY <1>1, <1>2, <2>1, <2>2, <2>3 DEF SidesInv
  <1> QED
    BY <1>3, <1>4 DEF InterventionNext

(* Requests, privileges, targets and grants keep their types.              *)
THEOREM InterventionTypeCorrect == InterventionSpec => []InterventionTypeOK
  <1>1. InterventionInv /\ SidesInv => InterventionTypeOK
    BY DEF InterventionInv, SidesInv, InterventionTypeOK, DirectoryTypeOK, RequestStands,
           InterventionRecord, Privilege
  <1> QED
    BY <1>1, InterventionInvHolds, SidesStart, SidesStep, PTL DEF InterventionSpec

-----------------------------------------------------------------------------
(* Whatever was put into force was asked for, approved and executed by     *)
(* different people, as many and of the classes its level asks for         *)
(* (approve, activate).                                                    *)
THEOREM ManyHands == InterventionSpec => []ByManyHands
  <1>1. InterventionInv => ByManyHands
    <2> SUFFICES ASSUME InterventionInv, NEW r \in DOMAIN interventions,
                        interventions[r].executor # NoExecutor
                 PROVE  LET request   == interventions[r]
                            requester == request.requester.actor
                        IN  /\ requester \notin Approvers(request)
                            /\ request.executor \notin Approvers(request) \cup {requester}
                            /\ Cardinality(Approvers(request)) >= QuorumOf(request.level)
                            /\ ClassesOf(request.level) \subseteq ApprovingClasses(request)
      BY DEF ByManyHands
    <2> PICK q : q = interventions[r]
      OBVIOUS
    <2>1. RequestStands(q) /\ q.executor # NoExecutor
      BY DEF InterventionInv
    <2>2. Cardinality(Approvers(q)) = Cardinality(q.approvals)
      BY <2>1, ApproversCounted
    <2>3. /\ Cardinality(q.approvals) >= QuorumOf(q.level)
          /\ ClassesOf(q.level) \subseteq ApprovingClasses(q)
      BY <2>1 DEF RequestStands, IsQuorum
    <2> QED
      BY <2>1, <2>2, <2>3 DEF RequestStands
  <1> QED
    BY <1>1, InterventionInvHolds, PTL

(* Requests come into force by activation alone.                           *)
LEMMA OnlyActivationTakesForce ==
  ASSUME InterventionInv, InterventionNext, NEW r, TakesForce(r)
  PROVE  \E g \in AuthorityGrants : Activate(r, g)
  <1>1. r \in DOMAIN interventions /\ interventions' # interventions
    BY DEF TakesForce
  <1>2. InterventionCommand
    BY <1>1 DEF InterventionNext, requestVars
  <1>3. ASSUME NEW q \in DOMAIN interventions, NEW s \in Ended \cup {"REVIEWING", "APPROVED"}, NEW p,
               p.state = s, interventions' = [interventions EXCEPT ![q] = p]
        PROVE  FALSE
    <2>1. s # "ACTIVE"
      BY DEF Ended
    <2> QED
      BY <1>1, <1>3, <2>1 DEF TakesForce, InterventionInv
  <1>4. ASSUME NEW q \in DOMAIN interventions, NEW s \in Ended, SetState(q, s)
        PROVE  FALSE
    <2>1. PICK p : p = [interventions[q] EXCEPT !.state = s]
      OBVIOUS
    <2>2. p.state = s
      BY <2>1 DEF InterventionInv, RequestStands, InterventionRecord
    <2>3. interventions' = [interventions EXCEPT ![q] = p]
      BY <1>4, <2>1 DEF SetState, InterventionInv
    <2> QED
      BY <1>3, <2>2, <2>3
  <1>5. ASSUME NEW q \in DOMAIN interventions, NEW g \in AuthorityGrants, Approve(q, g)
        PROVE  FALSE
    <2>1. PICK p : p = [interventions[q] EXCEPT
                          !.approvals = @ \cup {[grant |-> g, version |-> authority[g].version]}]
      OBVIOUS
    <2>2. PICK s : s = IF IsQuorum(p) THEN "APPROVED" ELSE "REVIEWING"
      OBVIOUS
    <2>3. PICK o : o = [p EXCEPT !.state = s]
      OBVIOUS
    <2>4. interventions' = [interventions EXCEPT ![q] = o]
      BY <1>5, <2>1, <2>2, <2>3 DEF Approve
    <2>5. interventions[q] \in InterventionRecord
      BY DEF InterventionInv, RequestStands
    <2>6. o.state = s /\ s \in {"REVIEWING", "APPROVED"}
      BY <2>1, <2>2, <2>3, <2>5 DEF InterventionRecord
    <2> QED
      BY <1>3, <2>4, <2>6
  <1>6. ASSUME NEW q, NEW g, NEW l, NEW until, RequestIntervention(q, g, l, until)
        PROVE  FALSE
    BY <1>1, <1>6 DEF RequestIntervention, SavedAs, TakesForce
  <1>7. ASSUME interventions' = ExpiredRequests
        PROVE  FALSE
    <2>1. \/ interventions'[r] = interventions[r]
          \/ interventions'[r] = [interventions[r] EXCEPT !.state = "EXPIRED"]
      BY <1>1, <1>7 DEF ExpiredRequests
    <2>2. interventions[r] \in InterventionRecord
      BY <1>1 DEF InterventionInv, RequestStands
    <2>3. interventions'[r].state = "ACTIVE" /\ interventions[r].state # "ACTIVE"
      BY DEF TakesForce
    <2> QED
      BY <2>1, <2>2, <2>3 DEF InterventionRecord
  <1>8. ASSUME NEW q \in DOMAIN interventions, NEW g \in AuthorityGrants, Activate(q, g)
        PROVE  q = r
    BY <1>1, <1>8 DEF Activate, TakesForce, InterventionInv
  <1>9. PICK q \in DOMAIN interventions : \E g \in AuthorityGrants : Activate(q, g)
    <2>1. ASSUME NEW q \in DOMAIN interventions, NEW g \in AuthorityGrants,
                 \/ Cancel(q) \/ Revoke(q, g) \/ Reject(q, g) \/ Restore(q, g)
                 \/ PostReview(q, g)
          PROVE  FALSE
      BY <1>4, <2>1 DEF Cancel, Revoke, Reject, Restore, PostReview, Ended
    <2>2. ~\E q \in DOMAIN interventions : Cancel(q)
      <3> SUFFICES ASSUME NEW q \in DOMAIN interventions, Cancel(q) PROVE FALSE
        OBVIOUS
      <3> QED
        BY <1>4 DEF Cancel, Ended
    <2>3. /\ ~ExpireDue /\ ~Restart /\ ~\E q \in DOMAIN privileges : UsePrivilege(q)
          /\ ~\E q \in DOMAIN interventions : MaterializePrivilege(q)
          /\ ~\E l \in Levels : TargetChanges(l)
      BY <1>1, <1>7 DEF ExpireDue, Restart, UsePrivilege, MaterializePrivilege, TargetChanges
    <2> QED
      BY <1>2, <1>5, <1>6, <2>1, <2>2, <2>3 DEF InterventionCommand
  <1> QED
    BY <1>8, <1>9

(* Privileges are used by use_privilege alone.                             *)
LEMMA OnlyUseUses ==
  ASSUME InterventionInv, InterventionNext, NEW r \in DOMAIN privileges,
         r \in DOMAIN privileges', privileges'[r].used, ~privileges[r].used
  PROVE  UsePrivilege(r)
  <1>1. privileges' # privileges
    OBVIOUS
  <1>2. InterventionCommand
    BY <1>1 DEF InterventionNext, requestVars
  <1>3. privileges' # ExpiredPrivileges
    BY PrivilegesExpire
  <1>4. ~\E q \in DOMAIN interventions : MaterializePrivilege(q)
    <2> SUFFICES ASSUME NEW q \in DOMAIN interventions, MaterializePrivilege(q)
                 PROVE  FALSE
      OBVIOUS
    <2>1. privileges'[r] = IF r = q THEN [active |-> TRUE, until |-> interventions[q].until,
                                          used |-> FALSE] ELSE privileges[r]
      BY DEF MaterializePrivilege, SavedAs
    <2> QED
      BY <2>1
  <1>5. PICK q \in DOMAIN privileges : UsePrivilege(q)
    BY <1>1, <1>2, <1>3, <1>4
       DEF InterventionCommand, RequestIntervention, Cancel, Approve, Activate, Revoke, Reject,
           Restore, PostReview, TargetChanges, ExpireDue, Restart
  <1>6. q = r
    BY <1>5, UseMarks, PrivilegesExpire
  <1> QED
    BY <1>5, <1>6

(* For any grants, requests and moments: an intervention takes force by    *)
(* many hands, on grants nobody touched meanwhile, its target is held for  *)
(* as long as one is in force, and a privilege works only in its time and  *)
(* while nothing restricts it.                                             *)
THEOREM InterventionsStayGoverned == InterventionSpec => InterventionsAreGoverned
  <1>1. InterventionInv => TargetsInForceAreHeld
    BY DEF InterventionInv
  <1>2. ASSUME InterventionInv, InterventionNext
        PROVE  RestsOnUntouchedGrants
    <2> SUFFICES ASSUME NEW r \in InterventionIds, TakesForce(r),
                        NEW given \in {[grant |-> interventions[r].requester,
                                        version |-> interventions[r].grantVersion]}
                                      \cup interventions[r].approvals
                 PROVE  /\ authority[given.grant].usable
                        /\ authority[given.grant].version = given.version
      BY DEF RestsOnUntouchedGrants
    <2>1. PICK g \in AuthorityGrants : Activate(r, g)
      BY <1>2, OnlyActivationTakesForce
    <2>2. Reauthorized(interventions[r])
      BY <2>1 DEF Activate
    <2> QED
      BY <2>2 DEF Reauthorized, Untouched
  <1>3. ASSUME InterventionInv, InterventionNext
        PROVE  PrivilegesEndInTime
    <2> SUFFICES ASSUME NEW r \in DOMAIN privileges, r \in DOMAIN privileges',
                        privileges'[r].used, ~privileges[r].used
                 PROVE  /\ lastTime < privileges[r].until
                        /\ \A q \in DOMAIN interventions :
                              interventions[q].level = Restriction /\ interventions[q].state = "ACTIVE"
                                  => interventions[q].until <= lastTime
      BY DEF PrivilegesEndInTime
    <2>1. UsePrivilege(r)
      BY <1>3, OnlyUseUses
    <2>2. lastTime < privileges[r].until /\ ~Restricted
      BY <2>1 DEF UsePrivilege, MayUse
    <2>3. lastTime \in Nat /\ \A q \in DOMAIN interventions : interventions[q].until \in Nat
      BY <1>3 DEF InterventionInv, RequestStands, InterventionRecord
    <2> QED
      BY <2>2, <2>3 DEF Restricted
  <1>4. InterventionInv /\ [InterventionNext]_interventionVars =>
            [RestsOnUntouchedGrants /\ PrivilegesEndInTime]_interventionVars
    BY <1>2, <1>3
  <1> QED
    BY <1>1, <1>4, InterventionInvHolds, ManyHands, PTL
       DEF InterventionSpec, InterventionsAreGoverned

-----------------------------------------------------------------------------
(***************************************************************************)
(* Proofs about DocumentRegister.                                          *)
(***************************************************************************)

VersionStates == {"draft", "in_review", "returned_for_revision", "approved", "published",
                  "superseded", "revoked"}
StoredVersion == [recorder : DocumentActors, state : VersionStates]

GovernedDocument ==
    [state : {"none", "active", "closed"}, version : 0 .. MaxDocumentChanges, count : Nat,
     current : Nat, requirement : SUBSET ReviewKinds, retention : BOOLEAN,
     hold : {"none", "active", "released", "indeterminate"}]

DocumentStands ==
    /\ document \in GovernedDocument
    /\ document.count <= Len(versionStore) /\ document.current <= document.count

DocumentShape ==
    /\ registered \in 0 .. MaxRegistered
    /\ versionStore \in Seq(StoredVersion) /\ Len(versionStore) <= MaxDocumentVersions
    /\ versionApprovals \in [Numbers -> DocumentActors \cup {NoOne}]
    /\ authorizations \in [Numbers -> DocumentActors \cup {NoOne}]
    /\ admitters \in [Numbers -> DocumentActors \cup {NoOne}]
    /\ successors \in [Numbers -> Numbers \cup {0}]
    /\ revocations \subseteq Stored /\ unreviewed \subseteq Stored
    /\ DOMAIN reviews = ReviewIds /\ DOMAIN evidenceStore = EvidenceIds
    /\ DOMAIN bundles = BundleIds

(* Only a version that has left its draft has reviews.                     *)
ReviewStands(r) ==
    \/ reviews[r] = NoReview
    \/ \E n \in Stored : reviews[r].version = n /\ versionStore[n].state # "draft"

IsApproved(n) == versionApprovals[n] # NoOne

IsAdmitted(n) == admitters[n] # NoOne

(* No review comes after a version was made approved, since it never is in *)
(* review again; so what its approver found then still holds.  An approval *)
(* that needed a review was recorded no earlier.                           *)
ApprovalStands(n) ==
    /\ IsApproved(n) =>
         /\ n \in Stored
         /\ versionApprovals[n] # versionStore[n].recorder
         /\ n \notin unreviewed =>
              versionStore[n].state \notin {"draft", "in_review"} /\ Reviewers(n) # {}
    /\ IsAdmitted(n) =>
         /\ IsApproved(n)
         /\ versionStore[n].state \notin {"draft", "in_review"}
         /\ admitters[n] \notin {versionStore[n].recorder} \cup Reviewers(n)
         /\ UnresolvedFindings(n) = {}
         /\ n \notin unreviewed => versionApprovals[n] = admitters[n]

AuthorizationStands(n) ==
    authorizations[n] # NoOne =>
        /\ IsApproved(n)
        /\ authorizations[n] \notin {versionStore[n].recorder, versionApprovals[n]}

StateStands(n) ==
    /\ n \in renditions => n \in Stored /\ authorizations[n] # NoOne /\ IsAdmitted(n)
    /\ n \in Stored /\ versionStore[n].state = "published" => authorizations[n] # NoOne
    /\ n \in Stored /\ IsCitable(n) => IsAdmitted(n)
    /\ n \in Stored /\ versionStore[n].state = "superseded" =>
          \E later \in Numbers : successors[n] = later /\ later > n /\ IsApproved(later)

EvidenceStands(e) ==
    \/ evidenceStore[e] = NoEvidenceRecord
    \/ \E n \in Numbers : evidenceStore[e].version = n /\ IsApproved(n)

BundleStands(b) ==
    \A item \in bundles[b] :
        /\ item.evidence \in EvidenceIds
        /\ evidenceStore[item.evidence].version = item.version
        /\ \E n \in Numbers : item.version = n /\ IsApproved(n)

DocumentInv ==
    /\ DocumentShape /\ DocumentStands
    /\ \A r \in ReviewIds : ReviewStands(r)
    /\ renditions \subseteq Numbers
    /\ \A n \in Numbers : ApprovalStands(n) /\ AuthorizationStands(n) /\ StateStands(n)
    /\ \A e \in EvidenceIds : EvidenceStands(e)
    /\ \A b \in BundleIds : BundleStands(b)

-----------------------------------------------------------------------------
(* The numbers of the stored versions.                                     *)
LEMMA StoredNumbers ==
  ASSUME DocumentShape
  PROVE  /\ Stored = 1 .. Len(versionStore) /\ Len(versionStore) \in Nat
         /\ Stored \subseteq Numbers /\ 0 \notin Numbers
         /\ \A n \in Stored : versionStore[n] \in StoredVersion
         /\ Numbers \subseteq Nat
  BY DocumentAssumption DEF DocumentShape, Stored, Numbers

LEMMA DocumentStart == DocumentInit => DocumentInv
  <1> SUFFICES ASSUME DocumentInit PROVE DocumentInv
    OBVIOUS
  <1>1. Stored = {} /\ versionStore \in Seq(StoredVersion) /\ Len(versionStore) = 0
    BY DEF DocumentInit, Stored
  <1>2. DocumentShape
    BY <1>1, DocumentAssumption DEF DocumentInit, DocumentShape
  <1>3. DocumentStands
    BY <1>1, DocumentAssumption DEF DocumentInit, DocumentStands, NotRegistered, GovernedDocument
  <1>4. \A n \in Numbers : ApprovalStands(n) /\ AuthorizationStands(n) /\ StateStands(n)
    BY <1>1 DEF DocumentInit, ApprovalStands, AuthorizationStands, StateStands, IsApproved,
                IsAdmitted
  <1> QED
    BY <1>2, <1>3, <1>4
       DEF DocumentInv, DocumentInit, ReviewStands, EvidenceStands, BundleStands

(* A transition that is allowed, from a state of the version and to one.   *)
LEMMA TransitionStates ==
  ASSUME NEW n, NEW s, MayMoveTo(n, s)
  PROVE  /\ s \in VersionStates \ {"draft"}
         /\ s = "in_review" => versionStore[n].state = "draft"
         /\ s \in {"returned_for_revision", "approved"} => versionStore[n].state = "in_review"
         /\ s = "published" => versionStore[n].state = "approved"
         /\ s = "superseded" => versionStore[n].state \in {"approved", "published"}
  BY DEF MayMoveTo, VersionTransitions, VersionStates

(* The store after one version's state has changed.                        *)
LEMMA BecomesState ==
  ASSUME DocumentShape, NEW n \in Stored, NEW s \in VersionStates, Becomes(n, s)
  PROVE  /\ versionStore' \in Seq(StoredVersion) /\ Len(versionStore') = Len(versionStore)
         /\ Stored' = Stored
         /\ versionStore'[n].state = s /\ versionStore'[n].recorder = versionStore[n].recorder
         /\ \A m \in Stored \ {n} : versionStore'[m] = versionStore[m]
  <1> PICK q : q = [versionStore[n] EXCEPT !.state = s]
    OBVIOUS
  <1>1. versionStore[n] \in StoredVersion
    BY StoredNumbers
  <1>2. q \in StoredVersion /\ q.state = s /\ q.recorder = versionStore[n].recorder
    BY <1>1 DEF StoredVersion
  <1>3. versionStore' = [versionStore EXCEPT ![n] = q]
    BY DEF Becomes, DocumentShape
  <1>4. versionStore \in Seq(StoredVersion) /\ n \in 1 .. Len(versionStore)
    BY StoredNumbers DEF DocumentShape
  <1>5. versionStore' \in Seq(StoredVersion) /\ Len(versionStore') = Len(versionStore)
    BY <1>2, <1>3, <1>4
  <1>6. versionStore'[n] = q /\ \A m \in Stored \ {n} : versionStore'[m] = versionStore[m]
    BY <1>3, <1>4, StoredNumbers DEF Stored
  <1>7. Stored' = Stored
    BY <1>3 DEF Stored
  <1> QED
    BY <1>2, <1>5, <1>6, <1>7

(* Steps of the document itself, of its versions and of their reviews,     *)
(* which leave approvals, evidence and bundles alone.                      *)
LEMMA EvidenceKept ==
  ASSUME DocumentInv, UNCHANGED <<evidenceStore, bundles>>,
         \A n \in Numbers : IsApproved(n) => IsApproved(n)'
  PROVE  /\ \A e \in EvidenceIds : EvidenceStands(e)'
         /\ \A b \in BundleIds : BundleStands(b)'
  BY DEF DocumentInv, EvidenceStands, BundleStands, Numbers

(* Only the document changes.                                              *)
LEMMA DocumentKept ==
  ASSUME DocumentInv, registered' \in 0 .. MaxRegistered, DocumentStands',
         UNCHANGED <<versionStore, reviews, recordVars, evidenceVars>>
  PROVE  DocumentInv'
  <1>1. /\ Stored' = Stored /\ \A n \in Numbers : IsApproved(n)' = IsApproved(n)
        /\ \A n \in Numbers : Reviewers(n)' = Reviewers(n)
              /\ UnresolvedFindings(n)' = UnresolvedFindings(n)
              /\ IsAdmitted(n)' = IsAdmitted(n)
    BY DEF Stored, IsApproved, IsAdmitted, recordVars, admissionVars, Reviewers,
           UnresolvedFindings, ReviewsOf
  <1>2. DocumentShape'
    BY DEF DocumentInv, DocumentShape, Stored, recordVars, admissionVars, evidenceVars
  <1>3. \A r \in ReviewIds : ReviewStands(r)'
    BY DEF DocumentInv, ReviewStands, Stored
  <1>4. \A n \in Numbers : ApprovalStands(n)' /\ AuthorizationStands(n)' /\ StateStands(n)'
    BY <1>1 DEF DocumentInv, ApprovalStands, AuthorizationStands, StateStands, IsApproved,
                IsCitable, recordVars, admissionVars
  <1>5. /\ \A e \in EvidenceIds : EvidenceStands(e)'
        /\ \A b \in BundleIds : BundleStands(b)'
    BY <1>1, EvidenceKept DEF evidenceVars
  <1> QED
    BY <1>2, <1>3, <1>4, <1>5 DEF DocumentInv, recordVars, Numbers

(* The document moves on to another current version, or stays.             *)
LEMMA CurrentStands ==
  ASSUME DocumentInv, Room, NEW n \in Stored, CurrentMoves(n),
         Len(versionStore') = Len(versionStore)
  PROVE  DocumentStands'
  <1>1. CASE document' = document
    BY <1>1 DEF DocumentInv, DocumentStands
  <1>2. CASE n <= document.count /\ document' = Appended([document EXCEPT !.current = n])
    <2>1. document.version + 1 \in 0 .. MaxDocumentChanges /\ n \in Nat
      BY StoredNumbers, DocumentAssumption DEF Room, DocumentInv, DocumentStands, GovernedDocument
    <2>2. /\ document' \in GovernedDocument
          /\ document'.count = document.count /\ document'.current = n
      BY <1>2, <2>1 DEF Appended, DocumentInv, DocumentStands, GovernedDocument
    <2> QED
      BY <1>2, <2>2 DEF DocumentInv, DocumentStands
  <1> QED
    BY <1>1, <1>2 DEF CurrentMoves

-----------------------------------------------------------------------------
LEMMA DocumentRegistered ==
  ASSUME DocumentInv, NEW requirement \in Requirements, RegisterDocument(requirement)
  PROVE  DocumentInv'
  <1>1. registered' \in 0 .. MaxRegistered
    BY DocumentAssumption DEF RegisterDocument, DocumentInv, DocumentShape
  <1>2. requirement \in SUBSET ReviewKinds /\ 1 \in 0 .. MaxDocumentChanges
    BY DocumentAssumption
  <1>3. /\ document' \in GovernedDocument
        /\ document'.count = 0 /\ document'.current = 0
    BY <1>2 DEF RegisterDocument, NotRegistered, GovernedDocument
  <1>4. Len(versionStore) \in Nat /\ versionStore' = versionStore
    BY StoredNumbers DEF DocumentInv, RegisterDocument
  <1>5. DocumentStands'
    BY <1>3, <1>4 DEF DocumentStands
  <1> QED
    BY <1>1, <1>5, DocumentKept DEF RegisterDocument

LEMMA DocumentChanged ==
  ASSUME DocumentInv, NEW d \in GovernedDocument, DocumentChanges(d),
         d.count = document.count, d.current = document.current,
         d.version = document.version
  PROVE  DocumentInv'
  <1>1. d.version + 1 \in 0 .. MaxDocumentChanges
    BY DocumentAssumption DEF DocumentChanges, Room, GovernedDocument
  <1>2. /\ document' \in GovernedDocument
        /\ document'.count = document.count /\ document'.current = document.current
    BY <1>1 DEF DocumentChanges, Appended, GovernedDocument
  <1>3. DocumentStands'
    BY <1>2 DEF DocumentInv, DocumentStands, DocumentChanges
  <1>4. registered' \in 0 .. MaxRegistered
    BY DEF DocumentInv, DocumentShape, DocumentChanges
  <1> QED
    BY <1>3, <1>4, DocumentKept DEF DocumentChanges

LEMMA DocumentSettled ==
  ASSUME DocumentInv,
         \/ BindRetention
         \/ \E hold \in {"active", "released", "indeterminate"} : RecordLegalHold(hold)
         \/ \E count \in 0 .. MaxDocumentVersions : AuthorizeDisposition(count)
  PROVE  DocumentInv'
  <1>1. document \in GovernedDocument
    BY DEF DocumentInv, DocumentStands
  <1>2. CASE BindRetention
    BY <1>1, <1>2, DocumentChanged DEF BindRetention, GovernedDocument
  <1>3. ASSUME NEW hold \in {"active", "released", "indeterminate"}, RecordLegalHold(hold)
        PROVE  DocumentInv'
    <2>1. PICK d : d = [document EXCEPT !.hold = hold]
      OBVIOUS
    <2>2. /\ d \in GovernedDocument
          /\ d.count = document.count /\ d.current = document.current
          /\ d.version = document.version
      BY <1>1, <2>1 DEF GovernedDocument
    <2> QED
      BY <1>3, <2>1, <2>2, DocumentChanged DEF RecordLegalHold
  <1>4. CASE \E count \in 0 .. MaxDocumentVersions : AuthorizeDisposition(count)
    <2>1. PICK d : d = [document EXCEPT !.state = "closed"]
      OBVIOUS
    <2>2. /\ d \in GovernedDocument
          /\ d.count = document.count /\ d.current = document.current
          /\ d.version = document.version
      BY <1>1, <2>1 DEF GovernedDocument
    <2> QED
      BY <1>4, <2>1, <2>2, DocumentChanged DEF AuthorizeDisposition
  <1> QED
    BY <1>2, <1>3, <1>4

LEMMA VersionRecorded ==
  ASSUME DocumentInv, NEW actor \in DocumentActors, RecordVersion(actor)
  PROVE  DocumentInv'
  <1> PICK n : n = Len(versionStore) + 1
    OBVIOUS
  <1> PICK q : q = [recorder |-> actor, state |-> "draft"]
    OBVIOUS
  <1>1. /\ n \in Numbers /\ Room /\ document.state = "active"
        /\ versionStore' = Append(versionStore, q)
        /\ document' = IF n = document.count + 1
                       THEN Appended([document EXCEPT !.count = n])
                       ELSE document
        /\ UNCHANGED <<registered, reviews, recordVars, evidenceVars>>
    BY DEF RecordVersion
  <1>2. q \in StoredVersion
    BY DEF StoredVersion, VersionStates
  <1>3. DocumentShape
    BY DEF DocumentInv
  <1>4. /\ versionStore' \in Seq(StoredVersion) /\ Len(versionStore') = n
        /\ Stored' = Stored \cup {n} /\ n \notin Stored
        /\ versionStore'[n] = q
        /\ \A m \in Stored : versionStore'[m] = versionStore[m]
    BY <1>1, <1>2, <1>3, StoredNumbers DEF DocumentShape, Stored
  <1>5. n <= MaxDocumentVersions
    BY <1>1, DocumentAssumption DEF Numbers
  <1>6. DocumentShape'
    BY <1>1, <1>3, <1>4, <1>5 DEF DocumentShape, recordVars, admissionVars, evidenceVars, Numbers
  <1>7. DocumentStands'
    <2>1. CASE document' = document
      BY <1>3, <1>4, <2>1, StoredNumbers DEF DocumentInv, DocumentStands, GovernedDocument
    <2>2. CASE n = document.count + 1 /\ document' = Appended([document EXCEPT !.count = n])
      <3>1. document.version + 1 \in 0 .. MaxDocumentChanges /\ n \in Nat
        BY <1>1, <1>3, StoredNumbers, DocumentAssumption
           DEF Room, DocumentInv, DocumentStands, GovernedDocument
      <3>2. /\ document' \in GovernedDocument
            /\ document'.count = n /\ document'.current = document.current
        BY <2>2, <3>1 DEF Appended, DocumentInv, DocumentStands, GovernedDocument
      <3>3. document.current <= n
        BY <2>2, <3>1 DEF DocumentInv, DocumentStands, GovernedDocument
      <3>4. n <= n
        BY <3>1
      <3> QED
        BY <1>4, <3>2, <3>3, <3>4 DEF DocumentStands
    <2> QED
      BY <1>1, <2>1, <2>2
  <1>8. \A r \in ReviewIds : ReviewStands(r)'
    BY <1>1, <1>4 DEF DocumentInv, ReviewStands
  <1>9. \A m \in Numbers : /\ IsApproved(m)' = IsApproved(m) /\ IsAdmitted(m)' = IsAdmitted(m)
                           /\ Reviewers(m)' = Reviewers(m)
                           /\ UnresolvedFindings(m)' = UnresolvedFindings(m)
    BY <1>1 DEF IsApproved, IsAdmitted, recordVars, admissionVars, Reviewers,
                UnresolvedFindings, ReviewsOf
  <1>10. ASSUME NEW m \in Numbers
         PROVE  ApprovalStands(m)' /\ AuthorizationStands(m)' /\ StateStands(m)'
    <2>1. /\ ApprovalStands(m) /\ AuthorizationStands(m) /\ StateStands(m)
      BY DEF DocumentInv
    <2>2. ApprovalStands(m)'
      BY <1>1, <1>4, <1>9, <2>1 DEF ApprovalStands, recordVars, admissionVars
    <2>3. AuthorizationStands(m)'
      BY <1>1, <1>4, <1>9, <2>1 DEF ApprovalStands, AuthorizationStands, recordVars
    <2>4. StateStands(m)'
      <3>1. CASE m = n
        <4>1. m \notin renditions
          BY <1>4, <2>1, <3>1 DEF StateStands
        <4>2. versionStore'[m].state = "draft"
          BY <1>4, <3>1
        <4> QED
          BY <1>1, <4>1, <4>2 DEF StateStands, IsCitable, recordVars
      <3>2. CASE m # n
        <4>1. m \in Stored' <=> m \in Stored
          BY <1>4, <3>2
        <4>2. m \in Stored => versionStore'[m] = versionStore[m]
          BY <1>4
        <4>3. UNCHANGED <<versionApprovals, authorizations, successors, renditions>>
          BY <1>1 DEF recordVars
        <4> QED
          BY <1>9, <2>1, <4>1, <4>2, <4>3 DEF StateStands, IsCitable, IsApproved, Numbers
      <3> QED
        BY <3>1, <3>2
    <2> QED
      BY <2>2, <2>3, <2>4
  <1>11. /\ \A e \in EvidenceIds : EvidenceStands(e)'
         /\ \A b \in BundleIds : BundleStands(b)'
    BY <1>1, <1>9, EvidenceKept DEF evidenceVars
  <1> QED
    BY <1>1, <1>6, <1>7, <1>8, <1>10, <1>11 DEF DocumentInv, recordVars, Numbers

(* A version moves on, without a new approval or with its own.             *)
LEMMA VersionMoved ==
  ASSUME DocumentInv, NEW n \in Stored, NEW s \in VersionStates \ {"draft"}, Becomes(n, s),
         UNCHANGED <<registered, reviews, authorizations, renditions, evidenceVars>>,
         DocumentStands',
         versionApprovals' \in [Numbers -> DocumentActors \cup {NoOne}],
         admitters' \in [Numbers -> DocumentActors \cup {NoOne}],
         successors' \in [Numbers -> Numbers \cup {0}], revocations' \subseteq Stored,
         unreviewed \subseteq unreviewed', unreviewed' \subseteq unreviewed \cup {n},
         \A m \in Numbers \ {n} : /\ versionApprovals'[m] = versionApprovals[m]
                                  /\ admitters'[m] = admitters[m]
                                  /\ successors'[m] = successors[m],
         IsApproved(n) => versionApprovals'[n] = versionApprovals[n],
         IsAdmitted(n) => IsAdmitted(n)', ApprovalStands(n)',
         s = "published" => authorizations[n] # NoOne,
         s \in {"approved", "published", "superseded"} => IsAdmitted(n)',
         s = "superseded" => \E later \in Numbers : successors'[n] = later /\ later > n
                                                     /\ IsApproved(later)
  PROVE  DocumentInv'
  <1>1. DocumentShape /\ n \in Numbers
    BY StoredNumbers DEF DocumentInv
  <1>2. /\ versionStore' \in Seq(StoredVersion) /\ Len(versionStore') = Len(versionStore)
        /\ Stored' = Stored
        /\ versionStore'[n].state = s /\ versionStore'[n].recorder = versionStore[n].recorder
        /\ \A m \in Stored \ {n} : versionStore'[m] = versionStore[m]
    BY <1>1, BecomesState
  <1>3. DocumentShape'
    BY <1>1, <1>2 DEF DocumentShape, evidenceVars, Numbers
  <1>4. \A r \in ReviewIds : ReviewStands(r)'
    BY <1>2 DEF DocumentInv, ReviewStands
  <1>5. \A m \in Numbers : /\ Reviewers(m)' = Reviewers(m)
                           /\ UnresolvedFindings(m)' = UnresolvedFindings(m)
    BY DEF Reviewers, UnresolvedFindings, ReviewsOf
  <1>6. \A m \in Numbers : /\ IsApproved(m) => IsApproved(m)'
                           /\ IsAdmitted(m) => IsAdmitted(m)'
    BY DEF IsApproved, IsAdmitted
  <1>7. ASSUME NEW m \in Numbers, m # n
        PROVE  ApprovalStands(m)' /\ AuthorizationStands(m)' /\ StateStands(m)'
    <2>1. /\ ApprovalStands(m) /\ AuthorizationStands(m) /\ StateStands(m)
      BY DEF DocumentInv
    <2>2. /\ versionApprovals'[m] = versionApprovals[m] /\ successors'[m] = successors[m]
          /\ IsApproved(m)' = IsApproved(m) /\ IsAdmitted(m)' = IsAdmitted(m)
          /\ admitters'[m] = admitters[m] /\ (m \in unreviewed' <=> m \in unreviewed)
      BY <1>7 DEF IsApproved, IsAdmitted
    <2>3. m \in Stored => versionStore'[m] = versionStore[m]
      BY <1>2, <1>7
    <2>4. ApprovalStands(m)'
      BY <1>2, <1>5, <2>1, <2>2, <2>3 DEF ApprovalStands
    <2>5. AuthorizationStands(m)'
      BY <2>1, <2>2, <2>3 DEF AuthorizationStands, ApprovalStands
    <2>6. StateStands(m)'
      BY <1>2, <1>6, <2>1, <2>2, <2>3 DEF StateStands, IsCitable, IsApproved
    <2> QED
      BY <2>4, <2>5, <2>6
  <1>8. ApprovalStands(n)' /\ AuthorizationStands(n)' /\ StateStands(n)'
    <2>1. ApprovalStands(n) /\ AuthorizationStands(n) /\ StateStands(n)
      BY <1>1 DEF DocumentInv
    <2>2. ApprovalStands(n)'
      OBVIOUS
    <2>3. AuthorizationStands(n)'
      BY <1>1, <1>2, <1>6, <2>1 DEF AuthorizationStands, IsApproved
    <2>4. s = "superseded" => \E later \in Numbers : successors'[n] = later /\ later > n
                                                      /\ IsApproved(later)'
      BY <1>6
    <2>5. StateStands(n)'
      BY <1>1, <1>2, <1>6, <2>1, <2>4 DEF StateStands, IsCitable
    <2> QED
      BY <2>2, <2>3, <2>5
  <1>9. /\ \A e \in EvidenceIds : EvidenceStands(e)'
        /\ \A b \in BundleIds : BundleStands(b)'
    BY <1>6, EvidenceKept DEF evidenceVars
  <1> QED
    BY <1>3, <1>4, <1>7, <1>8, <1>9 DEF DocumentInv, Numbers

(* A version moves on while its approval and its successor stay.           *)
LEMMA VersionMovedOn ==
  ASSUME DocumentInv, NEW n \in Stored,
         \/ SubmitForReview(n) \/ PublishDocumentVersion(n) \/ RevokeVersion(n)
         \/ \E actor \in DocumentActors : ReturnForRevision(n, actor)
  PROVE  DocumentInv'
  <1>1. PICK s \in {"in_review", "returned_for_revision", "published", "revoked"} :
           /\ Becomes(n, s)
           /\ s = "in_review" => versionStore[n].state = "draft"
           /\ s = "published" => Publishable(n) /\ versionStore[n].state = "approved"
    BY TransitionStates DEF SubmitForReview, PublishDocumentVersion, RevokeVersion, ReturnForRevision
  <1>2. /\ UNCHANGED <<registered, document, reviews, versionApprovals, authorizations,
                       successors, renditions, evidenceVars>>
        /\ UNCHANGED <<admitters, unreviewed>> /\ revocations' \subseteq Stored
    BY DEF SubmitForReview, PublishDocumentVersion, RevokeVersion, ReturnForRevision, recordVars,
           admissionVars, DocumentInv, DocumentShape
  <1>3. s \in VersionStates \ {"draft"} /\ DocumentShape /\ n \in Numbers
    BY StoredNumbers DEF VersionStates, DocumentInv
  <1>4. Len(versionStore') = Len(versionStore)
    BY <1>1, <1>3, BecomesState
  <1>5. DocumentStands'
    BY <1>2, <1>4 DEF DocumentInv, DocumentStands
  <1>6. /\ IsApproved(n)' = IsApproved(n) /\ IsAdmitted(n)' = IsAdmitted(n)
        /\ ApprovalStands(n) /\ StateStands(n)
    BY <1>2, <1>3 DEF IsApproved, IsAdmitted, DocumentInv
  <1>7. ApprovalStands(n)'
    <2>1. /\ versionStore'[n].state = s /\ versionStore'[n].recorder = versionStore[n].recorder
          /\ Stored' = Stored
      BY <1>1, <1>3, BecomesState
    <2>2. Reviewers(n)' = Reviewers(n) /\ UnresolvedFindings(n)' = UnresolvedFindings(n)
      BY <1>2 DEF Reviewers, UnresolvedFindings, ReviewsOf
    <2>3. s \in {"draft", "in_review"} => versionStore[n].state = "draft"
      BY <1>1
    <2> QED
      BY <1>2, <1>6, <2>1, <2>2, <2>3 DEF ApprovalStands
  <1>8. s = "published" => authorizations[n] # NoOne /\ IsAdmitted(n)
    BY <1>1, <1>6 DEF Publishable, StateStands, IsCitable
  <1>9. /\ versionApprovals' \in [Numbers -> DocumentActors \cup {NoOne}]
        /\ admitters' \in [Numbers -> DocumentActors \cup {NoOne}]
        /\ successors' \in [Numbers -> Numbers \cup {0}]
    BY <1>2, <1>3 DEF DocumentShape
  <1>10. s \notin {"approved", "superseded"}
    BY <1>1
  <1> QED
    BY <1>1, <1>2, <1>3, <1>5, <1>6, <1>7, <1>8, <1>9, <1>10, VersionMoved

(* One more approval, authorization, successor or rendition is on record   *)
(* while the versions stay as they are.                                    *)
LEMMA RecordAdded ==
  ASSUME DocumentInv, NEW n \in Stored, DocumentStands',
         UNCHANGED <<registered, versionStore, reviews, revocations, admitters, evidenceVars>>,
         unreviewed \subseteq unreviewed', unreviewed' \subseteq unreviewed \cup {n},
         versionApprovals' \in [Numbers -> DocumentActors \cup {NoOne}],
         authorizations' \in [Numbers -> DocumentActors \cup {NoOne}],
         successors' \in [Numbers -> Numbers \cup {0}],
         \A m \in Numbers \ {n} : /\ versionApprovals'[m] = versionApprovals[m]
                                  /\ authorizations'[m] = authorizations[m]
                                  /\ successors'[m] = successors[m],
         renditions \subseteq renditions', renditions' \subseteq renditions \cup {n},
         IsApproved(n) => versionApprovals'[n] = versionApprovals[n],
         authorizations[n] # NoOne => authorizations'[n] = authorizations[n],
         successors[n] # 0 => successors'[n] = successors[n],
         n \in renditions' => authorizations'[n] # NoOne /\ IsAdmitted(n),
         ApprovalStands(n)', AuthorizationStands(n)'
  PROVE  DocumentInv'
  <1>1. DocumentShape /\ n \in Numbers /\ Stored' = Stored /\ 0 \notin Numbers
    BY StoredNumbers DEF DocumentInv, Stored
  <1>2. DocumentShape'
    BY <1>1 DEF DocumentShape, evidenceVars, Numbers
  <1>3. \A r \in ReviewIds : ReviewStands(r)'
    BY <1>1 DEF DocumentInv, ReviewStands
  <1>4. \A m \in Numbers : /\ IsApproved(m) => IsApproved(m)'
                           /\ IsAdmitted(m)' = IsAdmitted(m)
    BY DEF IsApproved, IsAdmitted
  <1>5. \A m \in Numbers : /\ Reviewers(m)' = Reviewers(m)
                           /\ UnresolvedFindings(m)' = UnresolvedFindings(m)
    BY DEF Reviewers, UnresolvedFindings, ReviewsOf
  <1>6. ASSUME NEW m \in Numbers
        PROVE  StateStands(m)'
    <2>1. StateStands(m)
      BY DEF DocumentInv
    <2>2. authorizations[m] # NoOne => authorizations'[m] # NoOne
      BY <1>6
    <2>3. successors[m] \in Numbers => successors'[m] = successors[m]
      BY <1>1
    <2>4. m \in renditions' => m \in Stored /\ authorizations'[m] # NoOne /\ IsAdmitted(m)
      BY <2>1, <2>2 DEF StateStands
    <2> QED
      BY <1>1, <1>4, <2>1, <2>2, <2>3, <2>4 DEF StateStands, IsCitable
  <1>7. ASSUME NEW m \in Numbers, m # n
        PROVE  ApprovalStands(m)' /\ AuthorizationStands(m)'
    <2>1. ApprovalStands(m) /\ AuthorizationStands(m)
      BY DEF DocumentInv
    <2>2. /\ versionApprovals'[m] = versionApprovals[m] /\ authorizations'[m] = authorizations[m]
          /\ IsApproved(m)' = IsApproved(m) /\ (m \in unreviewed' <=> m \in unreviewed)
      BY <1>7 DEF IsApproved
    <2> QED
      BY <1>1, <1>4, <1>5, <2>1, <2>2 DEF ApprovalStands, AuthorizationStands
  <1>8. /\ \A e \in EvidenceIds : EvidenceStands(e)'
        /\ \A b \in BundleIds : BundleStands(b)'
    BY <1>4, EvidenceKept DEF evidenceVars
  <1>9. renditions' \subseteq Numbers
    BY <1>1 DEF DocumentInv
  <1> QED
    BY <1>2, <1>3, <1>6, <1>7, <1>8, <1>9 DEF DocumentInv, Numbers

LEMMA VersionApproved ==
  ASSUME DocumentInv, NEW n \in Stored, NEW actor \in DocumentActors,
         ApproveDocumentVersion(n, actor)
  PROVE  DocumentInv'
  <1>1. DocumentShape /\ n \in Numbers /\ ApprovalStands(n) /\ AuthorizationStands(n)
    BY StoredNumbers DEF DocumentInv
  <1>2. /\ versionApprovals' \in [Numbers -> DocumentActors \cup {NoOne}]
        /\ \A m \in Numbers \ {n} : versionApprovals'[m] = versionApprovals[m]
        /\ versionApprovals'[n] = IF IsApproved(n) THEN versionApprovals[n] ELSE actor
    BY <1>1 DEF ApproveDocumentVersion, DocumentShape, IsApproved
  <1>3. /\ ReviewComplete(n) /\ MayApproveVersion(n, actor)
        /\ unreviewed' = unreviewed \cup
                          {m \in {n} : ~IsApproved(n) /\ document.requirement = {}}
    BY DEF ApproveDocumentVersion, IsApproved
  <1>4. /\ UnresolvedFindings(n) = {}
        /\ actor \notin {versionStore[n].recorder} \cup Reviewers(n)
        /\ versionApprovals'[n] # versionStore[n].recorder
    BY <1>1, <1>2, <1>3 DEF ReviewComplete, MayApproveVersion, ApprovalStands
  <1>5. IsApproved(n)' /\ actor # NoOne
    BY <1>2, DocumentAssumption DEF IsApproved
  <1>6. ~IsApproved(n) /\ n \notin unreviewed' => /\ Reviewers(n) # {}
                                                 /\ versionStore[n].state # "draft"
    <2> SUFFICES ASSUME ~IsApproved(n), n \notin unreviewed'
                 PROVE  Reviewers(n) # {} /\ versionStore[n].state # "draft"
      OBVIOUS
    <2>1. document.requirement # {}
      BY <1>3
    <2>2. PICK r \in ReviewIds : reviews[r].version = n
      BY <1>3, <2>1 DEF ReviewComplete, ReviewsOf
    <2>3. reviews[r] # NoReview
      BY <1>1, <2>2, StoredNumbers DEF NoReview
    <2> QED
      BY <2>2, <2>3 DEF DocumentInv, ReviewStands, Reviewers, ReviewsOf
  <1>7. /\ UNCHANGED <<registered, reviews, authorizations, successors, revocations,
                       renditions, evidenceVars>>
        /\ successors' \in [Numbers -> Numbers \cup {0}]
        /\ authorizations' \in [Numbers -> DocumentActors \cup {NoOne}]
    BY <1>1 DEF ApproveDocumentVersion, DocumentShape
  <1>8. /\ Reviewers(n)' = Reviewers(n) /\ UnresolvedFindings(n)' = UnresolvedFindings(n)
        /\ unreviewed \subseteq unreviewed' /\ unreviewed' \subseteq unreviewed \cup {n}
    BY <1>3, <1>7 DEF Reviewers, UnresolvedFindings, ReviewsOf
  <1>9. CASE MayMoveTo(n, "approved")
    <2>1. /\ Becomes(n, "approved") /\ CurrentMoves(n) /\ Room
          /\ admitters' = [admitters EXCEPT ![n] = actor]
      BY <1>9 DEF ApproveDocumentVersion
    <2>2. "approved" \in VersionStates \ {"draft"}
      BY DEF VersionStates
    <2>3. /\ Len(versionStore') = Len(versionStore) /\ Stored' = Stored
          /\ versionStore'[n].state = "approved"
          /\ versionStore'[n].recorder = versionStore[n].recorder
      BY <1>1, <2>1, <2>2, BecomesState
    <2>4. DocumentStands'
      BY <2>1, <2>3, CurrentStands
    <2>5. revocations' \subseteq Stored
      BY <1>1, <1>7 DEF DocumentShape
    <2>6. /\ admitters' \in [Numbers -> DocumentActors \cup {NoOne}] /\ admitters'[n] = actor
          /\ \A m \in Numbers \ {n} : admitters'[m] = admitters[m]
      BY <1>1, <2>1 DEF DocumentShape
    <2>7. versionStore[n].state = "in_review"
      BY <1>9, TransitionStates
    <2>8. n \notin unreviewed' => ~IsApproved(n)
      BY <1>1, <1>8, <2>7 DEF ApprovalStands
    <2>9. ApprovalStands(n)'
      BY <1>2, <1>4, <1>5, <1>6, <1>8, <2>3, <2>6, <2>8 DEF ApprovalStands
    <2>10. IsAdmitted(n)'
      BY <1>5, <2>6 DEF IsAdmitted
    <2> QED
      BY <1>2, <1>7, <1>8, <2>1, <2>2, <2>4, <2>5, <2>6, <2>9, <2>10, VersionMoved
  <1>10. CASE ~MayMoveTo(n, "approved")
    <2>1. UNCHANGED <<versionStore, document, admitters>>
      BY <1>10 DEF ApproveDocumentVersion
    <2>2. versionStore[n].state # "in_review"
      BY <1>10 DEF MayMoveTo, VersionTransitions
    <2>3. Stored' = Stored /\ IsAdmitted(n)' = IsAdmitted(n)
      BY <2>1 DEF Stored, IsAdmitted
    <2>4. IsApproved(n) => (n \in unreviewed' <=> n \in unreviewed)
      BY <1>3
    <2>5. ApprovalStands(n)'
      BY <1>1, <1>2, <1>4, <1>5, <1>6, <1>8, <2>1, <2>2, <2>3, <2>4 DEF ApprovalStands
    <2>6. AuthorizationStands(n)'
      BY <1>1, <1>2, <1>5, <1>7, <2>1 DEF AuthorizationStands
    <2>7. DocumentStands'
      BY <2>1 DEF DocumentInv, DocumentStands
    <2>8. n \in renditions' => authorizations'[n] # NoOne /\ IsAdmitted(n)
      BY <1>1, <1>7 DEF DocumentInv, StateStands
    <2> QED
      BY <1>2, <1>7, <1>8, <2>1, <2>5, <2>6, <2>7, <2>8, RecordAdded
  <1> QED
    BY <1>9, <1>10

LEMMA PublicationAuthorized ==
  ASSUME DocumentInv, NEW n \in Stored,
         IssueRendition(n) \/ \E actor \in DocumentActors : AuthorizePublication(n, actor)
  PROVE  DocumentInv'
  <1>1. /\ DocumentShape /\ n \in Numbers /\ ApprovalStands(n) /\ AuthorizationStands(n)
        /\ StateStands(n)
    BY StoredNumbers DEF DocumentInv
  <1>2. /\ UNCHANGED <<registered, document, versionStore, reviews, versionApprovals,
                       successors, revocations, admitters, unreviewed, evidenceVars>>
        /\ versionApprovals' \in [Numbers -> DocumentActors \cup {NoOne}]
        /\ successors' \in [Numbers -> Numbers \cup {0}]
    BY <1>1 DEF IssueRendition, AuthorizePublication, DocumentShape, admissionVars
  <1>3. DocumentStands'
    BY <1>2 DEF DocumentInv, DocumentStands
  <1>4. ApprovalStands(n)'
    <2>1. /\ Reviewers(n)' = Reviewers(n) /\ UnresolvedFindings(n)' = UnresolvedFindings(n)
          /\ Stored' = Stored
      BY <1>2 DEF Reviewers, UnresolvedFindings, ReviewsOf, Stored
    <2> QED
      BY <1>1, <1>2, <2>1 DEF ApprovalStands, IsApproved, IsAdmitted
  <1>5. CASE IssueRendition(n)
    <2>1. /\ authorizations' = authorizations /\ authorizations[n] # NoOne
          /\ renditions' = renditions \cup {n} /\ IsAdmitted(n)
      BY <1>1, <1>5 DEF IssueRendition, StateStands, IsCitable
    <2>2. AuthorizationStands(n)'
      BY <1>1, <1>2, <2>1 DEF AuthorizationStands, IsApproved
    <2>3. authorizations' \in [Numbers -> DocumentActors \cup {NoOne}]
      BY <1>1, <2>1 DEF DocumentShape
    <2> QED
      BY <1>2, <1>3, <1>4, <2>1, <2>2, <2>3, RecordAdded
  <1>6. ASSUME NEW actor \in DocumentActors, AuthorizePublication(n, actor)
        PROVE  DocumentInv'
    <2>1. /\ authorizations' = [authorizations EXCEPT ![n] = actor] /\ authorizations[n] = NoOne
          /\ renditions' = renditions /\ IsApproved(n)
          /\ (n \in renditions => IsAdmitted(n))
          /\ actor \notin {versionStore[n].recorder, versionApprovals[n]}
      BY <1>1, <1>6 DEF AuthorizePublication, IsApproved, StateStands
    <2>2. /\ authorizations' \in [Numbers -> DocumentActors \cup {NoOne}]
          /\ authorizations'[n] = actor /\ actor # NoOne
          /\ \A m \in Numbers \ {n} : authorizations'[m] = authorizations[m]
      BY <1>1, <2>1, DocumentAssumption DEF DocumentShape
    <2>3. AuthorizationStands(n)'
      BY <1>2, <2>1, <2>2 DEF AuthorizationStands, IsApproved
    <2> QED
      BY <1>2, <1>3, <1>4, <2>1, <2>2, <2>3, RecordAdded
  <1> QED
    BY <1>5, <1>6

LEMMA VersionSuperseded ==
  ASSUME DocumentInv, NEW n \in Stored, NEW later \in Stored, SupersedeVersion(n, later)
  PROVE  DocumentInv'
  <1>1. /\ DocumentShape /\ n \in Numbers /\ later \in Numbers /\ ApprovalStands(n)
        /\ AuthorizationStands(n) /\ StateStands(later) /\ ApprovalStands(later)
        /\ StateStands(n)
    BY StoredNumbers DEF DocumentInv
  <1>2. /\ UNCHANGED <<registered, reviews, versionApprovals, authorizations, revocations,
                       renditions, admitters, unreviewed, evidenceVars>>
        /\ versionApprovals' \in [Numbers -> DocumentActors \cup {NoOne}]
        /\ authorizations' \in [Numbers -> DocumentActors \cup {NoOne}]
        /\ admitters' \in [Numbers -> DocumentActors \cup {NoOne}]
        /\ successors' \in [Numbers -> Numbers \cup {0}]
        /\ successors'[n] = later /\ later > n /\ successors[n] = 0
        /\ \A m \in Numbers \ {n} : successors'[m] = successors[m]
    BY <1>1 DEF SupersedeVersion, DocumentShape, admissionVars
  <1>3. IsApproved(later) /\ Room
    BY <1>1 DEF SupersedeVersion, StateStands, ApprovalStands
  <1>4. /\ IsApproved(n)' = IsApproved(n) /\ IsAdmitted(n)' = IsAdmitted(n)
        /\ Reviewers(n)' = Reviewers(n) /\ UnresolvedFindings(n)' = UnresolvedFindings(n)
    BY <1>2 DEF IsApproved, IsAdmitted, Reviewers, UnresolvedFindings, ReviewsOf
  <1>5. CASE MayMoveTo(n, "superseded")
    <2>1. Becomes(n, "superseded") /\ CurrentMoves(later)
      BY <1>5 DEF SupersedeVersion
    <2>2. "superseded" \in VersionStates \ {"draft"}
      BY DEF VersionStates
    <2>3. /\ Len(versionStore') = Len(versionStore) /\ Stored' = Stored
          /\ versionStore'[n].state = "superseded"
          /\ versionStore'[n].recorder = versionStore[n].recorder
      BY <1>1, <2>1, <2>2, BecomesState
    <2>4. DocumentStands'
      BY <1>3, <2>1, <2>3, CurrentStands
    <2>5. revocations' \subseteq Stored
      BY <1>1, <1>2 DEF DocumentShape
    <2>6. IsAdmitted(n)
      <3>1. versionStore[n].state \in {"approved", "published"}
        BY <1>5, TransitionStates
      <3> QED
        BY <1>1, <3>1 DEF StateStands, IsCitable
    <2>7. ApprovalStands(n)'
      BY <1>1, <1>2, <1>4, <2>3 DEF ApprovalStands
    <2>8. /\ \A m \in Numbers \ {n} : /\ versionApprovals'[m] = versionApprovals[m]
                                       /\ admitters'[m] = admitters[m]
                                       /\ successors'[m] = successors[m]
          /\ successors'[n] = later /\ later > n /\ later \in Numbers /\ IsApproved(later)
      BY <1>1, <1>2, <1>3
    <2> QED
      BY <1>2, <1>4, <2>1, <2>2, <2>4, <2>5, <2>6, <2>7, <2>8, VersionMoved
  <1>6. CASE ~MayMoveTo(n, "superseded")
    <2>1. UNCHANGED <<versionStore, document>>
      BY <1>6 DEF SupersedeVersion
    <2>2. DocumentStands'
      BY <2>1 DEF DocumentInv, DocumentStands
    <2>3. ApprovalStands(n)'
      <3>1. Stored' = Stored
        BY <2>1 DEF Stored
      <3> QED
        BY <1>1, <1>2, <1>4, <2>1, <3>1 DEF ApprovalStands
    <2>4. AuthorizationStands(n)'
      BY <1>1, <1>2, <1>4, <2>1 DEF AuthorizationStands
    <2>5. n \in renditions' => authorizations'[n] # NoOne /\ IsAdmitted(n)
      BY <1>1, <1>2 DEF StateStands
    <2> QED
      BY <1>2, <1>4, <2>1, <2>2, <2>3, <2>4, <2>5, RecordAdded
  <1> QED
    BY <1>5, <1>6

LEMMA ReviewRecorded ==
  ASSUME DocumentInv, NEW n \in Stored, NEW r \in ReviewIds, NEW actor, NEW kind, NEW blocking,
         NEW resolves, RecordReview(r, n, actor, kind, blocking, resolves)
  PROVE  DocumentInv'
  <1> PICK q : q = [version |-> n, reviewer |-> actor, kind |-> kind,
                    blocking |-> blocking, resolves |-> resolves]
    OBVIOUS
  <1>1. /\ versionStore[n].state = "in_review" /\ reviews[r] = NoReview
        /\ reviews' = [reviews EXCEPT ![r] = q] /\ q.version = n
        /\ UNCHANGED <<registered, document, versionStore, recordVars, evidenceVars>>
    BY DEF RecordReview
  <1>2. /\ DocumentShape /\ n \in Numbers /\ Stored' = Stored /\ 0 \notin Numbers
        /\ \A s \in ReviewIds \ {r} : reviews'[s] = reviews[s]
        /\ reviews'[r] = q /\ DOMAIN reviews' = ReviewIds
    BY <1>1, StoredNumbers DEF DocumentInv, DocumentShape, Stored
  <1>3. DocumentShape'
    BY <1>1, <1>2 DEF DocumentShape, recordVars, admissionVars, evidenceVars, Numbers
  <1>4. DocumentStands'
    BY <1>1 DEF DocumentInv, DocumentStands
  <1>5. \A s \in ReviewIds : ReviewStands(s)'
    BY <1>1, <1>2 DEF DocumentInv, ReviewStands
  <1>6. \A m \in Numbers : IsApproved(m)' = IsApproved(m) /\ IsAdmitted(m)' = IsAdmitted(m)
    BY <1>1 DEF IsApproved, IsAdmitted, recordVars, admissionVars
  <1>7. ASSUME NEW m \in Numbers, m # n
        PROVE  /\ Reviewers(m)' = Reviewers(m)
               /\ UnresolvedFindings(m)' = UnresolvedFindings(m)
    <2>1. reviews[r].version # m /\ reviews'[r].version # m
      BY <1>1, <1>2, <1>7 DEF NoReview
    <2>2. ReviewsOf(m)' = ReviewsOf(m) /\ r \notin ReviewsOf(m)
      BY <1>2, <2>1 DEF ReviewsOf
    <2>3. \A s \in ReviewsOf(m) : reviews'[s] = reviews[s]
      BY <1>2, <2>2 DEF ReviewsOf
    <2> QED
      BY <2>2, <2>3 DEF Reviewers, UnresolvedFindings
  <1>8. ASSUME NEW m \in Numbers
        PROVE  ApprovalStands(m)' /\ AuthorizationStands(m)' /\ StateStands(m)'
    <2>1. ApprovalStands(m) /\ AuthorizationStands(m) /\ StateStands(m)
      BY DEF DocumentInv
    <2>2. ApprovalStands(m)'
      <3>1. CASE m = n
        BY <1>1, <1>2, <1>6, <2>1, <3>1 DEF ApprovalStands, recordVars, admissionVars
      <3>2. CASE m # n
        BY <1>1, <1>2, <1>6, <1>7, <2>1, <3>2 DEF ApprovalStands, recordVars, admissionVars
      <3> QED
        BY <3>1, <3>2
    <2>3. AuthorizationStands(m)'
      BY <1>1, <1>6, <2>1 DEF AuthorizationStands, recordVars
    <2>4. StateStands(m)'
      BY <1>1, <1>2, <1>6, <2>1 DEF StateStands, IsCitable, IsApproved, recordVars
    <2> QED
      BY <2>2, <2>3, <2>4
  <1>9. /\ \A e \in EvidenceIds : EvidenceStands(e)'
        /\ \A b \in BundleIds : BundleStands(b)'
    BY <1>1, <1>6, EvidenceKept DEF evidenceVars
  <1> QED
    BY <1>1, <1>3, <1>4, <1>5, <1>8, <1>9 DEF DocumentInv, recordVars, Numbers

(* Evidence and bundles alone change.                                      *)
LEMMA EvidenceChanged ==
  ASSUME DocumentInv,
         UNCHANGED <<registered, document, versionStore, reviews, recordVars>>,
         DOMAIN evidenceStore' = EvidenceIds, DOMAIN bundles' = BundleIds,
         \A e \in EvidenceIds : EvidenceStands(e)', \A b \in BundleIds : BundleStands(b)'
  PROVE  DocumentInv'
  <1>1. /\ Stored' = Stored /\ \A n \in Numbers : IsApproved(n)' = IsApproved(n)
        /\ \A n \in Numbers : Reviewers(n)' = Reviewers(n)
              /\ UnresolvedFindings(n)' = UnresolvedFindings(n)
              /\ IsAdmitted(n)' = IsAdmitted(n)
    BY DEF Stored, IsApproved, IsAdmitted, recordVars, admissionVars, Reviewers,
           UnresolvedFindings, ReviewsOf
  <1>2. DocumentShape'
    BY DEF DocumentInv, DocumentShape, Stored, recordVars, admissionVars
  <1>3. DocumentStands' /\ \A r \in ReviewIds : ReviewStands(r)'
    BY DEF DocumentInv, DocumentStands, ReviewStands, Stored
  <1>4. \A n \in Numbers : ApprovalStands(n)' /\ AuthorizationStands(n)' /\ StateStands(n)'
    BY <1>1 DEF DocumentInv, ApprovalStands, AuthorizationStands, StateStands, IsApproved,
                IsCitable, recordVars, admissionVars
  <1> QED
    BY <1>2, <1>3, <1>4 DEF DocumentInv, recordVars, Numbers

LEMMA EvidenceRegistered ==
  ASSUME DocumentInv, NEW e \in EvidenceIds,
         TransferCustody(e) \/ \E n \in Stored : RegisterEvidence(e, n)
  PROVE  DocumentInv'
  <1>1. DOMAIN evidenceStore = EvidenceIds /\ DocumentShape
    BY DEF DocumentInv, DocumentShape
  <1>2. PICK q : /\ evidenceStore' = [evidenceStore EXCEPT ![e] = q]
                 /\ evidenceStore[e] = NoEvidenceRecord \/ q.version = evidenceStore[e].version
                 /\ q.version \in Numbers /\ IsApproved(q.version)
    <2>1. CASE TransferCustody(e)
      <3>1. PICK q : q = [evidenceStore[e] EXCEPT !.custody = @ + 1]
        OBVIOUS
      <3>2. /\ evidenceStore' = [evidenceStore EXCEPT ![e] = q]
            /\ evidenceStore[e] # NoEvidenceRecord
        BY <2>1, <3>1 DEF TransferCustody
      <3>3. q.version = evidenceStore[e].version
        BY <3>1
      <3> QED
        BY <3>2, <3>3 DEF DocumentInv, EvidenceStands
    <2>2. ASSUME NEW n \in Stored, RegisterEvidence(e, n)
          PROVE  \E q : /\ evidenceStore' = [evidenceStore EXCEPT ![e] = q]
                        /\ evidenceStore[e] = NoEvidenceRecord \/ q.version = evidenceStore[e].version
                        /\ q.version \in Numbers /\ IsApproved(q.version)
      <3>1. PICK q : q = [version |-> n, custody |-> 1]
        OBVIOUS
      <3>2. n \in Numbers /\ IsApproved(n)
        BY <1>1, <2>2, StoredNumbers DEF RegisterEvidence, DocumentInv, StateStands, ApprovalStands
      <3>3. evidenceStore' = [evidenceStore EXCEPT ![e] = q]
        BY <2>2, <3>1 DEF RegisterEvidence
      <3>4. evidenceStore[e] = NoEvidenceRecord \/ q.version = evidenceStore[e].version
        BY <2>2, <3>1 DEF RegisterEvidence, Preserved
      <3>5. q.version \in Numbers /\ IsApproved(q.version)
        <4>1. q.version = n
          BY <3>1
        <4> QED
          BY <3>2, <4>1
      <3> QED
        BY <3>3, <3>4, <3>5
    <2> QED
      BY <2>1, <2>2
  <1>3. UNCHANGED <<registered, document, versionStore, reviews, recordVars, bundles>>
    BY DEF TransferCustody, RegisterEvidence
  <1>4. /\ DOMAIN evidenceStore' = EvidenceIds /\ evidenceStore'[e] = q
        /\ \A d \in EvidenceIds \ {e} : evidenceStore'[d] = evidenceStore[d]
    BY <1>1, <1>2
  <1>5. \A n \in Numbers : IsApproved(n)' = IsApproved(n)
    BY <1>3 DEF IsApproved, recordVars
  <1>6. \A d \in EvidenceIds : EvidenceStands(d)'
    <2> SUFFICES ASSUME NEW d \in EvidenceIds PROVE EvidenceStands(d)'
      OBVIOUS
    <2>1. CASE d = e
      BY <1>2, <1>4, <1>5, <2>1 DEF EvidenceStands, Numbers
    <2>2. CASE d # e
      BY <1>4, <1>5, <2>2 DEF DocumentInv, EvidenceStands, Numbers
    <2> QED
      BY <2>1, <2>2
  <1>7. \A b \in BundleIds : BundleStands(b)'
    <2> SUFFICES ASSUME NEW b \in BundleIds, NEW item \in bundles[b]
                 PROVE  /\ item.evidence \in EvidenceIds /\ item.version \in Numbers
                        /\ evidenceStore'[item.evidence].version = item.version
                        /\ IsApproved(item.version)'
      BY <1>3 DEF BundleStands, Numbers
    <2>1. /\ item.evidence \in EvidenceIds /\ item.version \in Numbers
          /\ evidenceStore[item.evidence].version = item.version
          /\ IsApproved(item.version)
      BY DEF DocumentInv, BundleStands
    <2>2. evidenceStore[item.evidence] # NoEvidenceRecord
      BY <1>1, <2>1, StoredNumbers DEF NoEvidenceRecord
    <2>3. evidenceStore'[item.evidence].version = evidenceStore[item.evidence].version
      BY <1>2, <1>4, <2>1, <2>2
    <2> QED
      BY <1>5, <2>1, <2>3
  <1>8. DOMAIN bundles' = BundleIds
    BY <1>1, <1>3 DEF DocumentShape
  <1> QED
    BY <1>3, <1>4, <1>6, <1>7, <1>8, EvidenceChanged

LEMMA BundleSealed ==
  ASSUME DocumentInv, NEW b \in BundleIds, NEW ids \in SUBSET EvidenceIds,
         SealEvidenceBundle(b, ids)
  PROVE  DocumentInv'
  <1> PICK items : items = {[evidence |-> e, version |-> evidenceStore[e].version] : e \in ids}
    OBVIOUS
  <1>1. /\ bundles' = [bundles EXCEPT ![b] = items]
        /\ UNCHANGED <<registered, document, versionStore, reviews, recordVars, evidenceStore>>
    BY DEF SealEvidenceBundle
  <1>2. DOMAIN bundles = BundleIds /\ DOMAIN evidenceStore = EvidenceIds
    BY DEF DocumentInv, DocumentShape
  <1>3. \A n \in Numbers : IsApproved(n)' = IsApproved(n)
    BY <1>1 DEF IsApproved, recordVars
  <1>4. \A e \in ids : evidenceStore[e].version \in Numbers /\ IsApproved(evidenceStore[e].version)
    BY DEF SealEvidenceBundle, DocumentInv, EvidenceStands
  <1>5. \A item \in items : /\ item.evidence \in EvidenceIds /\ item.version \in Numbers
                            /\ evidenceStore[item.evidence].version = item.version
                            /\ IsApproved(item.version)
    BY <1>4
  <1>6. bundles'[b] = items /\ \A c \in BundleIds \ {b} : bundles'[c] = bundles[c]
    BY <1>1, <1>2
  <1>7. \A e \in EvidenceIds : EvidenceStands(e)'
    BY <1>1, <1>3 DEF DocumentInv, EvidenceStands, Numbers
  <1>8. BundleStands(b)'
    BY <1>1, <1>3, <1>5, <1>6 DEF BundleStands, Numbers
  <1>9. \A c \in BundleIds \ {b} : BundleStands(c)'
    BY <1>1, <1>3, <1>6 DEF DocumentInv, BundleStands, Numbers
  <1> QED
    BY <1>1, <1>2, <1>7, <1>8, <1>9, EvidenceChanged

LEMMA DocumentStep == DocumentInv /\ [DocumentNext]_documentVars => DocumentInv'
  <1> SUFFICES ASSUME DocumentInv, [DocumentNext]_documentVars
               PROVE  DocumentInv'
    OBVIOUS
  <1>1. CASE UNCHANGED documentVars
    <2>1. DocumentStands' /\ registered' \in 0 .. MaxRegistered
      BY <1>1 DEF documentVars, DocumentInv, DocumentShape, DocumentStands
    <2> QED
      BY <1>1, <2>1, DocumentKept DEF documentVars
  <1>2. CASE DocumentSteps
    BY <1>2, DocumentRegistered, VersionRecorded, DocumentSettled DEF DocumentSteps
  <1>3. CASE VersionSteps
    BY <1>3, VersionMovedOn, VersionApproved, PublicationAuthorized, VersionSuperseded,
       ReviewRecorded DEF VersionSteps
  <1>4. CASE EvidenceSteps
    BY <1>4, EvidenceRegistered, BundleSealed DEF EvidenceSteps
  <1> QED
    BY <1>1, <1>2, <1>3, <1>4 DEF DocumentNext

LEMMA DocumentInvHolds == DocumentSpec => []DocumentInv
  BY DocumentStart, DocumentStep, PTL DEF DocumentSpec

(* The stores of the document service keep their types.                    *)
THEOREM DocumentTypeCorrect == DocumentSpec => []DocumentTypeOK
  <1>1. DocumentInv => DocumentTypeOK
    <2> SUFFICES ASSUME DocumentInv PROVE DocumentTypeOK
      OBVIOUS
    <2>1. Stored \subseteq Numbers
      BY StoredNumbers DEF DocumentInv
    <2>2. \A e \in EvidenceIds : evidenceStore[e].version \in Stored \cup {0}
      BY DEF DocumentInv, EvidenceStands, ApprovalStands, NoEvidenceRecord
    <2>3. renditions \subseteq Stored
      BY DEF DocumentInv, StateStands
    <2> QED
      BY <2>1, <2>2, <2>3
         DEF DocumentInv, DocumentShape, DocumentStands, DocumentTypeOK, GovernedDocument
  <1> QED
    BY <1>1, DocumentInvHolds, PTL

(* For any actors, reviews, versions and bundles, whatever reviews a       *)
(* registration requires, none included, under a document registered again *)
(* and commands that stop half written: what is public, superseded or      *)
(* sealed went through the hands it should (register_document,             *)
(* approve_version, publish_version, seal_evidence_bundle).                *)
THEOREM DocumentsStayGoverned == DocumentSpec => []DocumentsAreGoverned
  <1>1. DocumentInv => DocumentsAreGoverned
    <2> SUFFICES ASSUME DocumentInv PROVE DocumentsAreGoverned
      OBVIOUS
    <2>1. Stored \subseteq Numbers
      BY StoredNumbers DEF DocumentInv
    <2>2. ASSUME NEW n \in Stored, versionStore[n].state = "published" \/ n \in renditions
          PROVE  Governed(n)
      <3>1. ApprovalStands(n) /\ AuthorizationStands(n) /\ StateStands(n)
        BY <2>1 DEF DocumentInv
      <3>2. authorizations[n] # NoOne
        BY <2>2, <3>1 DEF StateStands
      <3>3. IsAdmitted(n)
        BY <2>2, <3>1 DEF StateStands, IsCitable
      <3> QED
        BY <3>1, <3>2, <3>3
           DEF Governed, ApprovalStands, AuthorizationStands, IsApproved, IsAdmitted
    <2>3. \A n \in Stored : versionStore[n].state = "superseded" =>
             successors[n] > n /\ versionApprovals[successors[n]] # NoOne
      BY <2>1 DEF DocumentInv, StateStands, IsApproved
    <2>4. \A b \in BundleIds : \A item \in bundles[b] :
             /\ evidenceStore[item.evidence].version = item.version
             /\ versionApprovals[item.version] # NoOne
      BY DEF DocumentInv, BundleStands, IsApproved
    <2> QED
      BY <2>2, <2>3, <2>4 DEF DocumentsAreGoverned
  <1> QED
    BY <1>1, DocumentInvHolds, PTL
=============================================================================
