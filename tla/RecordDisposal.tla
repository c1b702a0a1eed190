--------------------------- MODULE RecordDisposal ---------------------------
(***************************************************************************)
(* Retention, legal holds and destruction in the compliance service        *)
(* (application.py, register_retention_policy to mark_legal_hold_          *)
(* indeterminate, over domain.py and storage.py): a governed record may be *)
(* destroyed only when its retention has run out under the policy version  *)
(* it is bound to, under an authorization nothing has overtaken, and never *)
(* under a hold.  One organization and one policy with its versions, of    *)
(* which a destruction compares the numbers only.  The ids of records,     *)
(* holds and authorizations are the caller's, and what stands under an id  *)
(* is replaced; a record is stored as the caller submits it.  A replay     *)
(* changes nothing.                                                        *)
(***************************************************************************)
EXTENDS Integers

CONSTANTS
    Holdings,      \* record ids
    HoldIds,       \* legal hold ids
    RetentionDays, \* retention_days a policy version may have
    Policies,      \* numbers of policy versions
    DestructionIds,\* authorization ids
    NoReference,   \* no authorization
    Submitted,     \* the records callers register
    MaxClock,      \* bound: days the clock runs
    MaxRevision    \* bound: record_version of a record not destroyed

ASSUME DisposalAssumption ==
    /\ RetentionDays \subseteq Nat /\ Policies \subseteq Nat \ {0}
    /\ MaxClock \in Nat /\ MaxRevision \in Nat \ {0}
    /\ NoReference \notin DestructionIds \cup Holdings
    /\ Submitted \subseteq
          [state : {"active", "disposal_authorized", "destroyed"}, policy : Policies,
           revision : 1 .. MaxRevision, start : -1 .. MaxClock,
           authorization : DestructionIds \cup {NoReference}]

VARIABLES
    clock,     \* the day it is
    versions,  \* [Policies -> RetentionPolicy, or Unregistered]
    records,   \* [Holdings -> GovernedRecord, or NoRecord]
    authorizations, \* [DestructionIds -> DestructionAuthorization, or NoAuthorization]
    evidence,  \* [Holdings -> DestructionEvidence, or NoEvidence]
    holds,     \* [HoldIds -> LegalHold, or NoHold]
    standing   \* history: records authorized since they were last registered

disposalVars == <<clock, versions, records, authorizations, evidence, holds, standing>>

Unregistered == [days |-> -1, destructive |-> FALSE]
NoRecord == [state |-> "none"]
NoEvidence == [policy |-> 0]
NoHold == [status |-> "none", scope |-> {}]

NoAuthorization ==
    [record |-> NoReference, policy |-> 0, revision |-> 0, destructive |-> FALSE]

(* No retention start.                                                     *)
NotStarted == -1

DisposalInit ==
    /\ clock = 0
    /\ versions = [v \in Policies |-> Unregistered]
    /\ records = [r \in Holdings |-> NoRecord]
    /\ authorizations = [a \in DestructionIds |-> NoAuthorization]
    /\ evidence = [r \in Holdings |-> NoEvidence]
    /\ holds = [h \in HoldIds |-> NoHold]
    /\ standing = {}

Registered(v) == versions[v] # Unregistered

-----------------------------------------------------------------------------
(* Retention policies *)

(* InMemoryRetentionPolicyStore.create_version: a version is never         *)
(* rewritten; identical content is a replay.                               *)
CreateVersion(v, content) ==
    /\ versions[v] \in {Unregistered, content}
    /\ versions' = [versions EXCEPT ![v] = content]

RegisterPolicy(v, content) ==
    /\ CreateVersion(v, content)
    /\ UNCHANGED <<clock, records, authorizations, evidence, holds, standing>>

(* GovernedRecord.rebound_to_policy_version                                *)
Rebound(record, v) ==
    [record EXCEPT !.policy = v, !.state = "active",
                   !.authorization = NoReference, !.revision = @ + 1]

(* The records supersede_retention_policy moves to version v.              *)
Overtaken(v) ==
    {r \in Holdings : records[r].state \in {"active", "disposal_authorized"}
                      /\ records[r].policy < v}

SupersedePolicy(previous, v, content) ==
    /\ previous < v /\ Registered(previous)
    /\ \A r \in Overtaken(v) : records[r].revision < MaxRevision
    /\ CreateVersion(v, content)
    /\ records' = [r \in Holdings |->
                     IF r \in Overtaken(v) THEN Rebound(records[r], v) ELSE records[r]]
    /\ UNCHANGED <<clock, authorizations, evidence, holds, standing>>

-----------------------------------------------------------------------------
(* Governed records *)

(* register_governed_record: the caller's record q is stored whatever its  *)
(* state, revision, start and authorization, over the one the id had.      *)
RegisterRecord(r, q) ==
    /\ Registered(q.policy)
    /\ records' = [records EXCEPT ![r] = q]
    /\ standing' = standing \ {r}
    /\ UNCHANGED <<clock, versions, authorizations, evidence, holds>>

(* record_retention_start: the latest recorded start counts, in any state. *)
StartRetention(r, day) ==
    /\ records[r] # NoRecord
    /\ day <= clock
    /\ records[r].revision < MaxRevision
    /\ records' = [records EXCEPT ![r].start = day, ![r].revision = @ + 1]
    /\ UNCHANGED <<clock, versions, authorizations, evidence, holds, standing>>

Covering(r) == {h \in HoldIds : r \in holds[h].scope}

(* HoldApplicability.is_blocked and is_undetermined                        *)
Blocked(r) == \E h \in Covering(r) : holds[h].status = "active"
Undetermined(r) == \E h \in Covering(r) : holds[h].status = "indeterminate"

DueAt(r) == records[r].start + versions[records[r].policy].days

(* evaluate_disposal_eligibility                                           *)
Eligible(r) ==
    /\ ~Undetermined(r)
    /\ records[r].start # NotStarted
    /\ ~(Blocked(r) /\ versions[records[r].policy].destructive)
    /\ DueAt(r) <= clock

(* authorize_destruction, under an id that may stand for an authorization  *)
(* of this or another record: the record moves first, and the              *)
(* authorization is bound to the revision that makes.                      *)
AuthorizeDestruction(r, a) ==
    /\ records[r].state = "active"
    /\ Eligible(r)
    /\ records[r].revision < MaxRevision
    /\ records' = [records EXCEPT ![r].state = "disposal_authorized",
                                  ![r].revision = @ + 1, ![r].authorization = a]
    /\ authorizations' = [authorizations EXCEPT ![a] =
          [record |-> r, policy |-> records[r].policy, revision |-> records[r].revision + 1,
           destructive |-> versions[records[r].policy].destructive]]
    /\ standing' = standing \cup {r}
    /\ UNCHANGED <<clock, versions, evidence, holds>>

(* The authorization the record refers to.                                 *)
AuthorizationOf(r) == authorizations[records[r].authorization]

(* Mutant of Current: only the policy version is compared.                 *)
CurrentPolicy(r) == AuthorizationOf(r).policy = records[r].policy

(* The authorization is not stale.  Whose it is, is not asked.             *)
Current(r) ==
    /\ AuthorizationOf(r).policy = records[r].policy
    /\ AuthorizationOf(r).revision = records[r].revision

(* GovernedRecord.with_destruction_evidence                                *)
Destroyed(record) == [record EXCEPT !.state = "destroyed", !.revision = @ + 1]

(* execute_destruction.  create_once refuses other evidence than the       *)
(* first, and stores this before the record can refuse to be destroyed.    *)
ExecuteDestruction(r) ==
    /\ records[r] # NoRecord /\ records[r].authorization # NoReference
    /\ AuthorizationOf(r) # NoAuthorization
    /\ ~Undetermined(r)
    /\ ~(Blocked(r) /\ AuthorizationOf(r).destructive)
    /\ Current(r)
    /\ evidence[r] = NoEvidence
    /\ evidence' = [evidence EXCEPT ![r] = [policy |-> AuthorizationOf(r).policy]]
    /\ records' = [records EXCEPT ![r] =
                     IF @.state = "disposal_authorized" THEN Destroyed(@) ELSE @]
    /\ UNCHANGED <<clock, versions, authorizations, holds, standing>>

-----------------------------------------------------------------------------
(* Legal holds *)

(* place_legal_hold: a hold under a known id is replaced.                  *)
PlaceHold(h, scope) ==
    /\ holds' = [holds EXCEPT ![h] = [status |-> "active", scope |-> scope]]
    /\ UNCHANGED <<clock, versions, records, authorizations, evidence, standing>>

ReleaseHold(h) ==
    /\ holds[h].status = "active"
    /\ holds' = [holds EXCEPT ![h].status = "released"]
    /\ UNCHANGED <<clock, versions, records, authorizations, evidence, standing>>

MarkHoldIndeterminate(h) ==
    /\ holds[h].status \in {"active", "indeterminate"}
    /\ holds' = [holds EXCEPT ![h].status = "indeterminate"]
    /\ UNCHANGED <<clock, versions, records, authorizations, evidence, standing>>

DayPasses ==
    /\ clock < MaxClock
    /\ clock' = clock + 1
    /\ UNCHANGED <<versions, records, authorizations, evidence, holds, standing>>

Contents == [days : RetentionDays, destructive : BOOLEAN]

DisposalNext ==
    \/ \E v \in Policies, content \in Contents :
          \/ RegisterPolicy(v, content)
          \/ \E u \in Policies : SupersedePolicy(u, v, content)
    \/ \E r \in Holdings :
          \/ \E q \in Submitted : RegisterRecord(r, q)
          \/ \E day \in 0 .. MaxClock : StartRetention(r, day)
          \/ \E a \in DestructionIds : AuthorizeDestruction(r, a)
          \/ ExecuteDestruction(r)
    \/ \E h \in HoldIds :
          \/ \E scope \in (SUBSET Holdings) \ {{}} : PlaceHold(h, scope)
          \/ ReleaseHold(h) \/ MarkHoldIndeterminate(h)
    \/ DayPasses

DisposalSpec == DisposalInit /\ [][DisposalNext]_disposalVars

-----------------------------------------------------------------------------
(* Properties *)

Authorization ==
    [record : Holdings \cup {NoReference}, policy : Policies \cup {0},
     revision : 0 .. MaxRevision, destructive : BOOLEAN]

GovernedRecord ==
    [state : {"active", "disposal_authorized", "destroyed"}, policy : Policies,
     revision : 1 .. MaxRevision + 1, start : -1 .. MaxClock,
     authorization : DestructionIds \cup {NoReference}]

(* Types; a record is bound to a registered version, and one authorized    *)
(* since its registration refers to no authorization or one that exists.   *)
DisposalTypeOK ==
    /\ clock \in 0 .. MaxClock
    /\ versions \in [Policies -> Contents \cup {Unregistered}]
    /\ \A r \in Holdings : records[r] # NoRecord =>
          records[r] \in GovernedRecord /\ Registered(records[r].policy)
    /\ authorizations \in [DestructionIds -> Authorization]
    /\ evidence \in [Holdings -> [policy : Policies \cup {0}]]
    /\ holds \in [HoldIds -> [status : {"none", "active", "released", "indeterminate"},
                              scope : SUBSET Holdings]]
    /\ standing \subseteq Holdings
    /\ \A r \in standing : records[r].authorization # NoReference =>
          AuthorizationOf(r) # NoAuthorization

(* The record goes by its own authorization: it was given for this record, *)
(* and the record was not registered again since.                          *)
OwnAuthorization(r) == r \in standing /\ AuthorizationOf(r).record = r

(* Whatever happened before a destruction is recorded (other starts,       *)
(* policy versions, holds, registrations, authorizations under the same    *)
(* id): it is the first of that record, no hold of unknown state covers    *)
(* it, none that is active where the authorization destroys content, and   *)
(* the evidence names the policy version the record is bound to.  Going by *)
(* its own authorization, the record has a retention start, is due under   *)
(* that version, and is destroyed with the evidence.  (What the code lets  *)
(* happen under another record's authorization, or one older than the      *)
(* registration, is not claimed to be due.)                                *)
DisposalIsLawful ==
    [][\A r \in Holdings : evidence[r] # evidence'[r] =>
          /\ evidence[r] = NoEvidence /\ evidence'[r].policy = records[r].policy
          /\ ~Undetermined(r)
          /\ ~(Blocked(r) /\ AuthorizationOf(r).destructive)
          /\ OwnAuthorization(r) => Eligible(r) /\ records'[r].state = "destroyed"]_disposalVars
=============================================================================
