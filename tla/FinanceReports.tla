---------------------------- MODULE FinanceReports ----------------------------
(***************************************************************************)
(* Report versions and audit engagements of the finance service            *)
(* (application.py from freeze_report_snapshot on, over reporting.py and   *)
(* authorization.py), in one organization and for one report.  A command   *)
(* either saves all it says or is refused; a replay of an event_id changes *)
(* nothing.                                                                *)
(***************************************************************************)
EXTENDS Integers

CONSTANTS
    ReportVersions,  \* version ids, which are the caller's
    FrozenIds,       \* report snapshot ids
    Engagements,     \* audit engagement ids
    Terms,           \* reporting periods
    TermOf,          \* [snapshots and engagements -> reporting period]
    Clerks,          \* actor references
    RolesOf,         \* [Clerks -> roles held in the organization]
    Unbound,         \* no snapshot, no auditor
    MaxReportActs    \* bound: accepted commands in one behaviour

Incompatible ==
    {{"auditor", r} : r \in {"administrator", "authorizer", "executor", "signatory"}}
        \cup {{"authorizer", "executor"}, {"administrator", "org_administrator"}}

(* assert_roles_compatible: a clerk whose roles are not can do nothing.    *)
ASSUME FinanceReportsAssumption ==
    /\ Unbound \notin FrozenIds \cup Clerks
    /\ TermOf \in [FrozenIds \cup Engagements -> Terms]
    /\ \A c \in Clerks : \A pair \in Incompatible : ~ pair \subseteq RolesOf[c]

VARIABLES
    frozen,      \* snapshots frozen
    reports,     \* [ReportVersions -> FinanceReportVersion, or NoVersion]
    engagements, \* [Engagements -> AuditEngagement]
    reportActs   \* accepted commands so far

reportVars == <<frozen, reports, engagements, reportActs>>

(* What a version's history and records hold: who acted, and on which      *)
(* snapshot, the version's own at that time.                               *)
Acts == {"prepared", "finding", "review", "audit", "approval", "signature", "outward"}
NothingGiven == [a \in Acts |-> {}]
NoVersion == [state |-> "none"]
NoEngagement == [state |-> "none", auditor |-> Unbound]

ReportsInit ==
    /\ frozen = {}
    /\ reports = [v \in ReportVersions |-> NoVersion]
    /\ engagements = [e \in Engagements |-> NoEngagement]
    /\ reportActs = 0

(* assert_authorized over ACTION_REQUIREMENTS                              *)
MayAct(c, roles) == RolesOf[c] \cap roles # {}
Managers == {"administrator", "signatory"}

By(v, acts) == {d.by : d \in UNION {reports[v].given[a] : a \in acts}}

(* operational_actor_references                                            *)
Operational(v) == By(v, Acts \ {"audit"})

(* assert_auditor_independent of those who acted.                          *)
AuditorIndependent(c, actors) == "auditor" \in RolesOf[c] /\ c \notin actors

Given(v, act, c) ==
    [reports[v].given EXCEPT ![act] = @ \cup {[by |-> c, on |-> reports[v].snapshot]}]

(* _to: the transition, and its entry in the history.                      *)
MovedTo(v, state, act, c) ==
    [reports EXCEPT ![v].state = state, ![v].given = Given(v, act, c)]

-----------------------------------------------------------------------------
(* Snapshots and versions *)

FreezeSnapshot(s, c) ==
    /\ s \notin frozen
    /\ MayAct(c, {"administrator"})
    /\ frozen' = frozen \cup {s}
    /\ UNCHANGED <<reports, engagements>>

EntryStates == {"draft", "amended"}     \* "restated" is as "amended" is

(* Mutant of Binds: a version may be moved to other figures.               *)
BindsAny(v, s) == TermOf[s] = reports[v].term

(* assert_snapshot                                                         *)
Binds(v, s) ==
    /\ reports[v].snapshot \in {Unbound, s}
    /\ TermOf[s] = reports[v].term

(* An unknown version is created in draft and prepared at once.            *)
PrepareNew(v, s, c) ==
    /\ reports[v] = NoVersion /\ s \in frozen
    /\ MayAct(c, {"administrator"})
    /\ reports' = [reports EXCEPT ![v] =
                      [state |-> "draft", term |-> TermOf[s], snapshot |-> s,
                       given |-> [NothingGiven EXCEPT !["prepared"] = {[by |-> c, on |-> s]}]]]
    /\ UNCHANGED <<frozen, engagements>>

Prepare(v, s, c) ==
    /\ reports[v].state \in EntryStates
    /\ s \in frozen /\ Binds(v, s)
    /\ MayAct(c, {"administrator"})
    /\ reports' = [reports EXCEPT ![v].snapshot = s,
                                    ![v].given["prepared"] = @ \cup {[by |-> c, on |-> s]}]
    /\ UNCHANGED <<frozen, engagements>>

(* complete_internal_report_review, with findings open and without.        *)
RecordFindings(v, c) ==
    /\ reports[v].state \in EntryStates
    /\ MayAct(c, Managers)
    /\ reports' = [reports EXCEPT ![v].given = Given(v, "finding", c)]
    /\ UNCHANGED <<frozen, engagements>>

CompleteInternalReview(v, c) ==
    /\ reports[v].state \in EntryStates
    /\ reports[v].snapshot # Unbound
    /\ MayAct(c, Managers)
    /\ reports' = MovedTo(v, "internally_reviewed", "review", c)
    /\ UNCHANGED <<frozen, engagements>>

(* Recorded by a manager, for the auditor of a concluded engagement.       *)
RecordAuditReview(v, e, c) ==
    /\ reports[v].state = "internally_reviewed"
    /\ engagements[e].state = "concluded" /\ TermOf[e] = reports[v].term
    /\ MayAct(c, Managers)
    /\ AuditorIndependent(engagements[e].auditor, Operational(v))
    /\ reports' = MovedTo(v, "auditor_reviewed", "audit", engagements[e].auditor)
    /\ UNCHANGED <<frozen, engagements>>

ApproveVersion(v, c) ==
    /\ reports[v].state = "auditor_reviewed"
    /\ MayAct(c, {"signatory", "org_administrator"})
    /\ c \notin By(v, {"prepared"})
    /\ reports' = MovedTo(v, "approved", "approval", c)
    /\ UNCHANGED <<frozen, engagements>>

SignVersion(v, c) ==
    /\ reports[v].state = "approved"
    /\ MayAct(c, {"signatory"})
    /\ c \notin By(v, {"approval"})
    /\ reports' = MovedTo(v, "signed", "signature", c)
    /\ UNCHANGED <<frozen, engagements>>

SubmitVersion(v, c) ==
    /\ reports[v].state = "signed"
    /\ MayAct(c, {"signatory"})
    /\ reports' = MovedTo(v, "submitted", "outward", c)
    /\ UNCHANGED <<frozen, engagements>>

(* record_external_acknowledgement and record_external_acceptance.         *)
AnswerFromOutside(v, state, c) ==
    /\ \/ reports[v].state = "submitted"
       \/ reports[v].state = "externally_acknowledged" /\ state = "externally_accepted"
    /\ MayAct(c, Managers)
    /\ reports' = [reports EXCEPT ![v].state = state]
    /\ UNCHANGED <<frozen, engagements>>

(* A publication authorization of the organization is presented.           *)
PublishVersion(v, c) ==
    /\ reports[v].state \in {"signed", "externally_accepted"}
    /\ MayAct(c, {"signatory", "org_administrator"})
    /\ reports' = MovedTo(v, "published", "outward", c)
    /\ UNCHANGED <<frozen, engagements>>

(* Mutant of Successor: the decisions go with the version.                 *)
SuccessorKeeping(v) == [reports[v] EXCEPT !.state = "amended", !.snapshot = Unbound]

(* create_successor_version                                                *)
Successor(v) == [state |-> "amended", term |-> reports[v].term, snapshot |-> Unbound,
                 given |-> NothingGiven]

(* The successor is saved under its id even if there was a version there.  *)
(* A version never prepared cannot be superseded: only the entry states go *)
(* without a snapshot.                                                     *)
CorrectVersion(v, w, c) ==
    /\ reports[v].state \notin {"none", "superseded"}
    /\ reports[v].snapshot # Unbound
    /\ w # v
    /\ MayAct(c, {"administrator"})
    /\ reports' = [reports EXCEPT ![v].state = "superseded", ![w] = Successor(v)]
    /\ UNCHANGED <<frozen, engagements>>

-----------------------------------------------------------------------------
(* Audit engagements *)

(* Independent of the actors the caller names, who need not be those of    *)
(* any version; an engagement under this id is lost.                       *)
OpenEngagement(e, auditor, c) ==
    /\ MayAct(c, {"administrator", "org_administrator"})
    /\ AuditorIndependent(auditor, {})
    /\ engagements' = [engagements EXCEPT ![e] = [state |-> "opened", auditor |-> auditor]]
    /\ UNCHANGED <<frozen, reports>>

AuditFinding(e) ==
    /\ engagements[e].state = "opened"
    /\ engagements' = [engagements EXCEPT ![e].state = "in_progress"]
    /\ UNCHANGED <<frozen, reports>>

(* By the engagement's own auditor.                                        *)
ConcludeEngagement(e) ==
    /\ engagements[e].state \in {"opened", "in_progress"}
    /\ engagements' = [engagements EXCEPT ![e].state = "concluded"]
    /\ UNCHANGED <<frozen, reports>>

ReportsStep ==
    \/ \E s \in FrozenIds, c \in Clerks :
          \/ FreezeSnapshot(s, c)
          \/ \E v \in ReportVersions : PrepareNew(v, s, c) \/ Prepare(v, s, c)
    \/ \E v \in ReportVersions, c \in Clerks :
          \/ RecordFindings(v, c) \/ CompleteInternalReview(v, c) \/ ApproveVersion(v, c)
          \/ SignVersion(v, c) \/ SubmitVersion(v, c) \/ PublishVersion(v, c)
          \/ AnswerFromOutside(v, "externally_acknowledged", c)
          \/ AnswerFromOutside(v, "externally_accepted", c)
          \/ \E e \in Engagements : RecordAuditReview(v, e, c)
          \/ \E w \in ReportVersions : CorrectVersion(v, w, c)
    \/ \E e \in Engagements :
          \/ AuditFinding(e) \/ ConcludeEngagement(e)
          \/ \E auditor, c \in Clerks : OpenEngagement(e, auditor, c)

ReportsNext == reportActs < MaxReportActs /\ ReportsStep /\ reportActs' = reportActs + 1

ReportsSpec == ReportsInit /\ [][ReportsNext]_reportVars

-----------------------------------------------------------------------------
(* Properties *)

ReportStates ==
    {"draft", "amended", "internally_reviewed", "auditor_reviewed", "approved", "signed",
     "submitted", "externally_acknowledged", "externally_accepted", "published", "superseded"}
KnownVersions == {v \in ReportVersions : reports[v] # NoVersion}

ReportsTypeOK ==
    /\ frozen \subseteq FrozenIds
    /\ \A v \in KnownVersions :
          /\ reports[v].state \in ReportStates /\ reports[v].term \in Terms
          /\ reports[v].snapshot \in frozen \cup {Unbound}
          /\ reports[v].given \in
                [Acts -> SUBSET [by : Clerks, on : FrozenIds \cup {Unbound}]]
    /\ engagements \in [Engagements -> [state : {"none", "opened", "in_progress", "concluded"},
                                        auditor : Clerks \cup {Unbound}]]

(* However versions are prepared again, corrected and stored over one      *)
(* another, every decision a version carries was taken on the snapshot it  *)
(* is bound to, none that its state stands on is missing, and nobody       *)
(* approved what they prepared, signed what they approved, or audited what *)
(* they had worked on.                                                     *)
ReportsStandOnTheirFigures ==
    \A v \in KnownVersions :
        LET given == reports[v].given
            decided == IF reports[v].state \in EntryStates \cup {"superseded"} THEN {}
                       ELSE IF reports[v].state = "internally_reviewed" THEN {"review"}
                       ELSE IF reports[v].state = "auditor_reviewed" THEN {"review", "audit"}
                       ELSE IF reports[v].state = "approved" THEN {"review", "audit", "approval"}
                       ELSE {"review", "audit", "approval", "signature"}
        IN  /\ \A act \in {"prepared", "review", "audit", "approval", "signature"} :
                  \A d \in given[act] : d.on = reports[v].snapshot
            /\ \A act \in decided : given[act] # {}
            /\ By(v, {"prepared"}) \cap By(v, {"approval"}) = {}
            /\ By(v, {"approval"}) \cap By(v, {"signature"}) = {}
            /\ By(v, {"audit"}) \cap By(v, {"prepared", "finding", "review"}) = {}
=============================================================================
