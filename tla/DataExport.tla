----------------------------- MODULE DataExport -----------------------------
(***************************************************************************)
(* Governed data export of the privileged access service (application.py,  *)
(* request_data_export to attest_export_destruction, over export.py and    *)
(* dlp.py): a request assessed, approved, turned into an artifact,         *)
(* delivered, read under a ceiling, revoked or expired.  Every store       *)
(* overwrites by id and nothing is rolled back, so a command refused by    *)
(* with_state keeps what it saved before it asked.  Each command is a      *)
(* fresh one: CommandFrame models replay.                                  *)
(***************************************************************************)
EXTENDS Integers, FiniteSets

CONSTANTS
    Officers,     \* actors of the export commands
    NoOfficer,    \* no reference is recorded
    Exports,      \* export ids
    Artifacts,    \* artifact ids
    AccessLimit,  \* policy.export_access_limit
    MaxHours      \* bound: hours the clock shows; an artifact lives one hour

ASSUME DataExportAssumption ==
    /\ NoOfficer \notin Officers
    /\ AccessLimit \in Nat \ {0} /\ MaxHours \in Nat \ {0}

VARIABLES
    export,     \* [Exports -> the request on record, or NoRequest]
    assessment, \* [Exports -> the DLP assessment on record, or NoAssessment]
    artifact,   \* [Artifacts -> the artifact on record, or NoArtifact]
    attested,   \* exports with a destruction attestation on record
    approvedBy, \* [Exports -> everybody who approved the request on record] (history)
    vouched,    \* exports ever approved, or filed with an approver named (history)
    hour        \* the clock

exportVars == <<export, assessment, artifact, attested, approvedBy, vouched, hour>>

ExportStates ==
    {"DLP_ASSESSMENT", "DISCLOSURE_ASSESSMENT", "APPROVED", "DENIED", "ARTIFACT_GENERATED",
     "DELIVERED", "EXPIRED", "REVOKED", "DESTRUCTION_ATTESTED"}

NoRequest == [state |-> "none"]
NoAssessment == [outcome |-> "none"]
NoArtifact == [of |-> "none"]

(* REQUESTED is the caller's object before the first save.                 *)
ExportTransitions ==
    {<<"DLP_ASSESSMENT", "DISCLOSURE_ASSESSMENT">>, <<"DLP_ASSESSMENT", "DENIED">>,
     <<"DISCLOSURE_ASSESSMENT", "APPROVED">>, <<"DISCLOSURE_ASSESSMENT", "DENIED">>,
     <<"APPROVED", "ARTIFACT_GENERATED">>, <<"APPROVED", "REVOKED">>,
     <<"ARTIFACT_GENERATED", "DELIVERED">>, <<"ARTIFACT_GENERATED", "REVOKED">>,
     <<"DELIVERED", "EXPIRED">>, <<"DELIVERED", "REVOKED">>,
     <<"DELIVERED", "DESTRUCTION_ATTESTED">>, <<"EXPIRED", "DESTRUCTION_ATTESTED">>,
     <<"REVOKED", "DESTRUCTION_ATTESTED">>}

Filed(x) == export[x] # NoRequest
MayMove(x, target) == <<export[x].state, target>> \in ExportTransitions
Moved(x, target) == [export EXCEPT ![x].state = target]

DataExportInit ==
    /\ export = [x \in Exports |-> NoRequest]
    /\ assessment = [x \in Exports |-> NoAssessment]
    /\ artifact = [a \in Artifacts |-> NoArtifact]
    /\ attested = {}
    /\ approvedBy = [x \in Exports |-> {}] /\ vouched = {}
    /\ hour = 1

-----------------------------------------------------------------------------
(* request_data_export: the caller's object is saved as it came, with the  *)
(* approver and the disclosure assessment it names; only its state is      *)
(* asked, and set.  What stood under the id is replaced.                   *)
RequestDataExport(x) ==
    /\ \E requester, owner \in Officers, approver \in Officers \union {NoOfficer},
          disclosed \in BOOLEAN :
         /\ export' = [export EXCEPT ![x] =
                         [state |-> "DLP_ASSESSMENT", requester |-> requester, owner |-> owner,
                          approver |-> approver, disclosed |-> disclosed]]
         /\ vouched' = vouched \union {y \in {x} : approver # NoOfficer}
    /\ approvedBy' = [approvedBy EXCEPT ![x] = {}]
    /\ UNCHANGED <<assessment, artifact, attested, hour>>

(* record_dlp_assessment: the assessment is saved whatever with_state says *)
(* after it.                                                               *)
RecordDlpAssessment(x, actor) ==
    /\ Filed(x) /\ actor # export[x].requester
    /\ \E outcome \in {"permits", "refuses"} :
         assessment' = [assessment EXCEPT ![x] = [outcome |-> outcome, assessor |-> actor]]
    /\ export' = IF MayMove(x, "DISCLOSURE_ASSESSMENT")
                   THEN Moved(x, "DISCLOSURE_ASSESSMENT") ELSE export
    /\ UNCHANGED <<artifact, attested, approvedBy, vouched, hour>>

(* record_disclosure_assessment: no state is required, and the export is   *)
(* saved before _require_dlp may refuse the answer.                        *)
RecordDisclosureAssessment(x, actor) ==
    /\ Filed(x) /\ actor # export[x].requester
    /\ export' = [export EXCEPT ![x].disclosed = TRUE]
    /\ UNCHANGED <<assessment, artifact, attested, approvedBy, vouched, hour>>

(* Mutant of MayApprove: the data owner is not kept apart.                 *)
MayApproveAsOwner(x, actor) == actor \notin {export[x].requester, assessment[x].assessor}

(* The separations of the guard and of with_approver.                      *)
MayApprove(x, actor) ==
    actor \notin {export[x].requester, export[x].owner, assessment[x].assessor}

ApproveDataExport(x, actor) ==
    /\ Filed(x) /\ assessment[x] # NoAssessment /\ export[x].disclosed
    /\ MayApprove(x, actor) /\ assessment[x].outcome = "permits"
    /\ MayMove(x, "APPROVED")
    /\ export' = [Moved(x, "APPROVED") EXCEPT ![x].approver = actor]
    /\ approvedBy' = [approvedBy EXCEPT ![x] = @ \union {actor}]
    /\ vouched' = vouched \union {x}
    /\ UNCHANGED <<assessment, artifact, attested, hour>>

DenyDataExport(x, actor) ==
    /\ Filed(x) /\ actor # export[x].requester
    /\ MayMove(x, "DENIED") /\ export' = Moved(x, "DENIED")
    /\ UNCHANGED <<assessment, artifact, attested, approvedBy, vouched, hour>>

-----------------------------------------------------------------------------
(* The artifact *)

(* Mutant of MayGenerate: the state machine is trusted to refuse.          *)
MayGenerateAssessed(x) == Filed(x) /\ assessment[x] # NoAssessment

MayGenerate(x) ==
    Filed(x) /\ export[x].approver # NoOfficer /\ assessment[x] # NoAssessment

(* build_artifact.                                                         *)
Fresh(x) == [of |-> x, count |-> 0, revoked |-> FALSE, expires |-> hour + 1]

(* generate_export_artifact: the artifact is saved under the caller's id,  *)
(* over any artifact that stood there, before with_state decides.          *)
GenerateExportArtifact(x, a) ==
    /\ MayGenerate(x)
    /\ artifact' = [artifact EXCEPT ![a] = Fresh(x)]
    /\ export' = IF MayMove(x, "ARTIFACT_GENERATED")
                   THEN Moved(x, "ARTIFACT_GENERATED") ELSE export
    /\ UNCHANGED <<assessment, attested, approvedBy, vouched, hour>>

Held(a) == artifact[a] # NoArtifact

DeliverExportArtifact(a) ==
    /\ Held(a) /\ MayMove(artifact[a].of, "DELIVERED")
    /\ export' = Moved(artifact[a].of, "DELIVERED")
    /\ UNCHANGED <<assessment, artifact, attested, approvedBy, vouched, hour>>

(* Mutant of Accessible: the last access allowed is one too many.          *)
AccessibleOneMore(a) ==
    ~artifact[a].revoked /\ hour < artifact[a].expires /\ artifact[a].count <= AccessLimit

(* assert_accessible: nothing is asked of the export's state.              *)
Accessible(a) ==
    ~artifact[a].revoked /\ hour < artifact[a].expires /\ artifact[a].count < AccessLimit

AccessExportArtifact(a) ==
    /\ Held(a) /\ Accessible(a)
    /\ artifact' = [artifact EXCEPT ![a].count = @ + 1]
    /\ UNCHANGED <<export, assessment, attested, approvedBy, vouched, hour>>

ExpireExportArtifact(a) ==
    /\ Held(a) /\ MayMove(artifact[a].of, "EXPIRED")
    /\ export' = Moved(artifact[a].of, "EXPIRED")
    /\ UNCHANGED <<assessment, artifact, attested, approvedBy, vouched, hour>>

(* revoke_data_export: the artifact is the caller's to name, whichever     *)
(* export it is of, or not to name; it is saved before with_state decides. *)
RevokeDataExport(x) ==
    /\ Filed(x)
    /\ \E named \in SUBSET Artifacts :
         /\ Cardinality(named) <= 1
         /\ artifact' = [a \in Artifacts |->
                           IF a \in named /\ Held(a)
                             THEN [artifact[a] EXCEPT !.revoked = TRUE] ELSE artifact[a]]
    /\ export' = IF MayMove(x, "REVOKED") THEN Moved(x, "REVOKED") ELSE export
    /\ UNCHANGED <<assessment, attested, approvedBy, vouched, hour>>

(* attest_export_destruction: the attestation is saved first as well.      *)
AttestExportDestruction(x) ==
    /\ Filed(x) /\ attested' = attested \union {x}
    /\ export' = IF MayMove(x, "DESTRUCTION_ATTESTED")
                   THEN Moved(x, "DESTRUCTION_ATTESTED") ELSE export
    /\ UNCHANGED <<assessment, artifact, approvedBy, vouched, hour>>

HourPasses ==
    /\ hour < MaxHours /\ hour' = hour + 1
    /\ UNCHANGED <<export, assessment, artifact, attested, approvedBy, vouched>>

DataExportNext ==
    \/ \E x \in Exports :
         \/ RequestDataExport(x)
         \/ \E actor \in Officers :
              \/ RecordDlpAssessment(x, actor) \/ RecordDisclosureAssessment(x, actor)
              \/ ApproveDataExport(x, actor) \/ DenyDataExport(x, actor)
         \/ \E a \in Artifacts : GenerateExportArtifact(x, a)
         \/ RevokeDataExport(x) \/ AttestExportDestruction(x)
    \/ \E a \in Artifacts :
         \/ DeliverExportArtifact(a) \/ AccessExportArtifact(a) \/ ExpireExportArtifact(a)
    \/ HourPasses

DataExportSpec == DataExportInit /\ [][DataExportNext]_exportVars

-----------------------------------------------------------------------------
(* Properties *)

Requests ==
    [state : ExportStates, requester : Officers, owner : Officers,
     approver : Officers \union {NoOfficer}, disclosed : BOOLEAN]

(* The types, the ceiling the stored count respects, and an expiry that is *)
(* always in the artifact's own future.                                    *)
DataExportTypeOK ==
    /\ export \in [Exports -> Requests \union {NoRequest}]
    /\ assessment \in [Exports -> [outcome : {"permits", "refuses"}, assessor : Officers]
                                    \union {NoAssessment}]
    /\ artifact \in [Artifacts -> [of : Exports, count : 0 .. AccessLimit, revoked : BOOLEAN,
                                   expires : 2 .. MaxHours + 1] \union {NoArtifact}]
    /\ attested \in SUBSET Exports
    /\ approvedBy \in [Exports -> SUBSET Officers] /\ vouched \in SUBSET Exports
    /\ hour \in 1 .. MaxHours

PastApproval == {"APPROVED", "ARTIFACT_GENERATED", "DELIVERED", "EXPIRED", "REVOKED",
            "DESTRUCTION_ATTESTED"}

(* An export past its approval names an approver who is neither its        *)
(* requester nor its data owner and who approved the request on record     *)
(* rather than one it replaced, and it names a disclosure assessment:      *)
(* whoever the caller named as approver, and whatever commands were        *)
(* refused, replayed over or reordered on the way.                         *)
DecidedExportsNameTheirApprover ==
    \A x \in Exports : export[x].state \in PastApproval =>
        /\ export[x].approver \in approvedBy[x] \ {export[x].requester, export[x].owner}
        /\ export[x].disclosed /\ assessment[x] # NoAssessment

(* The artifact is saved before the state machine is asked, and needs no   *)
(* approval for it: an approver named by whoever filed the request will    *)
(* do.  Without either of the two no artifact exists.                      *)
ArtifactsAreVouchedFor ==
    \A a \in Artifacts : Held(a) => artifact[a].of \in vouched

(* What left the service was approved, by somebody entitled to approve the *)
(* request on record, under its assessments; and an artifact exists only   *)
(* of an export somebody approved or that was filed naming an approver.    *)
ExportsWereApproved == DecidedExportsNameTheirApprover /\ ArtifactsAreVouchedFor
=============================================================================
