-------------------------- MODULE DocumentRegister --------------------------
(***************************************************************************)
(* The document service (application.py over documents.py, versions.py,    *)
(* evidence.py and the stores of storage.py): the versions of one          *)
(* document, their review, approval, publication, supersession and         *)
(* revocation, retention and disposition, and the evidence and bundles     *)
(* that cite versions.  Commands write one store after another with        *)
(* nothing to undo a write when a later step refuses, and a document id    *)
(* registered again starts over while its versions stay.  A version's hash *)
(* covers what never changes, so its number stands for it and the chain    *)
(* of hashes for the sequence.                                             *)
(***************************************************************************)
EXTENDS Naturals, Sequences

CONSTANTS
    DocumentActors,       \* who acts, the actor_reference of their authority
    ReviewKinds,          \* kinds of review
    Requirements,         \* required_kinds a registration may bring
    ReviewIds, EvidenceIds, BundleIds,
    NoOne,                \* nobody has approved, or authorized publication
    MaxRegistered,        \* bound: registrations of the document
    MaxDocumentChanges,   \* bound: document_version
    MaxDocumentVersions,  \* bound: versions of the document
    MaxCustody            \* bound: events of one custody chain

ASSUME DocumentAssumption ==
    /\ NoOne \notin DocumentActors
    /\ Requirements \subseteq SUBSET ReviewKinds
    /\ {MaxRegistered, MaxDocumentVersions, MaxCustody} \subseteq Nat
    /\ MaxDocumentChanges \in Nat \ {0}

VARIABLES
    registered,       \* how often the document has been registered
    document,         \* the GovernedDocument stored
    versionStore,     \* the version store: number -> [recorder, state]
    reviews,          \* [ReviewIds -> ReviewRecord, or NoReview]
    versionApprovals, \* [version number -> who approved, or NoOne]
    authorizations,   \* [version number -> who authorized publication, or NoOne]
    successors,       \* [version number -> the number in its SupersessionRecord, or 0]
    revocations,      \* version numbers with a RevocationRecord
    renditions,       \* version numbers with a PublicationRendition
    admitters,        \* [version number -> whose call made it approved] (history)
    unreviewed,       \* versions whose approval no review was required for (history)
    evidenceStore,    \* [EvidenceIds -> EvidenceRecord, or NoEvidenceRecord]
    bundles           \* [BundleIds -> the items sealed, or {}]

admissionVars == <<admitters, unreviewed>>
recordVars == <<versionApprovals, authorizations, successors, revocations, renditions,
                admissionVars>>
evidenceVars == <<evidenceStore, bundles>>
documentVars == <<registered, document, versionStore, reviews, recordVars, evidenceVars>>

Numbers == 1 .. MaxDocumentVersions
Stored == DOMAIN versionStore
NoReview == [version |-> 0]
NoEvidenceRecord == [version |-> 0]

VersionTransitions ==
    {<<"draft", "in_review">>, <<"in_review", "returned_for_revision">>,
     <<"in_review", "approved">>, <<"approved", "published">>, <<"approved", "superseded">>,
     <<"published", "superseded">>}
    \cup {<<s, "revoked">> : s \in {"draft", "in_review", "returned_for_revision", "approved",
                                    "published", "superseded"}}

(* assert_version_transition_allowed, for version n as it is stored.       *)
MayMoveTo(n, state) == <<versionStore[n].state, state>> \in VersionTransitions
Becomes(n, state) == versionStore' = [versionStore EXCEPT ![n].state = state]

IsCitable(n) == versionStore[n].state \in {"approved", "published", "superseded"}

NotRegistered ==
    [state |-> "none", version |-> 0, count |-> 0, current |-> 0, requirement |-> {},
     retention |-> FALSE, hold |-> "none"]

DocumentInit ==
    /\ registered = 0
    /\ document = NotRegistered
    /\ versionStore = <<>>
    /\ reviews = [r \in ReviewIds |-> NoReview]
    /\ versionApprovals = [n \in Numbers |-> NoOne]
    /\ authorizations = [n \in Numbers |-> NoOne]
    /\ successors = [n \in Numbers |-> 0]
    /\ revocations = {}
    /\ renditions = {}
    /\ admitters = [n \in Numbers |-> NoOne]
    /\ unreviewed = {}
    /\ evidenceStore = [e \in EvidenceIds |-> NoEvidenceRecord]
    /\ bundles = [b \in BundleIds |-> {}]

Known == document.state # "none"

(* GovernedDocument._appended                                              *)
Appended(d) == [d EXCEPT !.version = @ + 1]
Room == document.version < MaxDocumentChanges

(* with_current_version and the save after it, refused for a number the    *)
(* document does not know of.                                              *)
CurrentMoves(n) ==
    IF n <= document.count
    THEN document' = Appended([document EXCEPT !.current = n])
    ELSE UNCHANGED document

-----------------------------------------------------------------------------
(* Registration and versions *)

(* A document already stored under the id is replaced.                     *)
RegisterDocument(requirement) ==
    /\ registered < MaxRegistered
    /\ registered' = registered + 1
    /\ document' = [NotRegistered EXCEPT !.state = "active", !.version = 1,
                                        !.requirement = requirement]
    /\ UNCHANGED <<versionStore, reviews, recordVars, evidenceVars>>

(* The version is stored before with_recorded_version may refuse it,       *)
(* because its number is not the next one the document counts.             *)
RecordVersion(actor) ==
    LET n == Len(versionStore) + 1
    IN  /\ n \in Numbers /\ Room
        /\ document.state = "active"
        /\ versionStore' = Append(versionStore, [recorder |-> actor, state |-> "draft"])
        /\ document' = IF n = document.count + 1
                       THEN Appended([document EXCEPT !.count = n])
                       ELSE document
        /\ UNCHANGED <<registered, reviews, recordVars, evidenceVars>>

SubmitForReview(n) ==
    /\ Known
    /\ MayMoveTo(n, "in_review") /\ Becomes(n, "in_review")
    /\ UNCHANGED <<registered, document, reviews, recordVars, evidenceVars>>

ReturnForRevision(n, actor) ==
    /\ Known
    /\ actor # versionStore[n].recorder
    /\ MayMoveTo(n, "returned_for_revision") /\ Becomes(n, "returned_for_revision")
    /\ UNCHANGED <<registered, document, reviews, recordVars, evidenceVars>>

-----------------------------------------------------------------------------
(* Review and approval *)

RecordReview(r, n, actor, kind, blocking, resolves) ==
    /\ Known
    /\ actor # versionStore[n].recorder
    /\ versionStore[n].state = "in_review"
    /\ reviews[r] = NoReview
    /\ reviews' = [reviews EXCEPT ![r] =
                     [version |-> n, reviewer |-> actor, kind |-> kind,
                      blocking |-> blocking, resolves |-> resolves]]
    /\ UNCHANGED <<registered, document, versionStore, recordVars, evidenceVars>>

(* list_for_version                                                        *)
ReviewsOf(n) == {r \in ReviewIds : reviews[r].version = n}
Reviewers(n) == {reviews[r].reviewer : r \in ReviewsOf(n)}

(* unresolved_blocking_reviews                                             *)
UnresolvedFindings(n) ==
    {r \in ReviewsOf(n) : reviews[r].blocking
                          /\ \A s \in ReviewsOf(n) :
                                 reviews[s].resolves # {r} \/ reviews[s].blocking}

(* assert_review_complete, which a requirement of no kinds never keeps.    *)
ReviewComplete(n) ==
    /\ document.requirement \subseteq {reviews[r].kind : r \in ReviewsOf(n)}
    /\ UnresolvedFindings(n) = {}

(* Mutant of MayApproveVersion: a reviewer may also approve.               *)
NotItsRecorder(n, actor) == actor # versionStore[n].recorder

(* The prior actors of approve_version.                                    *)
MayApproveVersion(n, actor) == actor \notin {versionStore[n].recorder} \cup Reviewers(n)

(* create_once keeps an approval under the same id and refuses another.    *)
(* It comes before with_state, which only knows a version in review, and   *)
(* before with_current_version.                                            *)
ApproveDocumentVersion(n, actor) ==
    /\ Known /\ Room
    /\ MayApproveVersion(n, actor)
    /\ ReviewComplete(n)
    /\ versionApprovals' = [versionApprovals EXCEPT ![n] = IF @ = NoOne THEN actor ELSE @]
    /\ unreviewed' = unreviewed \cup
                      {m \in {n} : versionApprovals[n] = NoOne /\ document.requirement = {}}
    /\ IF MayMoveTo(n, "approved")
       THEN /\ Becomes(n, "approved") /\ CurrentMoves(n)
            /\ admitters' = [admitters EXCEPT ![n] = actor]
       ELSE UNCHANGED <<versionStore, document, admitters>>
    /\ UNCHANGED <<registered, reviews, authorizations, successors, revocations,
                   renditions, evidenceVars>>

-----------------------------------------------------------------------------
(* Publication *)

(* create_once as above: the state of the version is not asked.            *)
AuthorizePublication(n, actor) ==
    /\ Known
    /\ actor \notin {versionStore[n].recorder, versionApprovals[n]}
    /\ versionApprovals[n] # NoOne
    /\ authorizations[n] = NoOne
    /\ authorizations' = [authorizations EXCEPT ![n] = actor]
    /\ UNCHANGED <<registered, document, versionStore, reviews, versionApprovals,
                   successors, revocations, renditions, admissionVars, evidenceVars>>

(* Mutant of Publishable: approval is taken for publication.               *)
PublishableOnceApproved(n) == versionApprovals[n] # NoOne

(* assert_publishable, without what with_state asks again.                 *)
Publishable(n) == versionApprovals[n] # NoOne /\ authorizations[n] # NoOne

PublishDocumentVersion(n) ==
    /\ Known
    /\ Publishable(n)
    /\ MayMoveTo(n, "published") /\ Becomes(n, "published")
    /\ UNCHANGED <<registered, document, reviews, recordVars, evidenceVars>>

IssueRendition(n) ==
    /\ Known
    /\ authorizations[n] # NoOne /\ versionStore[n].state = "published"
    /\ renditions' = renditions \cup {n}
    /\ UNCHANGED <<registered, document, versionStore, reviews, versionApprovals,
                   authorizations, successors, revocations, admissionVars, evidenceVars>>

-----------------------------------------------------------------------------
(* Supersession and revocation *)

(* The record is appended before with_state may refuse: a version can be   *)
(* named superseded while it stays what it is, and then never superseded.  *)
SupersedeVersion(n, later) ==
    /\ Known /\ Room
    /\ IsCitable(later) /\ later > n
    /\ successors[n] = 0
    /\ successors' = [successors EXCEPT ![n] = later]
    /\ IF MayMoveTo(n, "superseded")
       THEN Becomes(n, "superseded") /\ CurrentMoves(later)
       ELSE UNCHANGED <<versionStore, document>>
    /\ UNCHANGED <<registered, reviews, versionApprovals, authorizations, revocations,
                   renditions, admissionVars, evidenceVars>>

RevokeVersion(n) ==
    /\ Known
    /\ n \notin revocations
    /\ revocations' = revocations \cup {n}
    /\ Becomes(n, "revoked")
    /\ UNCHANGED <<registered, document, reviews, versionApprovals, authorizations,
                   successors, renditions, admissionVars, evidenceVars>>

-----------------------------------------------------------------------------
(* Retention and disposition *)

DocumentChanges(d) ==
    /\ Known /\ Room
    /\ document' = Appended(d)
    /\ UNCHANGED <<registered, versionStore, reviews, recordVars, evidenceVars>>

BindRetention == DocumentChanges([document EXCEPT !.retention = TRUE])

(* What was observed of the one hold replaces the observation before.      *)
RecordLegalHold(hold) == DocumentChanges([document EXCEPT !.hold = hold])

(* An active document is closed; one closed already is saved unchanged.    *)
AuthorizeDisposition(authorized_count) ==
    /\ document.hold \notin {"active", "indeterminate"}
    /\ document.retention
    /\ authorized_count = document.count
    /\ document.state = "active"
    /\ DocumentChanges([document EXCEPT !.state = "closed"])

-----------------------------------------------------------------------------
(* Evidence *)

(* InMemoryEvidenceRecordStore.save refuses another version's hash.        *)
Preserved(e, n) == evidenceStore[e] = NoEvidenceRecord \/ evidenceStore[e].version = n

(* Registering the same version again starts its custody chain over.       *)
RegisterEvidence(e, n) ==
    /\ Known
    /\ IsCitable(n)
    /\ Preserved(e, n)
    /\ evidenceStore' = [evidenceStore EXCEPT ![e] = [version |-> n, custody |-> 1]]
    /\ UNCHANGED <<registered, document, versionStore, reviews, recordVars, bundles>>

(* The new event takes over from the last one's holder, so that the chain  *)
(* is told by its length.                                                  *)
TransferCustody(e) ==
    /\ evidenceStore[e] # NoEvidenceRecord
    /\ evidenceStore[e].custody < MaxCustody
    /\ evidenceStore' = [evidenceStore EXCEPT ![e].custody = @ + 1]
    /\ UNCHANGED <<registered, document, versionStore, reviews, recordVars, bundles>>

(* A bundle sealed before is only ever saved with the same items.          *)
SealEvidenceBundle(b, ids) ==
    /\ Known
    /\ ids # {}
    /\ \A e \in ids :
          evidenceStore[e] # NoEvidenceRecord /\ IsCitable(evidenceStore[e].version)
    /\ LET items == {[evidence |-> e, version |-> evidenceStore[e].version] : e \in ids}
       IN  bundles[b] \in {{}, items} /\ bundles' = [bundles EXCEPT ![b] = items]
    /\ UNCHANGED <<registered, document, versionStore, reviews, recordVars,
                   evidenceStore>>

-----------------------------------------------------------------------------
VersionSteps ==
    \E n \in Stored :
        \/ SubmitForReview(n) \/ PublishDocumentVersion(n)
        \/ IssueRendition(n) \/ RevokeVersion(n)
        \/ \E later \in Stored : SupersedeVersion(n, later)
        \/ \E actor \in DocumentActors :
              \/ ReturnForRevision(n, actor) \/ ApproveDocumentVersion(n, actor)
              \/ AuthorizePublication(n, actor)
              \/ \E r \in ReviewIds :
                    \E kind \in ReviewKinds, blocking \in BOOLEAN,
                       resolves \in {{}} \cup {{s} : s \in ReviewIds \ {r}} :
                          RecordReview(r, n, actor, kind, blocking, resolves)

DocumentSteps ==
    \/ \E requirement \in Requirements : RegisterDocument(requirement)
    \/ \E actor \in DocumentActors : RecordVersion(actor)
    \/ BindRetention
    \/ \E hold \in {"active", "released", "indeterminate"} : RecordLegalHold(hold)
    \/ \E count \in 0 .. MaxDocumentVersions : AuthorizeDisposition(count)

EvidenceSteps ==
    \/ \E e \in EvidenceIds :
          TransferCustody(e) \/ \E n \in Stored : RegisterEvidence(e, n)
    \/ \E b \in BundleIds, ids \in SUBSET EvidenceIds : SealEvidenceBundle(b, ids)

DocumentNext == DocumentSteps \/ VersionSteps \/ EvidenceSteps

DocumentSpec == DocumentInit /\ [][DocumentNext]_documentVars

-----------------------------------------------------------------------------
(* The types of the stores.                                                *)
DocumentTypeOK ==
    /\ registered \in 0 .. MaxRegistered
    /\ document.state \in {"none", "active", "closed"}
    /\ document.version \in 0 .. MaxDocumentChanges
    /\ document.count <= Len(versionStore) /\ document.current <= document.count
    /\ Stored \subseteq Numbers
    /\ \A n \in Numbers :
          /\ versionApprovals[n] \in DocumentActors \cup {NoOne}
          /\ authorizations[n] \in DocumentActors \cup {NoOne}
          /\ admitters[n] \in DocumentActors \cup {NoOne}
          /\ successors[n] \in Numbers \cup {0}
    /\ revocations \subseteq Stored /\ renditions \subseteq Stored
    /\ unreviewed \subseteq Stored
    /\ \A e \in EvidenceIds : evidenceStore[e].version \in Stored \cup {0}

(* The hands a version passes on its way to the public.  An approval that  *)
(* no review was required for may be on record before the version is in    *)
(* review, and its approver may then review it; the one whose call made it *)
(* approved never did.                                                     *)
Governed(n) ==
    /\ versionApprovals[n] \notin {NoOne, versionStore[n].recorder}
    /\ admitters[n] \notin {NoOne, versionStore[n].recorder} \cup Reviewers(n)
    /\ UnresolvedFindings(n) = {}
    /\ n \notin unreviewed => versionApprovals[n] = admitters[n] /\ Reviewers(n) # {}
    /\ authorizations[n] \notin {NoOne, versionStore[n].recorder, versionApprovals[n]}

(* What has reached the public, or is superseded, or lies in a sealed      *)
(* bundle, has been through the hands it should, whatever was returned,    *)
(* revoked, registered again or left half written on the way.  A published *)
(* version, and one with a rendition, was made approved by someone who     *)
(* neither recorded nor reviewed it, after every blocking finding was      *)
(* resolved; unless its approval was given when no review was required,    *)
(* that is the approver on record, and somebody reviewed it; and a third   *)
(* who neither recorded nor approved it authorized its publication.  A     *)
(* superseded version gave way to a later approved one; and a sealed item  *)
(* is still the evidence it names, of an approved version.                 *)
(* (register_document, approve_version, publish_version,                   *)
(* supersede_version, seal_evidence_bundle)                                *)
DocumentsAreGoverned ==
    /\ \A n \in Stored :
          /\ versionStore[n].state = "published" \/ n \in renditions => Governed(n)
          /\ versionStore[n].state = "superseded" =>
               successors[n] > n /\ versionApprovals[successors[n]] # NoOne
    /\ \A b \in BundleIds : \A item \in bundles[b] :
          /\ evidenceStore[item.evidence].version = item.version
          /\ versionApprovals[item.version] # NoOne
=============================================================================
