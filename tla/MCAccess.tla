----------------------------- MODULE MCAccess -------------------------------
(* The services that hand out access: the assertion issuer, the privileged  *)
(* access service, the control plane and the document register.  They share *)
(* no state here: a behaviour picks one component, active, and exercises it *)
(* alone, so that TLC explores the sum of their state spaces.  The others   *)
(* rest in one initial state of theirs.                                     *)
EXTENDS AssertionIssuer, CommandFrame, PrivilegedAccess, GovernedSearch, DataExport,
        BreakGlass, Interventions, DocumentRegister, TLC

(* Names are shared between components, which never meet.                   *)
CONSTANTS a1, a2, a3, a4, p1, p2, r1, v1, v2, none

VARIABLE active     \* the component this behaviour exercises

MCEmissions == (1 :> 1) @@ (2 :> 2)

Grant(a, capability, c) == [actor |-> a, does |-> capability, class |-> c]
MCGrants ==
    {Grant(a1, "request", "governance"),
     Grant(a4, "approve", "governance"), Grant(a4, "approve", "security")}
    \cup {Grant(a, capability, "governance") :
             a \in {a2, a3}, capability \in {"approve", "execute"}}
    \cup {Grant(v1, capability, "governance") :
             capability \in {"revoke", "restore", "review"}}

(* The requests of a behaviour hold targets of one kind, or all concern     *)
(* actions: the others have nothing to do with them.                        *)
RelatedLevels ==
    LET asked == {interventions[r].level : r \in DOMAIN interventions}
    IN  \E related \in {{Quarantine}, {Suspension}, {Restriction, Supervision}} :
            asked \subseteq related

(* Bound on the document: what a behaviour adds to the life of one version. *)
Sidelines ==
    {s \in {"registered again", "holds", "evidence", "custody", "versions", "revoked",
            "reviews", "unreviewed"} :
       CASE s = "registered again" -> registered > 1
         [] s = "holds" -> document.hold # "none" \/ document.retention
         [] s = "evidence" -> \E e \in EvidenceIds : evidenceStore[e] # NoEvidenceRecord
         [] s = "custody" -> \E e \in EvidenceIds :
                                evidenceStore[e] # NoEvidenceRecord
                                /\ evidenceStore[e].custody > 1
         [] s = "versions" -> Len(versionStore) > 1
         [] s = "revoked" -> revocations # {}
         [] s = "reviews" -> \E n \in Stored : Cardinality(ReviewsOf(n)) > 1
         [] s = "unreviewed" -> unreviewed # {} \/ (Known /\ document.requirement = {})}

RelatedSidelines ==
    \/ Cardinality(Sidelines) <= 1
    \/ \E pair \in {{"versions", "registered again"}, {"versions", "evidence"},
                    {"evidence", "custody"}, {"unreviewed", "registered again"},
                    {"unreviewed", "reviews"}} :
            Sidelines \subseteq pair

accessVars ==
    <<assertionVars, frameVars, privilegedVars, searchVars, exportVars, glassVars,
      interventionVars, documentVars, active>>

AccessInit ==
    /\ active \in {"issuer", "frame", "access", "search", "export", "glass",
                  "interventions", "documents"}
    /\ AssertionInit /\ FrameInit /\ PrivilegedInit /\ SearchInit
    /\ DataExportInit /\ BreakGlassInit /\ InterventionInit /\ DocumentInit
    /\ active # "search" =>
         /\ openable = [r \in Readers |-> {}]
         /\ policy = [version |-> v1, admits |-> {}]

IssuerStep == active = "issuer" /\ AssertionNext
    /\ UNCHANGED <<frameVars, privilegedVars, searchVars, exportVars, glassVars,
                   interventionVars, documentVars, active>>
FrameStep == active = "frame" /\ FrameNext
    /\ UNCHANGED <<assertionVars, privilegedVars, searchVars, exportVars, glassVars,
                   interventionVars, documentVars, active>>
AccessStep == active = "access" /\ PrivilegedNext
    /\ UNCHANGED <<assertionVars, frameVars, searchVars, exportVars, glassVars,
                   interventionVars, documentVars, active>>
SearchStep == active = "search" /\ SearchNext
    /\ UNCHANGED <<assertionVars, frameVars, privilegedVars, exportVars, glassVars,
                   interventionVars, documentVars, active>>
ExportStep == active = "export" /\ DataExportNext
    /\ UNCHANGED <<assertionVars, frameVars, privilegedVars, searchVars, glassVars,
                   interventionVars, documentVars, active>>
GlassStep == active = "glass" /\ BreakGlassNext
    /\ UNCHANGED <<assertionVars, frameVars, privilegedVars, searchVars, exportVars,
                   interventionVars, documentVars, active>>
InterventionStep == active = "interventions" /\ InterventionNext /\ RelatedLevels'
    /\ UNCHANGED <<assertionVars, frameVars, privilegedVars, searchVars, exportVars,
                   glassVars, documentVars, active>>
DocumentStep == active = "documents" /\ DocumentNext /\ RelatedSidelines'
    /\ UNCHANGED <<assertionVars, frameVars, privilegedVars, searchVars, exportVars,
                   glassVars, interventionVars, active>>

AccessNext ==
    \/ IssuerStep \/ FrameStep \/ AccessStep \/ SearchStep
    \/ ExportStep \/ GlassStep \/ InterventionStep \/ DocumentStep

AccessSpec == AccessInit /\ [][AccessNext]_accessVars

(* The component in use keeps its types, with the bounds they state of      *)
(* ceilings, windows and locks.                                             *)
AccessTypeOK ==
    /\ active = "issuer" => AssertionTypeOK
    /\ active = "frame" => FrameTypeOK
    /\ active = "access" => PrivilegedTypeOK
    /\ active = "search" => SearchTypeOK
    /\ active = "export" => DataExportTypeOK
    /\ active = "glass" => BreakGlassTypeOK
    /\ active = "interventions" => InterventionTypeOK
    /\ active = "documents" => DocumentTypeOK

Symmetric == Permutations({a2, a3}) \cup Permutations({p1, p2})
=============================================================================
