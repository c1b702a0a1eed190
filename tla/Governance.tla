------------------------------ MODULE Governance ------------------------------
(***************************************************************************)
(* The governance service (application.py over storage.py and domain.py):  *)
(* role assignments, governance policies of one type, governance decisions *)
(* and the technical challenges of one published result.  A role id stands *)
(* for one actor and one role code for ever (create refuses other content),*)
(* so that both are constants here; scopes cover the subject.  A replay of *)
(* an event_id changes nothing, and a refused command only where it says.  *)
(***************************************************************************)
EXTENDS Integers

CONSTANTS
    Roles,         \* role assignment ids
    HolderOf,      \* [Roles -> actor_id]
    CodeOf,        \* [Roles -> role_code]
    Founders,      \* the roles active to begin with, two by run_bootstrap_seed
    PolicyIds,     \* governance policy ids, 1 .. their number
    DecisionIds,   \* governance decision ids, 1 .. their number
    ChallengeIds,  \* technical challenge ids
    Nothing,       \* no policy, decision or role
    MaxActs        \* bound: commands carried out

ASSUME GovernanceAssumption ==
    /\ Founders \subseteq Roles
    /\ Nothing \notin Roles \cup PolicyIds \cup DecisionIds
    /\ PolicyIds \subseteq Nat /\ DecisionIds \subseteq Nat
    /\ MaxActs \in Nat

VARIABLES
    tenure,      \* [Roles -> RoleAssignment.status, or "none"]
    rules,       \* [PolicyIds -> GovernancePolicy, or NoRule]
    inForce,     \* InMemoryGovernancePolicyStore._active_by_policy_type
    decisions,   \* [DecisionIds -> GovernanceDecision, or NoDecision]
    challenges,  \* [ChallengeIds -> TechnicalChallenge, or NoChallenge]
    windowOpen,  \* the result's challenge deadline is ahead
    acts         \* commands carried out

governanceVars == <<tenure, rules, inForce, decisions, challenges, windowOpen, acts>>

NoRule == [status |-> "none"]
NoDecision == [status |-> "none", supersedes |-> Nothing]
NoChallenge == [status |-> "none"]

GovernanceInit ==
    /\ tenure = [r \in Roles |-> IF r \in Founders THEN "active" ELSE "none"]
    /\ rules = [g \in PolicyIds |-> NoRule]
    /\ inForce = Nothing
    /\ decisions = [d \in DecisionIds |-> NoDecision]
    /\ challenges = [c \in ChallengeIds |-> NoChallenge]
    /\ windowOpen = TRUE
    /\ acts = 0

Act == acts < MaxActs /\ acts' = acts + 1

(* Ids are the caller's and mean nothing: they are taken in order here.    *)
Unused(id, ids, store, nothing) ==
    store[id] = nothing /\ \A i \in ids : i < id => store[i] # nothing

-----------------------------------------------------------------------------
(* Role assignments *)

RequestRole(r, granter) ==
    /\ Act
    /\ tenure[r] = "none"
    /\ tenure[granter] = "active" /\ HolderOf[granter] # HolderOf[r]
    /\ tenure' = [tenure EXCEPT ![r] = "pending"]
    /\ UNCHANGED <<rules, inForce, decisions, challenges, windowOpen>>

ActivateRole(r) ==
    /\ Act
    /\ tenure[r] = "pending"
    /\ tenure' = [tenure EXCEPT ![r] = "active"]
    /\ UNCHANGED <<rules, inForce, decisions, challenges, windowOpen>>

(* A role past its valid_until is to every other command a revoked one.    *)
RevokeRole(r) ==
    /\ Act
    /\ tenure[r] \in {"pending", "active"}
    /\ tenure' = [tenure EXCEPT ![r] = "revoked"]
    /\ UNCHANGED <<rules, inForce, decisions, challenges, windowOpen>>

(* _require_active_in_scope_role                                           *)
Serves(r, codes) == tenure[r] = "active" /\ CodeOf[r] \in codes

(* _require_active_in_scope_role of both, and _assert_distinct_actors.     *)
TwoActors(first, firstCodes, second, secondCodes) ==
    /\ Serves(first, firstCodes) /\ Serves(second, secondCodes)
    /\ HolderOf[first] # HolderOf[second]

-----------------------------------------------------------------------------
(* Governance policies *)

MayRule(proposer, approver) ==
    TwoActors(proposer, {"policy_proposer"}, approver, {"policy_approver"})

(* latest_version_for_policy_type                                          *)
Versions == {rules[g].version : g \in {h \in PolicyIds : rules[h] # NoRule}}
NextVersion == 1 + CHOOSE v \in Versions \cup {0} : \A w \in Versions : w <= v

ProposePolicy(g, proposer, approver) ==
    /\ Act
    /\ Unused(g, PolicyIds, rules, NoRule)
    /\ MayRule(proposer, approver)
    /\ rules' = [rules EXCEPT ![g] =
                   [status |-> "draft", version |-> NextVersion,
                    proposer |-> proposer, approver |-> approver]]
    /\ UNCHANGED <<tenure, inForce, decisions, challenges, windowOpen>>

(* The rules after the one in force, if it is another, is superseded.      *)
OldRuleSuperseded(g) ==
    [h \in PolicyIds |-> IF h = inForce /\ h # g
                         THEN [rules[h] EXCEPT !.status = "superseded"] ELSE rules[h]]

(* Mutant of Enacted: what was in force is left as it was.                 *)
EnactedBeside(g) == [rules EXCEPT ![g].status = "active"]

Enacted(g) == [OldRuleSuperseded(g) EXCEPT ![g].status = "active"]

ActivatePolicy(g) ==
    /\ Act
    /\ rules[g].status = "draft"
    /\ MayRule(rules[g].proposer, rules[g].approver)
    /\ rules' = Enacted(g)
    /\ inForce' = g
    /\ UNCHANGED <<tenure, decisions, challenges, windowOpen>>

(* ... of a policy superseded before: the one in force is superseded and   *)
(* saved before with_status refuses, and none is in force.                 *)
ActivateHalf(g) ==
    /\ Act
    /\ rules[g].status = "superseded"
    /\ MayRule(rules[g].proposer, rules[g].approver)
    /\ rules' = OldRuleSuperseded(g)
    /\ inForce' = Nothing
    /\ UNCHANGED <<tenure, decisions, challenges, windowOpen>>

-----------------------------------------------------------------------------
(* Governance decisions *)

(* _DECISION_PROPOSER_ROLES and _DECISION_APPROVER_ROLES; "directive" also *)
(* stands for mandates and ballot invalidations.                           *)
Codes(kind) ==
    CASE kind = "finality"     -> {"reviewer", "overseer"}
      [] kind = "adjudication" -> {"reviewer"}
      [] kind = "directive"    -> {"overseer"}

Approved == {d \in DecisionIds : decisions[d].status = "approved"}

(* find_superseding                                                        *)
Superseded(d) == \E e \in Approved : decisions[e].supersedes = d

(* The candidates of get_current_result_finality_determination.            *)
Determinations == {d \in Approved : decisions[d].kind = "finality" /\ ~Superseded(d)}

Unresolved == {c \in ChallengeIds : challenges[c].status \in {"submitted", "under_review"}}

ProposeDecision(d, kind, proposer, supersedes, challenge) ==
    /\ Act
    /\ Unused(d, DecisionIds, decisions, NoDecision)
    /\ Serves(proposer, Codes(kind))
    /\ kind = "finality" =>
          Unresolved = {} /\ (supersedes = Nothing => Determinations = {})
    /\ decisions' = [decisions EXCEPT ![d] =
                       [status |-> "proposed", kind |-> kind, proposer |-> proposer,
                        decider |-> Nothing, supersedes |-> supersedes,
                        challenge |-> challenge]]
    /\ UNCHANGED <<tenure, rules, inForce, challenges, windowOpen>>

MayDecide(d, decider) ==
    /\ decisions[d].status = "proposed"
    /\ TwoActors(decisions[d].proposer, Codes(decisions[d].kind),
                 decider, Codes(decisions[d].kind))

(* Mutant of MayDetermine: only the proposal looks for a determination.    *)
MayDetermineUnchecked(d) == decisions[d].kind = "finality" => Unresolved = {}

MayDetermine(d) ==
    decisions[d].kind = "finality" =>
        /\ Unresolved = {}
        /\ Determinations \subseteq {decisions[d].supersedes}

(* The target is approved and not superseded; its kind is not looked at.   *)
MaySupersede(d) ==
    LET target == decisions[d].supersedes
    IN  target # Nothing => target \in Approved /\ ~Superseded(target)

Verdict(d, status, decider) ==
    [decisions EXCEPT ![d].status = status, ![d].decider = decider]

(* _adjudicate_linked_challenge_if_any, after the decision was saved: a    *)
(* challenge that is not under review raises and stays what it was.        *)
Adjudicated(d, outcome) ==
    LET c == decisions[d].challenge
    IN  IF decisions[d].kind = "adjudication" /\ challenges[c].status = "under_review"
        THEN [challenges EXCEPT ![c] = [status |-> outcome, by |-> d]]
        ELSE challenges

ApproveDecision(d, approver) ==
    /\ Act
    /\ MayDecide(d, approver) /\ MayDetermine(d) /\ MaySupersede(d)
    /\ decisions' = Verdict(d, "approved", approver)
    /\ challenges' = Adjudicated(d, "upheld")
    /\ UNCHANGED <<tenure, rules, inForce, windowOpen>>

RejectDecision(d, rejecter) ==
    /\ Act
    /\ MayDecide(d, rejecter)
    /\ decisions' = Verdict(d, "rejected", rejecter)
    /\ challenges' = Adjudicated(d, "rejected")
    /\ UNCHANGED <<tenure, rules, inForce, windowOpen>>

-----------------------------------------------------------------------------
(* Technical challenges *)

(* Submitted with a credential, which is not looked at, or with a role.    *)
SubmitChallenge(c) ==
    /\ Act
    /\ windowOpen /\ challenges[c] = NoChallenge
    /\ challenges' = [challenges EXCEPT ![c] = [status |-> "submitted", by |-> Nothing]]
    /\ UNCHANGED <<tenure, rules, inForce, decisions, windowOpen>>

BeginReview(c) ==
    /\ Act
    /\ challenges[c].status = "submitted"
    /\ challenges' = [challenges EXCEPT ![c].status = "under_review"]
    /\ UNCHANGED <<tenure, rules, inForce, decisions, windowOpen>>

DeadlinePasses ==
    /\ windowOpen
    /\ windowOpen' = FALSE
    /\ UNCHANGED <<tenure, rules, inForce, decisions, challenges, acts>>

Kinds == {"finality", "adjudication", "directive"}

(* An adjudication is about a challenge that was submitted.                *)
ChallengeOf(kind) ==
    IF kind = "adjudication" THEN {c \in ChallengeIds : challenges[c] # NoChallenge}
    ELSE {Nothing}

GovernanceNext ==
    \/ \E r \in Roles : ActivateRole(r) \/ RevokeRole(r)
                        \/ \E granter \in Roles : RequestRole(r, granter)
    \/ \E g \in PolicyIds :
          \/ ActivatePolicy(g) \/ ActivateHalf(g)
          \/ \E x, y \in Roles : ProposePolicy(g, x, y)
    \/ \E d \in DecisionIds, r \in Roles :
          \/ ApproveDecision(d, r) \/ RejectDecision(d, r)
          \/ \E kind \in Kinds, s \in {e \in DecisionIds : e < d} \cup {Nothing} :
                \E c \in ChallengeOf(kind) : ProposeDecision(d, kind, r, s, c)
    \/ \E c \in ChallengeIds : SubmitChallenge(c) \/ BeginReview(c)
    \/ DeadlinePasses

GovernanceSpec == GovernanceInit /\ [][GovernanceNext]_governanceVars

-----------------------------------------------------------------------------
(* Properties *)

Rule == [status : {"draft", "active", "superseded"}, version : 1 .. MaxActs,
         proposer : Roles, approver : Roles]

GovernanceDecision ==
    [status : {"proposed", "approved", "rejected"}, kind : Kinds, proposer : Roles,
     decider : Roles \cup {Nothing}, supersedes : DecisionIds \cup {Nothing},
     challenge : ChallengeIds \cup {Nothing}]

(* Types; a decision is decided by another actor than proposed it, and a   *)
(* challenge is resolved by the decision it names, the way that one went.  *)
GovernanceTypeOK ==
    /\ tenure \in [Roles -> {"none", "pending", "active", "revoked"}]
    /\ inForce \in PolicyIds \cup {Nothing} /\ windowOpen \in BOOLEAN /\ acts \in 0 .. MaxActs
    /\ \A g \in PolicyIds : rules[g] # NoRule => rules[g] \in Rule
    /\ \A d \in DecisionIds : decisions[d] # NoDecision =>
          /\ decisions[d] \in GovernanceDecision
          /\ decisions[d].decider # Nothing =>
                HolderOf[decisions[d].decider] # HolderOf[decisions[d].proposer]
    /\ \A c \in ChallengeIds : challenges[c].status \in {"upheld", "rejected"} =>
          LET d == decisions[challenges[c].by]
          IN  /\ d.challenge = c
              /\ d.status = IF challenges[c].status = "upheld" THEN "approved" ELSE "rejected"

(* However proposals, approvals, supersessions across kinds and refused    *)
(* activations interleave, one governance policy at most is active and it  *)
(* is the one the store answers with, no two have a version in common, and *)
(* at most one determination of the result's finality stands.              *)
OneInForce ==
    /\ \A g \in PolicyIds : rules[g].status = "active" <=> g = inForce
    /\ \A g, h \in PolicyIds : rules[g] # NoRule /\ rules[h] # NoRule /\ g # h =>
          rules[g].version # rules[h].version
    /\ \A d, e \in Determinations : d = e
=============================================================================
