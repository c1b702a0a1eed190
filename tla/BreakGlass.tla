----------------------------- MODULE BreakGlass -----------------------------
(***************************************************************************)
(* Emergency access of the privileged access service (application.py,      *)
(* request_break_glass to complete_break_glass_review, over                *)
(* breakglass.py): requested naming an approver, approved by somebody      *)
(* else, activated together with a notification, ended, and reviewed.      *)
(* Each command is a fresh one: CommandFrame models replay.  An activation *)
(* named as renewed only adds a refusal and is left out.                   *)
(***************************************************************************)
EXTENDS Integers, FiniteSets

CONSTANTS
    Guards,      \* actors of the break-glass commands
    NoGuard,     \* nobody
    Emergencies, \* activation ids
    MaxRequests  \* bound: requests filed per id

ASSUME BreakGlassAssumption == NoGuard \notin Guards /\ MaxRequests \in Nat

VARIABLES
    activation,  \* [Emergencies -> the activation on record, or NoActivation]
    review,      \* [Emergencies -> reviewer of the review on record, or NoGuard]
    told,        \* emergencies for which a notification was once delivered
    requests,    \* [Emergencies -> requests filed]
    approvals,   \* [Emergencies -> approvals given] (history)
    activations  \* [Emergencies -> times access was opened] (history)

glassVars == <<activation, review, told, requests, approvals, activations>>

NoActivation == [state |-> "none"]

EmergencyStates ==
    {"REQUESTED", "APPROVED", "ACTIVATED", "EXPIRED", "REVOKED", "ESCALATED",
     "REVIEW_COMPLETED"}

(* Mutant of EmergencyTransitions: an expired activation can be extended.  *)
EmergencyTransitionsWithRenewal ==
    {<<"REQUESTED", "APPROVED">>, <<"APPROVED", "ACTIVATED">>, <<"APPROVED", "ESCALATED">>,
     <<"EXPIRED", "ACTIVATED">>,
     <<"ACTIVATED", "EXPIRED">>, <<"ACTIVATED", "REVOKED">>, <<"ACTIVATED", "ESCALATED">>}

(* The transitions a command can ask for before the review.                *)
EmergencyTransitions ==
    {<<"REQUESTED", "APPROVED">>, <<"APPROVED", "ACTIVATED">>, <<"APPROVED", "ESCALATED">>,
     <<"ACTIVATED", "EXPIRED">>, <<"ACTIVATED", "REVOKED">>, <<"ACTIVATED", "ESCALATED">>}

Invoked(x) == activation[x] # NoActivation
MayTurn(x, target) == <<activation[x].state, target>> \in EmergencyTransitions

BreakGlassInit ==
    /\ activation = [x \in Emergencies |-> NoActivation]
    /\ review = [x \in Emergencies |-> NoGuard]
    /\ told = {}
    /\ requests = [x \in Emergencies |-> 0]
    /\ approvals = [x \in Emergencies |-> 0]
    /\ activations = [x \in Emergencies |-> 0]

-----------------------------------------------------------------------------
(* request_break_glass: replaces what stood under the id.                  *)
RequestBreakGlass(x, actor, named) ==
    /\ actor # named /\ requests[x] < MaxRequests
    /\ activation' = [activation EXCEPT ![x] =
                        [state |-> "REQUESTED", activator |-> actor, approver |-> named,
                         approvedBy |-> NoGuard, notification |-> "none"]]
    /\ requests' = [requests EXCEPT ![x] = @ + 1]
    /\ UNCHANGED <<review, told, approvals, activations>>

(* approve_break_glass keeps the activator out; the approver the request   *)
(* named need not be the one who acts.                                     *)
SecondControl(x, actor) == actor # activation[x].activator

ApproveBreakGlass(x, actor) ==
    /\ Invoked(x) /\ SecondControl(x, actor) /\ MayTurn(x, "APPROVED")
    /\ activation' = [activation EXCEPT ![x].state = "APPROVED", ![x].approvedBy = actor]
    /\ approvals' = [approvals EXCEPT ![x] = @ + 1]
    /\ UNCHANGED <<review, told, requests, activations>>

(* Mutant of Opened: an undelivered notification passes silently.          *)
OpenedAnyway(delivered) == "ACTIVATED"

Opened(delivered) == IF delivered THEN "ACTIVATED" ELSE "ESCALATED"

(* activate_break_glass: the notification goes out before with_state is    *)
(* asked, and a suppressed or misdirected one (no step here) refuses       *)
(* before anything is saved.                                               *)
ActivateBreakGlass(x, actor) ==
    /\ Invoked(x) /\ actor # activation[x].approver
    /\ \E delivered \in BOOLEAN :
         /\ told' = IF delivered THEN told \union {x} ELSE told
         /\ IF MayTurn(x, Opened(delivered))
              THEN /\ activation' = [activation EXCEPT
                            ![x].state = Opened(delivered),
                            ![x].notification = IF delivered THEN "delivered" ELSE "failed"]
                   /\ activations' = IF Opened(delivered) = "ACTIVATED"
                                       THEN [activations EXCEPT ![x] = @ + 1] ELSE activations
              ELSE UNCHANGED <<activation, activations>>
    /\ UNCHANGED <<review, requests, approvals>>

(* expire_break_glass and revoke_break_glass.                              *)
EndBreakGlass(x, target) ==
    /\ Invoked(x) /\ target \in {"EXPIRED", "REVOKED"} /\ MayTurn(x, target)
    /\ activation' = [activation EXCEPT ![x].state = target]
    /\ UNCHANGED <<review, told, requests, approvals, activations>>

(* Mutant of Independent: the activator is kept out, the approver is not.  *)
IndependentOfActivator(x, actor) == actor # activation[x].activator

Independent(x, actor) == actor \notin {activation[x].activator, activation[x].approver}

(* complete_break_glass_review: the review is saved, over any other, before*)
(* with_state decides whether there is anything to review.                 *)
CompleteBreakGlassReview(x, actor) ==
    /\ Invoked(x) /\ Independent(x, actor)
    /\ review' = [review EXCEPT ![x] = actor]
    /\ activation' = IF activation[x].state \in {"EXPIRED", "REVOKED", "ESCALATED"}
                       THEN [activation EXCEPT ![x].state = "REVIEW_COMPLETED"]
                       ELSE activation
    /\ UNCHANGED <<told, requests, approvals, activations>>

BreakGlassNext ==
    \E x \in Emergencies, actor \in Guards :
      \/ \E named \in Guards : RequestBreakGlass(x, actor, named)
      \/ ApproveBreakGlass(x, actor)
      \/ ActivateBreakGlass(x, actor)
      \/ \E target \in {"EXPIRED", "REVOKED"} : EndBreakGlass(x, target)
      \/ CompleteBreakGlassReview(x, actor)

BreakGlassSpec == BreakGlassInit /\ [][BreakGlassNext]_glassVars

-----------------------------------------------------------------------------
(* Properties *)

ActivationRecords ==
    [state : EmergencyStates, activator : Guards, approver : Guards,
     approvedBy : Guards \union {NoGuard}, notification : {"none", "delivered", "failed"}]

BreakGlassTypeOK ==
    /\ activation \in [Emergencies -> ActivationRecords \union {NoActivation}]
    /\ review \in [Emergencies -> Guards \union {NoGuard}]
    /\ told \in SUBSET Emergencies
    /\ requests \in [Emergencies -> 0 .. MaxRequests]
    /\ approvals \in [Emergencies -> Nat]
    /\ activations \in [Emergencies -> Nat]

(* Emergency access is opened by two people and is told to somebody: an    *)
(* activation that is or was open carries a delivered notification and the *)
(* approval of a person other than its activator; an escalated one carries *)
(* the failure.                                                            *)
OpenAccessIsSharedAndTold ==
    \A x \in Emergencies :
      /\ activation[x].state \in {"ACTIVATED", "EXPIRED", "REVOKED"} =>
           /\ x \in told /\ activation[x].notification = "delivered"
           /\ activation[x].approvedBy \in Guards \ {activation[x].activator}
      /\ activation[x].state = "ESCALATED" => activation[x].notification = "failed"

(* There is no renewal path: each time access is opened under an id, an    *)
(* approval of its own was given for it.                                   *)
EachOpeningWasApproved == \A x \in Emergencies : activations[x] <= approvals[x]

(* A reviewed emergency has a review on record by neither its activator    *)
(* nor its named approver, although refused reviews overwrite that record. *)
ReviewsAreIndependent ==
    \A x \in Emergencies : activation[x].state = "REVIEW_COMPLETED" =>
        review[x] \in Guards \ {activation[x].activator, activation[x].approver}

(* Emergency access stands on two people and a message each time it is     *)
(* opened, and on a third who reviews it, whatever a failed notification   *)
(* or a refused command leaves behind. (approve_break_glass,               *)
(* activate_break_glass, complete_break_glass_review)                      *)
EmergenciesAreGoverned ==
    /\ OpenAccessIsSharedAndTold
    /\ EachOpeningWasApproved
    /\ ReviewsAreIndependent
=============================================================================
