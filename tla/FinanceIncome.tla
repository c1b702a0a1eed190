---------------------------- MODULE FinanceIncome ---------------------------
(***************************************************************************)
(* Contributions in the finance service (application.py, record_           *)
(* contribution to return_contribution, over records.py and storage.py):   *)
(* a gift is received, assessed against everything its giver gave in a     *)
(* window of time, decided on and perhaps returned.  The window and the    *)
(* findings are the caller's; the aggregate is read from the store.  One   *)
(* scope; the reasons and policies that acts cite are left out.            *)
(***************************************************************************)
EXTENDS Naturals

CONSTANTS
    Contributions,  \* contribution ids
    Handles,        \* party handles of contributors
    NoHandle,       \* the source could not be established
    MaxInstant,     \* instants at which gifts are received: 1 .. MaxInstant
    MaxRecorded     \* bound: receipts recorded

ASSUME IncomeAssumption ==
    NoHandle \notin Handles /\ MaxInstant \in Nat /\ MaxRecorded \in Nat

VARIABLES
    contributions,  \* [Contributions -> FinanceContribution, or NoContribution]
    recorded        \* how many receipts have been recorded

incomeVars == <<contributions, recorded>>

NoContribution == [state |-> "none"]
NoAssessment == [resolved |-> FALSE]

IncomeInit ==
    /\ contributions = [c \in Contributions |-> NoContribution]
    /\ recorded = 0

(* A contribution stored under the id is replaced, receipt and history.    *)
RecordContribution(c, handle, at) ==
    /\ recorded < MaxRecorded
    /\ recorded' = recorded + 1
    /\ contributions' = [contributions EXCEPT ![c] =
                           [state |-> "received", handle |-> handle, at |-> at,
                            assessment |-> NoAssessment]]

Windows == {w \in [start : 1 .. MaxInstant, end : 2 .. MaxInstant + 1] : w.start < w.end}

Within(at, w) == w.start <= at /\ at < w.end

(* Mutant of Aggregate: what is still to be assessed is left out.          *)
AggregateOfAssessed(handle, w) ==
    {c \in Contributions : /\ contributions[c].state \notin {"none", "received"}
                           /\ contributions[c].handle = handle
                           /\ Within(contributions[c].at, w)}

(* list_for_party_in_window                                                *)
Aggregate(handle, w) ==
    {c \in Contributions : /\ contributions[c] # NoContribution
                           /\ contributions[c].handle = handle
                           /\ Within(contributions[c].at, w)}

Transitions ==
    {<<"received", "quarantined">>, <<"received", "assessed">>,
     <<"quarantined", "quarantined">>, <<"quarantined", "assessed">>,
     <<"quarantined", "rejected">>, <<"quarantined", "return_required">>,
     <<"assessed", "quarantined">>, <<"assessed", "accepted">>, <<"assessed", "rejected">>,
     <<"assessed", "return_required">>, <<"accepted", "return_required">>,
     <<"return_required", "returned">>}

MayTurn(c, state) == <<contributions[c].state, state>> \in Transitions

(* A finding that is not resolved quarantines, and replaces the one before.*)
AssessContribution(c, w, resolved, prohibited) ==
    LET state == IF resolved THEN "assessed" ELSE "quarantined"
    IN  /\ MayTurn(c, state)
        /\ contributions[c].handle # NoHandle
        /\ Within(contributions[c].at, w)
        /\ contributions' = [contributions EXCEPT
             ![c].state = state,
             ![c].assessment = [resolved |-> resolved, prohibited |-> prohibited,
                                window |-> w,
                                aggregated |-> Aggregate(contributions[c].handle, w)]]
        /\ UNCHANGED recorded

(* FinanceContribution.accept, before the transition is asked for.         *)
Acceptable(c) ==
    LET assessment == contributions[c].assessment
    IN  assessment.resolved /\ ~assessment.prohibited

(* decide_contribution takes three decisions, return_contribution one.     *)
DecideContribution(c, decision) ==
    /\ MayTurn(c, decision)
    /\ decision = "accepted" => Acceptable(c)
    /\ contributions' = [contributions EXCEPT ![c].state = decision]
    /\ UNCHANGED recorded

IncomeNext ==
    \E c \in Contributions :
        \/ \E handle \in Handles \cup {NoHandle}, at \in 1 .. MaxInstant :
              RecordContribution(c, handle, at)
        \/ \E w \in Windows, resolved, prohibited \in BOOLEAN :
              AssessContribution(c, w, resolved, prohibited)
        \/ \E decision \in {"accepted", "rejected", "return_required", "returned"} :
              DecideContribution(c, decision)

IncomeSpec == IncomeInit /\ [][IncomeNext]_incomeVars

-----------------------------------------------------------------------------
(* The types of the store.                                                 *)
IncomeTypeOK ==
    /\ recorded \in 0 .. MaxRecorded
    /\ \A c \in Contributions : contributions[c] # NoContribution =>
          /\ contributions[c].state \in {"received"} \cup {t[2] : t \in Transitions}
          /\ contributions[c].handle \in Handles \cup {NoHandle}
          /\ contributions[c].at \in 1 .. MaxInstant

Accepted == {c \in Contributions : contributions[c].state = "accepted"}

(* Gifts cannot be accepted past each other.  Of two accepted gifts of one *)
(* giver, each received in the window the other was assessed over, one at  *)
(* least was accepted on an aggregate that held the other; and a gift is   *)
(* accepted on a resolved finding that policy does not prohibit it, taken  *)
(* over an aggregate with itself in it, even if gifts are assessed again   *)
(* or recorded again in between. (assess_contribution,                     *)
(* decide_contribution, list_for_party_in_window)                          *)
NoGiftEscapesTheAggregate ==
    \A c, d \in Accepted :
        LET gift == contributions[c]
            other == contributions[d]
        IN  /\ gift.assessment.resolved /\ ~gift.assessment.prohibited
            /\ gift.handle = other.handle /\ Within(gift.at, other.assessment.window)
                 /\ Within(other.at, gift.assessment.window)
               => c \in other.assessment.aggregated \/ d \in gift.assessment.aggregated
=============================================================================
