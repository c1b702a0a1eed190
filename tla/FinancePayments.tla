-------------------------- MODULE FinancePayments ---------------------------
(***************************************************************************)
(* Expense claims and payments of the finance service (application.py,     *)
(* submit_expense_claim to settle_payment, over records.py and storage.py) *)
(* in one scope.  Submitting, approving, authorizing and settling are four *)
(* acts over three stores, of which only the reimbursements refuse to be   *)
(* replaced: a claim or an authorization under a known id is written over, *)
(* and a settlement may stop between two stores.                           *)
(***************************************************************************)
EXTENDS Naturals, FiniteSets

CONSTANTS
    Claims,            \* claim ids
    AuthorizationIds,  \* payment authorization ids
    ReimbursementIds,
    Parties,           \* claimants and the actors of finance authorities
    NoId,              \* no authorization is bound, no reimbursement is recorded
    MaxSubmissions,    \* bound: claims submitted
    MaxPayables        \* bound: authorizations for payables of another kind

ASSUME PaymentAssumption ==
    /\ NoId \notin AuthorizationIds \cup ReimbursementIds
    /\ MaxSubmissions \in Nat /\ MaxPayables \in Nat

VARIABLES
    claims,          \* [Claims -> ExpenseClaim, or NoClaim]
    payments,        \* the PaymentAuthorization stored under each of AuthorizationIds
    reimbursements,  \* [ReimbursementIds -> Reimbursement, or NoReimbursement]
    others,          \* authorizations for payables that are not claims
    audit            \* [Claims -> audit rows about it: acts of each kind finished]

paymentVars == <<claims, payments, reimbursements, others, audit>>

PaymentActs == {"submitted", "approved", "authorized", "settled"}

NoClaim == [state |-> "none"]
NoPaymentAuthorization == [state |-> "none"]
NoReimbursement == [executor |-> NoId]

PaymentInit ==
    /\ claims = [c \in Claims |-> NoClaim]
    /\ payments = [a \in AuthorizationIds |-> NoPaymentAuthorization]
    /\ reimbursements = [r \in ReimbursementIds |-> NoReimbursement]
    /\ others = 0
    /\ audit = [c \in Claims |-> [act \in PaymentActs |-> 0]]

(* _finish, once every store is written.                                   *)
Finish(c, act) == audit' = [audit EXCEPT ![c][act] = @ + 1]

(* Every submission of every claim.                                        *)
Submissions == UNION {{c} \X (1 .. audit[c]["submitted"]) : c \in Claims}

(* A claim stored under the id, settled or not, is replaced.               *)
SubmitExpenseClaim(c, claimant, evidence) ==
    /\ Cardinality(Submissions) < MaxSubmissions
    /\ claims' = [claims EXCEPT ![c] =
                    [state |-> "submitted", claimant |-> claimant, evidence |-> evidence,
                     authorization |-> NoId]]
    /\ Finish(c, "submitted")
    /\ UNCHANGED <<payments, reimbursements, others>>

(* review and approve in one command: neither keeps a claim without        *)
(* evidence, nor lets its claimant act.                                    *)
ApproveExpenseClaim(c, actor) ==
    /\ claims[c].state = "submitted"
    /\ claims[c].evidence /\ claims[c].claimant # actor
    /\ claims' = [claims EXCEPT ![c].state = "approved"]
    /\ Finish(c, "approved")
    /\ UNCHANGED <<payments, reimbursements, others>>

PaymentAuthorization(kind, payable, actor) ==
    [state |-> "authorized", kind |-> kind, payable |-> payable, authoriser |-> actor]

(* Mutant of MayBeAuthorized: a claim takes a second authorization before  *)
(* it is settled.                                                          *)
MayBeReauthorized(c) == claims[c].state \in {"approved", "payment_authorized"}

(* The transition to payment_authorized.                                   *)
MayBeAuthorized(c) == claims[c].state = "approved"

(* The claim is bound and saved first.  An authorization stored under the  *)
(* id, executed or bound to another claim, is replaced.                    *)
AuthorizeClaimPayment(a, c, actor) ==
    /\ MayBeAuthorized(c) /\ claims[c].claimant # actor
    /\ claims' = [claims EXCEPT ![c].state = "payment_authorized", ![c].authorization = a]
    /\ payments' = [payments EXCEPT ![a] =
                            PaymentAuthorization("expense_claim", c, actor)]
    /\ Finish(c, "authorized")
    /\ UNCHANGED <<reimbursements, others>>

(* A payable of another kind is not looked up; it may share a claim's id.  *)
AuthorizeOtherPayment(a, payable, actor) ==
    /\ others < MaxPayables
    /\ others' = others + 1
    /\ payments' = [payments EXCEPT ![a] =
                            PaymentAuthorization("other", payable, actor)]
    /\ UNCHANGED <<claims, reimbursements, audit>>

-----------------------------------------------------------------------------
(* Settlement *)

(* ExpenseClaim.settle                                                     *)
MayBeSettled(c) == claims[c].state = "payment_authorized"

(* is_executable and PaymentAuthorization.execute                          *)
MayExecute(a, actor) ==
    /\ payments[a].state = "authorized"
    /\ payments[a].authoriser # actor

Executed(a) == payments' = [payments EXCEPT ![a].state = "executed"]

SettleOther(a, actor) ==
    /\ MayExecute(a, actor) /\ payments[a].kind = "other"
    /\ Executed(a)
    /\ UNCHANGED <<claims, reimbursements, others, audit>>

(* The claim is saved before the reimbursement, which is refused when its  *)
(* id is taken: the claim stays settled and nothing else has happened.     *)
SettleClaim(a, actor, r) ==
    LET c == payments[a].payable
    IN  /\ MayExecute(a, actor) /\ payments[a].kind = "expense_claim"
        /\ MayBeSettled(c) /\ claims[c].claimant # actor
        /\ claims' = [claims EXCEPT ![c].state = "settled"]
        /\ IF r # NoId /\ reimbursements[r] # NoReimbursement
           THEN UNCHANGED <<payments, reimbursements, audit>>
           ELSE /\ reimbursements' =
                     [s \in ReimbursementIds |->
                        IF s = r THEN [executor |-> actor, claim |-> c, authorization |-> a]
                                 ELSE reimbursements[s]]
                /\ Executed(a)
                /\ Finish(c, "settled")
        /\ UNCHANGED others

-----------------------------------------------------------------------------
PaymentNext ==
    \E actor \in Parties :
        \/ \E c \in Claims :
              \/ \E evidence \in BOOLEAN : SubmitExpenseClaim(c, actor, evidence)
              \/ ApproveExpenseClaim(c, actor)
        \/ \E a \in AuthorizationIds :
              \/ \E c \in Claims : AuthorizeClaimPayment(a, c, actor)
                                   \/ AuthorizeOtherPayment(a, c, actor)
              \/ SettleOther(a, actor)
              \/ \E r \in ReimbursementIds \cup {NoId} : SettleClaim(a, actor, r)

PaymentSpec == PaymentInit /\ [][PaymentNext]_paymentVars

-----------------------------------------------------------------------------
(* The types of the stores.                                                *)
PaymentTypeOK ==
    /\ \A c \in Claims :
          claims[c].state \in {"none", "submitted", "approved", "payment_authorized",
                               "settled"}
    /\ Cardinality(Submissions) <= MaxSubmissions
    /\ \A a \in AuthorizationIds :
          payments[a].state \in {"none", "authorized", "executed"}
    /\ others \in 0 .. MaxPayables

(* No claim is paid out more often than it was submitted, approved and its *)
(* payment authorized, each time anew, however ids are used again, retried *)
(* settlements stop half way and authorizations are bound to other claims: *)
(* neither by the settlements on record, nor by the authorizations         *)
(* executed for it, nor by the reimbursements that name it.                *)
(* (approve_expense_claim, authorize_payment, settle_payment)              *)
PaymentsFollowApprovals ==
    \A c \in Claims :
        LET executed == {a \in AuthorizationIds :
                           /\ payments[a].state = "executed"
                           /\ payments[a].kind = "expense_claim"
                           /\ payments[a].payable = c}
            paid == {r \in ReimbursementIds :
                       reimbursements[r] # NoReimbursement /\ reimbursements[r].claim = c}
        IN  /\ audit[c]["settled"] <= audit[c]["authorized"]
            /\ audit[c]["authorized"] <= audit[c]["approved"]
            /\ audit[c]["approved"] <= audit[c]["submitted"]
            /\ Cardinality(executed) <= audit[c]["settled"]
            /\ Cardinality(paid) <= audit[c]["settled"]
=============================================================================
