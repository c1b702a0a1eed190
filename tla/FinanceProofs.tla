--------------------------- MODULE FinanceProofs ----------------------------
(***************************************************************************)
(* Proofs about the finance and compliance services: payments, gifts, the  *)
(* ledger, reports and the disposal of records.  They share no state; each *)
(* has an inductive invariant of its own.                                  *)
(***************************************************************************)
EXTENDS FinancePayments, FinanceIncome, FinanceLedger, FinanceReports,
        RecordDisposal, FiniteSetTheorems, TLAPS

-----------------------------------------------------------------------------
(***************************************************************************)
(* Proofs about FinancePayments.                                           *)
(***************************************************************************)

ExpenseClaim ==
    [state : {"submitted", "approved", "payment_authorized", "settled"},
     claimant : Parties, evidence : BOOLEAN, authorization : AuthorizationIds \cup {NoId}]

PaymentApproval ==
    [state : {"authorized", "executed"}, kind : {"expense_claim", "other"},
     payable : Claims, authoriser : Parties]

Reimbursement == [executor : Parties, claim : Claims, authorization : AuthorizationIds]

ExecutedFor(c) ==
    {a \in AuthorizationIds : /\ payments[a].state = "executed"
                              /\ payments[a].kind = "expense_claim"
                              /\ payments[a].payable = c}

PaidFor(c) ==
    {r \in ReimbursementIds : reimbursements[r] # NoReimbursement /\ reimbursements[r].claim = c}

PaymentShape ==
    /\ claims \in [Claims -> ExpenseClaim \cup {NoClaim}]
    /\ payments \in [AuthorizationIds -> PaymentApproval \cup {NoPaymentAuthorization}]
    /\ reimbursements \in [ReimbursementIds -> Reimbursement \cup {NoReimbursement}]
    /\ others \in 0 .. MaxPayables
    /\ audit \in [Claims -> [PaymentActs -> Nat]]

(* A claim in a state has the act that led there on record, not yet        *)
(* followed by the next one.                                               *)
ActsInOrder(c) ==
    /\ audit[c]["settled"] <= audit[c]["authorized"]
    /\ audit[c]["authorized"] <= audit[c]["approved"]
    /\ audit[c]["approved"] <= audit[c]["submitted"]
    /\ claims[c].state = "submitted" => audit[c]["approved"] < audit[c]["submitted"]
    /\ claims[c].state = "approved" => audit[c]["authorized"] < audit[c]["approved"]
    /\ claims[c].state = "payment_authorized" => audit[c]["settled"] < audit[c]["authorized"]

(* What was executed for a claim, and what reimbursed it, is within what   *)
(* was settled.                                                            *)
AtMost(S, n) == IsFiniteSet(S) /\ Cardinality(S) <= n

PaidOut(c) ==
    /\ AtMost(ExecutedFor(c), audit[c]["settled"])
    /\ AtMost(PaidFor(c), audit[c]["settled"])

PaymentInv ==
    /\ PaymentShape
    /\ AtMost(Submissions, MaxSubmissions)
    /\ \A c \in Claims : ActsInOrder(c) /\ PaidOut(c)

LEMMA NoIdApart == NoId \notin AuthorizationIds /\ NoId \notin ReimbursementIds
  BY PaymentAssumption DEF PaymentAssumption

(* A part of a counted set is counted; one element more is one more.       *)
LEMMA FewerIsAtMost ==
  ASSUME NEW S, NEW T, NEW n \in Nat, AtMost(S, n), T \subseteq S
  PROVE  AtMost(T, n)
  <1>1. T \in SUBSET S
    OBVIOUS
  <1>2. IsFiniteSet(S) /\ Cardinality(S) <= n
    BY DEF AtMost
  <1>3. IsFiniteSet(T) /\ Cardinality(T) <= Cardinality(S)
    BY <1>1, <1>2, FS_Subset
  <1>4. Cardinality(T) \in Nat /\ Cardinality(S) \in Nat
    BY <1>2, <1>3, FS_CardinalityType
  <1>5. Cardinality(T) <= n
    BY <1>2, <1>3, <1>4
  <1> QED
    BY <1>3, <1>5 DEF AtMost

LEMMA OneMoreIsAtMost ==
  ASSUME NEW S, NEW T, NEW x, NEW n \in Nat, AtMost(S, n), T \subseteq S \cup {x}
  PROVE  AtMost(T, n + 1)
  <1>1. IsFiniteSet(S) /\ Cardinality(S) <= n
    BY DEF AtMost
  <1>2. Cardinality(S) \in Nat
    BY <1>1, FS_CardinalityType
  <1>3. IsFiniteSet(S \cup {x})
        /\ Cardinality(S \cup {x}) = IF x \in S THEN Cardinality(S) ELSE Cardinality(S) + 1
    BY <1>1, FS_AddElement
  <1>4. Cardinality(S \cup {x}) <= n + 1
    BY <1>1, <1>2, <1>3
  <1>5. AtMost(S \cup {x}, n + 1)
    BY <1>3, <1>4 DEF AtMost
  <1>6. n + 1 \in Nat
    OBVIOUS
  <1> QED
    BY <1>5, <1>6, FewerIsAtMost

LEMMA SettledCounted ==
  ASSUME PaymentShape, NEW c \in Claims, NEW act \in PaymentActs
  PROVE  audit[c][act] \in Nat
  BY DEF PaymentShape

(* An act finished is one more of its kind, for its claim.                 *)
LEMMA Finished ==
  ASSUME PaymentShape, NEW c \in Claims, NEW act \in PaymentActs, Finish(c, act)
  PROVE  /\ audit' \in [Claims -> [PaymentActs -> Nat]]
         /\ \A d \in Claims : d # c => audit'[d] = audit[d]
         /\ \A b \in PaymentActs : b # act => audit'[c][b] = audit[c][b]
         /\ audit'[c][act] = audit[c][act] + 1
  BY DEF PaymentShape, Finish

(* Acts other than a submission leave the submissions as they are.         *)
LEMMA SubmissionsKept ==
  ASSUME \A c \in Claims : audit'[c]["submitted"] = audit[c]["submitted"]
  PROVE  Submissions' = Submissions
  BY DEF Submissions

LEMMA ActNames == {"submitted", "approved", "authorized", "settled"} = PaymentActs
  BY DEF PaymentActs

LEMMA ClaimSubmitted ==
  ASSUME PaymentInv, NEW c \in Claims, NEW x \in Parties, NEW shown \in BOOLEAN,
         SubmitExpenseClaim(c, x, shown)
  PROVE  PaymentInv'
  <1> USE DEF SubmitExpenseClaim
  <1> DEFINE new == [state |-> "submitted", claimant |-> x, evidence |-> shown,
                     authorization |-> NoId]
  <1>1. new \in ExpenseClaim /\ new.state = "submitted"
    BY DEF ExpenseClaim
  <1>2. claims' = [claims EXCEPT ![c] = new]
    OBVIOUS
  <1> HIDE DEF new
  <1>3. PaymentShape /\ claims \in [Claims -> ExpenseClaim \cup {NoClaim}]
    BY DEF PaymentInv, PaymentShape
  <1>4. /\ claims' \in [Claims -> ExpenseClaim \cup {NoClaim}]
        /\ claims'[c] = new
        /\ \A d \in Claims : d # c => claims'[d] = claims[d]
    BY <1>1, <1>2, <1>3
  <1>5. /\ audit' \in [Claims -> [PaymentActs -> Nat]]
        /\ \A d \in Claims : d # c => audit'[d] = audit[d]
        /\ \A b \in PaymentActs : b # "submitted" => audit'[c][b] = audit[c][b]
        /\ audit'[c]["submitted"] = audit[c]["submitted"] + 1
    BY <1>3, ActNames, Finished
  <1>6. PaymentShape'
    BY <1>3, <1>4, <1>5 DEF PaymentShape
  <1>7. /\ audit'[c]["approved"] = audit[c]["approved"]
        /\ audit'[c]["authorized"] = audit[c]["authorized"]
        /\ audit'[c]["settled"] = audit[c]["settled"]
    BY <1>5, ActNames
  <1>8. /\ audit[c]["submitted"] \in Nat /\ audit[c]["approved"] \in Nat
        /\ audit[c]["authorized"] \in Nat /\ audit[c]["settled"] \in Nat
    BY <1>3, ActNames, SettledCounted
  <1>9. ActsInOrder(c)'
    <2>1. ActsInOrder(c)
      BY DEF PaymentInv
    <2> QED
      BY <2>1, <1>1, <1>4, <1>5, <1>7, <1>8 DEF ActsInOrder
  <1>10. \A d \in Claims : audit'[d]["settled"] = audit[d]["settled"]
    BY <1>5, <1>7
  <1>11. \A d \in Claims : ExecutedFor(d)' = ExecutedFor(d) /\ PaidFor(d)' = PaidFor(d)
    BY DEF ExecutedFor, PaidFor
  <1>12. \A d \in Claims : PaidOut(d)'
    BY <1>10, <1>11 DEF PaymentInv, PaidOut
  <1>13. \A d \in Claims : d # c => ActsInOrder(d)'
    BY <1>4, <1>5 DEF PaymentInv, ActsInOrder
  <1>14. AtMost(Submissions, MaxSubmissions)'
    <2> DEFINE next == <<c, audit[c]["submitted"] + 1>>
    <2>1. Submissions' \subseteq Submissions \cup {next}
      <3> SUFFICES ASSUME NEW d \in Claims, NEW k \in 1 .. audit'[d]["submitted"]
                   PROVE  <<d, k>> \in Submissions \cup {next}
        BY DEF Submissions
      <3>1. CASE k \in 1 .. audit[d]["submitted"]
        BY <3>1 DEF Submissions
      <3>2. CASE k \notin 1 .. audit[d]["submitted"]
        <4>1. d = c
          BY <3>2, <1>5
        <4>2. k = audit[c]["submitted"] + 1
          BY <4>1, <3>2, <1>5, <1>8
        <4> QED
          BY <4>1, <4>2
      <3> QED
        BY <3>1, <3>2
    <2>2. IsFiniteSet(Submissions) /\ Cardinality(Submissions) \in Nat
      BY FS_CardinalityType DEF PaymentInv, AtMost
    <2>3. Cardinality(Submissions) < MaxSubmissions /\ MaxSubmissions \in Nat
      BY PaymentAssumption DEF PaymentAssumption
    <2>4. AtMost(Submissions, MaxSubmissions - 1) /\ MaxSubmissions - 1 \in Nat
      BY <2>2, <2>3 DEF AtMost
    <2> HIDE DEF next
    <2>5. AtMost(Submissions', (MaxSubmissions - 1) + 1)
      BY <2>1, <2>4, OneMoreIsAtMost
    <2>6. (MaxSubmissions - 1) + 1 = MaxSubmissions
      BY <2>3
    <2> QED
      BY <2>5, <2>6 DEF AtMost
  <1> QED
    BY <1>6, <1>9, <1>12, <1>13, <1>14 DEF PaymentInv

(* A claim that moves to another state.                                    *)
LEMMA ClaimInState ==
  ASSUME PaymentShape, NEW c \in Claims, claims[c] # NoClaim,
         NEW s \in {"submitted", "approved", "payment_authorized", "settled"},
         NEW b \in AuthorizationIds \cup {NoId},
         claims' = [claims EXCEPT ![c] = [claims[c] EXCEPT !.state = s, !.authorization = b]]
  PROVE  /\ claims' \in [Claims -> ExpenseClaim \cup {NoClaim}]
         /\ claims'[c].state = s
         /\ \A d \in Claims : d # c => claims'[d] = claims[d]
  <1> DEFINE new == [claims[c] EXCEPT !.state = s, !.authorization = b]
  <1>1. claims \in [Claims -> ExpenseClaim \cup {NoClaim}] /\ claims[c] \in ExpenseClaim
    BY DEF PaymentShape
  <1>2. new \in ExpenseClaim /\ new.state = s
    BY <1>1 DEF ExpenseClaim
  <1> HIDE DEF new
  <1>3. claims' = [claims EXCEPT ![c] = new]
    BY DEF new
  <1> QED
    BY <1>1, <1>2, <1>3

(* The same for the acts that leave the binding alone.                     *)
LEMMA ClaimMoves ==
  ASSUME PaymentShape, NEW c \in Claims, claims[c] # NoClaim,
         NEW s \in {"submitted", "approved", "payment_authorized", "settled"},
         claims' = [claims EXCEPT ![c].state = s]
  PROVE  /\ claims' \in [Claims -> ExpenseClaim \cup {NoClaim}]
         /\ claims'[c].state = s
         /\ \A d \in Claims : d # c => claims'[d] = claims[d]
  <1> DEFINE new == [claims[c] EXCEPT !.state = s]
  <1>1. claims \in [Claims -> ExpenseClaim \cup {NoClaim}] /\ claims[c] \in ExpenseClaim
    BY DEF PaymentShape
  <1>2. new \in ExpenseClaim /\ new.state = s
    BY <1>1 DEF ExpenseClaim
  <1>3. claims' = [claims EXCEPT ![c] = new]
    BY <1>1
  <1> HIDE DEF new
  <1> QED
    BY <1>1, <1>2, <1>3

LEMMA ClaimApproved ==
  ASSUME PaymentInv, NEW c \in Claims, NEW x \in Parties, ApproveExpenseClaim(c, x)
  PROVE  PaymentInv'
  <1> USE DEF ApproveExpenseClaim
  <1>1. PaymentShape /\ claims[c] # NoClaim
    BY DEF PaymentInv, NoClaim
  <1>2. "approved" \in {"submitted", "approved", "payment_authorized", "settled"}
    OBVIOUS
  <1>3. /\ claims' \in [Claims -> ExpenseClaim \cup {NoClaim}]
        /\ claims'[c].state = "approved"
        /\ \A d \in Claims : d # c => claims'[d] = claims[d]
    BY <1>1, <1>2, ClaimMoves
  <1>4. /\ audit' \in [Claims -> [PaymentActs -> Nat]]
        /\ \A d \in Claims : d # c => audit'[d] = audit[d]
        /\ \A b \in PaymentActs : b # "approved" => audit'[c][b] = audit[c][b]
        /\ audit'[c]["approved"] = audit[c]["approved"] + 1
    BY <1>1, ActNames, Finished
  <1>5. /\ audit'[c]["submitted"] = audit[c]["submitted"]
        /\ audit'[c]["authorized"] = audit[c]["authorized"]
        /\ audit'[c]["settled"] = audit[c]["settled"]
    BY <1>4, ActNames
  <1>6. /\ audit[c]["submitted"] \in Nat /\ audit[c]["approved"] \in Nat
        /\ audit[c]["authorized"] \in Nat /\ audit[c]["settled"] \in Nat
    BY <1>1, ActNames, SettledCounted
  <1>7. PaymentShape'
    BY <1>1, <1>3, <1>4 DEF PaymentShape
  <1>8. ActsInOrder(c)'
    <2>1. ActsInOrder(c)
      BY DEF PaymentInv
    <2> QED
      BY <2>1, <1>3, <1>4, <1>5, <1>6 DEF ActsInOrder
  <1>9. \A d \in Claims : d # c => ActsInOrder(d)'
    BY <1>3, <1>4 DEF PaymentInv, ActsInOrder
  <1>10. \A d \in Claims : audit'[d]["settled"] = audit[d]["settled"]
                           /\ audit'[d]["submitted"] = audit[d]["submitted"]
    BY <1>4, <1>5
  <1>11. \A d \in Claims : ExecutedFor(d)' = ExecutedFor(d) /\ PaidFor(d)' = PaidFor(d)
    BY DEF ExecutedFor, PaidFor
  <1>12. \A d \in Claims : PaidOut(d)'
    BY <1>10, <1>11 DEF PaymentInv, PaidOut
  <1>13. AtMost(Submissions, MaxSubmissions)'
    BY <1>10, SubmissionsKept DEF PaymentInv
  <1> QED
    BY <1>7, <1>8, <1>9, <1>12, <1>13 DEF PaymentInv

(* An authorization in the place of another executes nothing.              *)
LEMMA AuthorizationReplaced ==
  ASSUME PaymentShape, NEW a \in AuthorizationIds, NEW kind \in {"expense_claim", "other"},
         NEW c \in Claims, NEW x \in Parties,
         payments' = [payments EXCEPT ![a] = PaymentAuthorization(kind, c, x)]
  PROVE  /\ payments' \in [AuthorizationIds -> PaymentApproval \cup {NoPaymentAuthorization}]
         /\ \A d \in Claims : ExecutedFor(d)' \subseteq ExecutedFor(d)
  <1> DEFINE new == PaymentAuthorization(kind, c, x)
  <1>1. new \in PaymentApproval /\ new.state = "authorized"
    BY DEF PaymentAuthorization, PaymentApproval
  <1>2. payments \in [AuthorizationIds -> PaymentApproval \cup {NoPaymentAuthorization}]
    BY DEF PaymentShape
  <1> HIDE DEF new
  <1>3. /\ payments' \in [AuthorizationIds -> PaymentApproval \cup {NoPaymentAuthorization}]
        /\ payments'[a] = new
        /\ \A b \in AuthorizationIds : b # a => payments'[b] = payments[b]
    BY <1>1, <1>2 DEF new
  <1> QED
    BY <1>1, <1>3 DEF ExecutedFor

LEMMA ClaimAuthorized ==
  ASSUME PaymentInv, NEW a \in AuthorizationIds, NEW c \in Claims, NEW x \in Parties,
         AuthorizeClaimPayment(a, c, x)
  PROVE  PaymentInv'
  <1> USE DEF AuthorizeClaimPayment, MayBeAuthorized
  <1>1. PaymentShape /\ claims[c] # NoClaim
    BY DEF PaymentInv, NoClaim
  <1>2. "payment_authorized" \in {"submitted", "approved", "payment_authorized", "settled"}
        /\ a \in AuthorizationIds \cup {NoId}
    OBVIOUS
  <1>2a. claims' = [claims EXCEPT ![c] = [claims[c] EXCEPT !.state = "payment_authorized",
                                                           !.authorization = a]]
    BY <1>1 DEF PaymentShape
  <1>3. /\ claims' \in [Claims -> ExpenseClaim \cup {NoClaim}]
        /\ claims'[c].state = "payment_authorized"
        /\ \A d \in Claims : d # c => claims'[d] = claims[d]
    BY <1>1, <1>2, <1>2a, ClaimInState
  <1>4. /\ audit' \in [Claims -> [PaymentActs -> Nat]]
        /\ \A d \in Claims : d # c => audit'[d] = audit[d]
        /\ \A b \in PaymentActs : b # "authorized" => audit'[c][b] = audit[c][b]
        /\ audit'[c]["authorized"] = audit[c]["authorized"] + 1
    BY <1>1, ActNames, Finished
  <1>5. /\ audit'[c]["submitted"] = audit[c]["submitted"]
        /\ audit'[c]["approved"] = audit[c]["approved"]
        /\ audit'[c]["settled"] = audit[c]["settled"]
    BY <1>4, ActNames
  <1>6. /\ audit[c]["submitted"] \in Nat /\ audit[c]["approved"] \in Nat
        /\ audit[c]["authorized"] \in Nat /\ audit[c]["settled"] \in Nat
    BY <1>1, ActNames, SettledCounted
  <1>7. /\ payments' \in [AuthorizationIds -> PaymentApproval \cup {NoPaymentAuthorization}]
        /\ \A d \in Claims : ExecutedFor(d)' \subseteq ExecutedFor(d)
    <2>1. "expense_claim" \in {"expense_claim", "other"}
      OBVIOUS
    <2> QED
      BY <2>1, <1>1, AuthorizationReplaced
  <1>8. PaymentShape'
    BY <1>1, <1>3, <1>4, <1>7 DEF PaymentShape
  <1>9. ActsInOrder(c)'
    <2>1. ActsInOrder(c)
      BY DEF PaymentInv
    <2> QED
      BY <2>1, <1>3, <1>4, <1>5, <1>6 DEF ActsInOrder
  <1>10. \A d \in Claims : d # c => ActsInOrder(d)'
    BY <1>3, <1>4 DEF PaymentInv, ActsInOrder
  <1>11. \A d \in Claims : audit'[d]["settled"] = audit[d]["settled"]
                           /\ audit'[d]["submitted"] = audit[d]["submitted"]
    BY <1>4, <1>5
  <1>12. \A d \in Claims : PaidOut(d)'
    <2> SUFFICES ASSUME NEW d \in Claims PROVE PaidOut(d)'
      OBVIOUS
    <2>1. PaidOut(d) /\ audit[d]["settled"] \in Nat
      BY <1>1, ActNames, SettledCounted DEF PaymentInv
    <2>2. AtMost(ExecutedFor(d)', audit[d]["settled"])
      BY <2>1, <1>7, FewerIsAtMost DEF PaidOut
    <2>3. PaidFor(d)' = PaidFor(d)
      BY DEF PaidFor
    <2> QED
      BY <2>1, <2>2, <2>3, <1>11 DEF PaidOut, AtMost
  <1>13. AtMost(Submissions, MaxSubmissions)'
    BY <1>11, SubmissionsKept DEF PaymentInv
  <1> QED
    BY <1>8, <1>9, <1>10, <1>12, <1>13 DEF PaymentInv

(* What touches neither claims nor the audit keeps everything as long as   *)
(* nothing more is executed for a claim.                                   *)
LEMMA ClaimsUntouched ==
  ASSUME PaymentInv, UNCHANGED <<claims, reimbursements, audit>>,
         payments' \in [AuthorizationIds -> PaymentApproval \cup {NoPaymentAuthorization}],
         others' \in 0 .. MaxPayables,
         \A d \in Claims : ExecutedFor(d)' \subseteq ExecutedFor(d)
  PROVE  PaymentInv'
  <1>1. PaymentShape
    BY DEF PaymentInv
  <1>2. PaymentShape'
    BY <1>1 DEF PaymentShape
  <1>3. \A d \in Claims : ActsInOrder(d)'
    BY DEF PaymentInv, ActsInOrder
  <1>4. \A d \in Claims : PaidOut(d)'
    <2> SUFFICES ASSUME NEW d \in Claims PROVE PaidOut(d)'
      OBVIOUS
    <2>1. PaidOut(d) /\ audit[d]["settled"] \in Nat
      BY <1>1, ActNames, SettledCounted DEF PaymentInv
    <2>2. AtMost(ExecutedFor(d)', audit[d]["settled"])
      BY <2>1, FewerIsAtMost DEF PaidOut
    <2>3. PaidFor(d)' = PaidFor(d)
      BY DEF PaidFor
    <2> QED
      BY <2>1, <2>2, <2>3 DEF PaidOut, AtMost
  <1>5. AtMost(Submissions, MaxSubmissions)'
    BY SubmissionsKept DEF PaymentInv
  <1> QED
    BY <1>2, <1>3, <1>4, <1>5 DEF PaymentInv

LEMMA OtherAuthorized ==
  ASSUME PaymentInv, NEW a \in AuthorizationIds, NEW c \in Claims, NEW x \in Parties,
         AuthorizeOtherPayment(a, c, x)
  PROVE  PaymentInv'
  <1> USE DEF AuthorizeOtherPayment
  <1>1. PaymentShape
    BY DEF PaymentInv
  <1>2. "other" \in {"expense_claim", "other"}
    OBVIOUS
  <1>3. /\ payments' \in [AuthorizationIds -> PaymentApproval \cup {NoPaymentAuthorization}]
        /\ \A d \in Claims : ExecutedFor(d)' \subseteq ExecutedFor(d)
    BY <1>1, <1>2, AuthorizationReplaced
  <1>4. others' \in 0 .. MaxPayables
    BY <1>1, PaymentAssumption DEF PaymentShape, PaymentAssumption
  <1> QED
    BY <1>3, <1>4, ClaimsUntouched

(* An execution touches its authorization alone.                           *)
LEMMA AuthorizationExecuted ==
  ASSUME PaymentShape, NEW a \in AuthorizationIds, payments[a].state = "authorized",
         Executed(a)
  PROVE  /\ payments' \in [AuthorizationIds -> PaymentApproval \cup {NoPaymentAuthorization}]
         /\ payments[a] \in PaymentApproval
         /\ \A d \in Claims :
              /\ ExecutedFor(d)' \subseteq ExecutedFor(d) \cup {a}
              /\ payments[a].kind = "other" \/ payments[a].payable # d =>
                    ExecutedFor(d)' \subseteq ExecutedFor(d)
  <1> DEFINE new == [payments[a] EXCEPT !.state = "executed"]
  <1>1. payments \in [AuthorizationIds -> PaymentApproval \cup {NoPaymentAuthorization}]
    BY DEF PaymentShape
  <1>2. payments[a] \in PaymentApproval
    BY <1>1 DEF NoPaymentAuthorization
  <1>3. /\ new \in PaymentApproval
        /\ new.kind = payments[a].kind /\ new.payable = payments[a].payable
    BY <1>2 DEF PaymentApproval
  <1>4. payments' = [payments EXCEPT ![a] = new]
    BY <1>1 DEF Executed
  <1> HIDE DEF new
  <1>5. /\ payments' \in [AuthorizationIds -> PaymentApproval \cup {NoPaymentAuthorization}]
        /\ payments'[a] = new
        /\ \A b \in AuthorizationIds : b # a => payments'[b] = payments[b]
    BY <1>1, <1>3, <1>4
  <1>6. ASSUME NEW d \in Claims
        PROVE  /\ ExecutedFor(d)' \subseteq ExecutedFor(d) \cup {a}
               /\ payments[a].kind = "other" \/ payments[a].payable # d =>
                    ExecutedFor(d)' \subseteq ExecutedFor(d)
    BY <1>3, <1>5 DEF ExecutedFor
  <1> QED
    BY <1>2, <1>5, <1>6

LEMMA OtherSettled ==
  ASSUME PaymentInv, NEW a \in AuthorizationIds, NEW x \in Parties, SettleOther(a, x)
  PROVE  PaymentInv'
  <1> USE DEF SettleOther, MayExecute
  <1>1. PaymentShape
    BY DEF PaymentInv
  <1>2. /\ payments' \in [AuthorizationIds -> PaymentApproval \cup {NoPaymentAuthorization}]
        /\ \A d \in Claims : ExecutedFor(d)' \subseteq ExecutedFor(d)
    BY <1>1, AuthorizationExecuted
  <1>3. others' \in 0 .. MaxPayables
    BY <1>1 DEF PaymentShape
  <1> QED
    BY <1>2, <1>3, ClaimsUntouched

LEMMA ClaimSettled ==
  ASSUME PaymentInv, NEW a \in AuthorizationIds, NEW x \in Parties,
         NEW r \in ReimbursementIds \cup {NoId}, SettleClaim(a, x, r)
  PROVE  PaymentInv'
  <1> DEFINE c == payments[a].payable
  <1> USE DEF MayExecute, MayBeSettled
  <1>1. PaymentShape
    BY DEF PaymentInv
  <1>2. payments[a] \in PaymentApproval /\ payments[a].state = "authorized"
    BY <1>1 DEF SettleClaim, PaymentShape, NoPaymentAuthorization
  <1>3. c \in Claims
    BY <1>2 DEF PaymentApproval
  <1>4. claims[c] # NoClaim /\ claims[c].state = "payment_authorized"
    BY DEF SettleClaim, NoClaim
  <1>5. "settled" \in {"submitted", "approved", "payment_authorized", "settled"}
    OBVIOUS
  <1>6. claims' = [claims EXCEPT ![c].state = "settled"] /\ others' = others
    BY DEF SettleClaim
  <1>6a. CASE r # NoId /\ reimbursements[r] # NoReimbursement
    <2>1. UNCHANGED <<payments, reimbursements, audit>>
      BY <1>6a DEF SettleClaim
    <2> HIDE DEF c
    <2>2. /\ claims' \in [Claims -> ExpenseClaim \cup {NoClaim}]
          /\ claims'[c].state = "settled"
          /\ \A d \in Claims : d # c => claims'[d] = claims[d]
      BY <1>1, <1>3, <1>4, <1>5, <1>6, ClaimMoves
    <2>3. PaymentShape'
      BY <1>1, <1>6, <2>1, <2>2 DEF PaymentShape
    <2>4. \A d \in Claims : ActsInOrder(d)'
      BY <2>1, <2>2 DEF PaymentInv, ActsInOrder
    <2>5. \A d \in Claims : PaidOut(d)'
      BY <2>1 DEF PaymentInv, PaidOut, ExecutedFor, PaidFor
    <2>6. AtMost(Submissions, MaxSubmissions)'
      BY <2>1, SubmissionsKept DEF PaymentInv
    <2> QED
      BY <2>3, <2>4, <2>5, <2>6 DEF PaymentInv
  <1>6b. CASE ~(r # NoId /\ reimbursements[r] # NoReimbursement)
    <2> DEFINE paid == [executor |-> x, claim |-> c, authorization |-> a]
    <2>1. /\ reimbursements' = [s \in ReimbursementIds |->
                                  IF s = r THEN paid ELSE reimbursements[s]]
          /\ Executed(a) /\ Finish(c, "settled")
      BY <1>6b DEF SettleClaim
    <2>2. paid \in Reimbursement /\ paid.claim = c
      BY <1>3 DEF Reimbursement
    <2>3. /\ payments' \in [AuthorizationIds -> PaymentApproval \cup {NoPaymentAuthorization}]
          /\ \A d \in Claims :
              /\ ExecutedFor(d)' \subseteq ExecutedFor(d) \cup {a}
              /\ payments[a].payable # d => ExecutedFor(d)' \subseteq ExecutedFor(d)
      BY <1>1, <1>2, <2>1, AuthorizationExecuted
    <2>3a. \A d \in Claims : d # c => ExecutedFor(d)' \subseteq ExecutedFor(d)
      BY <2>3
    <2> HIDE DEF c, paid
    <2>4. /\ claims' \in [Claims -> ExpenseClaim \cup {NoClaim}]
          /\ claims'[c].state = "settled"
          /\ \A d \in Claims : d # c => claims'[d] = claims[d]
      BY <1>1, <1>3, <1>4, <1>5, <1>6, ClaimMoves
    <2>5. /\ audit' \in [Claims -> [PaymentActs -> Nat]]
          /\ \A d \in Claims : d # c => audit'[d] = audit[d]
          /\ \A b \in PaymentActs : b # "settled" => audit'[c][b] = audit[c][b]
          /\ audit'[c]["settled"] = audit[c]["settled"] + 1
      BY <1>1, <1>3, <2>1, ActNames, Finished
    <2>6. /\ audit'[c]["submitted"] = audit[c]["submitted"]
          /\ audit'[c]["approved"] = audit[c]["approved"]
          /\ audit'[c]["authorized"] = audit[c]["authorized"]
      BY <2>5, ActNames
    <2>7. /\ audit[c]["submitted"] \in Nat /\ audit[c]["approved"] \in Nat
          /\ audit[c]["authorized"] \in Nat /\ audit[c]["settled"] \in Nat
      BY <1>1, <1>3, ActNames, SettledCounted
    <2>8. reimbursements \in [ReimbursementIds -> Reimbursement \cup {NoReimbursement}]
      BY <1>1 DEF PaymentShape
    <2>9. reimbursements' \in [ReimbursementIds -> Reimbursement \cup {NoReimbursement}]
      BY <2>1, <2>2, <2>8
    <2>10. PaymentShape'
      BY <1>1, <1>6, <2>3, <2>4, <2>5, <2>9 DEF PaymentShape
    <2>11. \A d \in Claims : ActsInOrder(d)'
      <3> SUFFICES ASSUME NEW d \in Claims PROVE ActsInOrder(d)'
        OBVIOUS
      <3>1. ActsInOrder(d)
        BY DEF PaymentInv
      <3>2. CASE d = c
        BY <3>1, <3>2, <1>4, <2>4, <2>5, <2>6, <2>7 DEF ActsInOrder
      <3>3. CASE d # c
        BY <3>1, <3>3, <2>4, <2>5 DEF ActsInOrder
      <3> QED
        BY <3>2, <3>3
    <2>12. \A d \in Claims : /\ PaidFor(d)' \subseteq PaidFor(d) \cup {r}
                             /\ d # c => PaidFor(d)' \subseteq PaidFor(d)
      BY <2>1, <2>2 DEF PaidFor
    <2>13. \A d \in Claims : PaidOut(d)'
      <3> SUFFICES ASSUME NEW d \in Claims PROVE PaidOut(d)'
        OBVIOUS
      <3>1. PaidOut(d) /\ audit[d]["settled"] \in Nat
        BY <1>1, ActNames, SettledCounted DEF PaymentInv
      <3>2. CASE d = c
        <4>1. AtMost(ExecutedFor(d)', audit[d]["settled"] + 1)
          BY <3>1, <2>3, OneMoreIsAtMost DEF PaidOut
        <4>2. AtMost(PaidFor(d)', audit[d]["settled"] + 1)
          BY <3>1, <2>12, OneMoreIsAtMost DEF PaidOut
        <4>3. audit'[d]["settled"] = audit[d]["settled"] + 1
          BY <3>2, <2>5
        <4> QED
          BY <4>1, <4>2, <4>3 DEF PaidOut, AtMost
      <3>3. CASE d # c
        <4>1. AtMost(ExecutedFor(d)', audit[d]["settled"])
          BY <3>1, <3>3, <2>3a, FewerIsAtMost DEF PaidOut
        <4>2. AtMost(PaidFor(d)', audit[d]["settled"])
          BY <3>1, <3>3, <2>12, FewerIsAtMost DEF PaidOut
        <4>3. audit'[d]["settled"] = audit[d]["settled"]
          BY <3>3, <2>5
        <4> QED
          BY <4>1, <4>2, <4>3 DEF PaidOut, AtMost
      <3> QED
        BY <3>2, <3>3
    <2>14. \A d \in Claims : audit'[d]["submitted"] = audit[d]["submitted"]
      BY <2>5, <2>6
    <2>15. AtMost(Submissions, MaxSubmissions)'
      BY <2>14, SubmissionsKept DEF PaymentInv
    <2> QED
      BY <2>10, <2>11, <2>13, <2>15 DEF PaymentInv
  <1> QED
    BY <1>6a, <1>6b

LEMMA PaymentStart == PaymentInit => PaymentInv
  <1> SUFFICES ASSUME PaymentInit PROVE PaymentInv
    OBVIOUS
  <1>1. PaymentShape
    BY PaymentAssumption DEF PaymentInit, PaymentShape, PaymentAssumption
  <1>2. IsFiniteSet({}) /\ Cardinality({}) = 0
    BY FS_EmptySet
  <1>3. AtMost({}, 0) /\ AtMost({}, MaxSubmissions)
    BY <1>2, PaymentAssumption DEF AtMost, PaymentAssumption
  <1>4. \A c \in Claims, act \in PaymentActs : audit[c][act] = 0
    BY DEF PaymentInit
  <1>5. \A c \in Claims : /\ audit[c]["submitted"] = 0 /\ audit[c]["approved"] = 0
                          /\ audit[c]["authorized"] = 0 /\ audit[c]["settled"] = 0
    BY <1>4, ActNames
  <1>6. Submissions = {}
    <2>1. \A c \in Claims : 1 .. audit[c]["submitted"] = {}
      BY <1>5
    <2> QED
      BY <2>1 DEF Submissions
  <1>7. \A c \in Claims : ActsInOrder(c)
    BY <1>5 DEF PaymentInit, ActsInOrder, NoClaim
  <1>8. \A c \in Claims : ExecutedFor(c) = {} /\ PaidFor(c) = {}
    BY DEF PaymentInit, ExecutedFor, PaidFor, NoPaymentAuthorization
  <1>9. \A c \in Claims : PaidOut(c)
    BY <1>3, <1>5, <1>8 DEF PaidOut
  <1> QED
    BY <1>1, <1>3, <1>6, <1>7, <1>9 DEF PaymentInv

LEMMA PaymentStep == PaymentInv /\ [PaymentNext]_paymentVars => PaymentInv'
  <1> SUFFICES ASSUME PaymentInv, [PaymentNext]_paymentVars PROVE PaymentInv'
    OBVIOUS
  <1>1. CASE UNCHANGED paymentVars
    BY <1>1 DEF paymentVars, PaymentInv, PaymentShape, ActsInOrder, PaidOut, ExecutedFor,
                PaidFor, Submissions
  <1>2. CASE PaymentNext
    BY <1>2, ClaimSubmitted, ClaimApproved, ClaimAuthorized, OtherAuthorized, OtherSettled,
       ClaimSettled DEF PaymentNext
  <1> QED
    BY <1>1, <1>2

LEMMA PaymentInvHolds == PaymentSpec => []PaymentInv
  BY PaymentStart, PaymentStep, PTL DEF PaymentSpec

(* The stores of claims, authorizations and payables keep their types.     *)
THEOREM PaymentTypeCorrect == PaymentSpec => []PaymentTypeOK
  <1>1. ASSUME PaymentInv PROVE PaymentTypeOK
    <2>1. \A c \in Claims : claims[c].state \in
             {"none", "submitted", "approved", "payment_authorized", "settled"}
      BY <1>1 DEF PaymentInv, PaymentShape, ExpenseClaim, NoClaim
    <2>2. \A a \in AuthorizationIds : payments[a].state \in {"none", "authorized", "executed"}
      BY <1>1 DEF PaymentInv, PaymentShape, PaymentApproval, NoPaymentAuthorization
    <2> QED
      BY <1>1, <2>1, <2>2 DEF PaymentInv, PaymentShape, AtMost, PaymentTypeOK
  <1> QED
    BY <1>1, PaymentInvHolds, PTL

(* For any claims, parties and ids, used again or not: no claim is paid    *)
(* out more often than it was submitted, approved and its payment          *)
(* authorized, each time anew.                                             *)
THEOREM ClaimsArePaidAsApproved == PaymentSpec => []PaymentsFollowApprovals
  <1>1. PaymentInv => PaymentsFollowApprovals
    BY DEF PaymentInv, ActsInOrder, PaidOut, AtMost, ExecutedFor, PaidFor,
           PaymentsFollowApprovals
  <1> QED
    BY <1>1, PaymentInvHolds, PTL

-----------------------------------------------------------------------------
(***************************************************************************)
(* Proofs about FinanceIncome.                                             *)
(***************************************************************************)

IncomeStates == {"received", "quarantined", "assessed", "accepted", "rejected",
                 "return_required", "returned"}

Assessment == [resolved : BOOLEAN, prohibited : BOOLEAN, window : Windows,
               aggregated : SUBSET Contributions]

Gift == [state : IncomeStates, handle : Handles \cup {NoHandle}, at : 1 .. MaxInstant,
         assessment : Assessment \cup {NoAssessment}]

Assessed == {c \in Contributions : contributions[c].state \notin {"none", "received"}}

(* The gift saw the other in the aggregate of its own assessment.          *)
Saw(c, d) == d \in contributions[c].assessment.aggregated

SameGiver(c, d) ==
    /\ contributions[c].handle = contributions[d].handle
    /\ Within(contributions[c].at, contributions[d].assessment.window)
    /\ Within(contributions[d].at, contributions[c].assessment.window)

(* Of two assessed gifts the later assessment saw the other, since a gift  *)
(* that is recorded again loses its assessment; acceptance stands on the   *)
(* assessment of the moment.                                               *)
IncomeInv ==
    /\ recorded \in 0 .. MaxRecorded
    /\ contributions \in [Contributions -> Gift \cup {NoContribution}]
    /\ \A c \in Assessed : contributions[c].assessment \in Assessment
    /\ \A c, d \in Assessed : SameGiver(c, d) => Saw(c, d) \/ Saw(d, c)
    /\ \A c \in Accepted : Acceptable(c)

LEMMA IncomeStateNames ==
  /\ {"received"} \cup {t[2] : t \in Transitions} = IncomeStates
  /\ \A s, t : <<s, t>> \in Transitions =>
        /\ s \in IncomeStates /\ t \in IncomeStates /\ t # "received"
        /\ t = "accepted" => s = "assessed"
        /\ s = "received" => t \in {"quarantined", "assessed"}
  BY DEF Transitions, IncomeStates

(* A new record in the place of one gift.                                  *)
LEMMA GiftReplaced ==
  ASSUME NEW c \in Contributions, NEW new \in Gift,
         contributions \in [Contributions -> Gift \cup {NoContribution}],
         contributions' = [contributions EXCEPT ![c] = new]
  PROVE  /\ contributions' \in [Contributions -> Gift \cup {NoContribution}]
         /\ contributions'[c] = new
         /\ \A d \in Contributions : d # c => contributions'[d] = contributions[d]
  OBVIOUS

LEMMA Recorded ==
  ASSUME IncomeInv, NEW c \in Contributions, NEW handle \in Handles \cup {NoHandle},
         NEW at \in 1 .. MaxInstant, RecordContribution(c, handle, at)
  PROVE  IncomeInv'
  <1> DEFINE new == [state |-> "received", handle |-> handle, at |-> at,
                     assessment |-> NoAssessment]
  <1>1. new \in Gift /\ new.state = "received"
    BY DEF Gift, IncomeStates
  <1>2. contributions' = [contributions EXCEPT ![c] = new]
    BY DEF RecordContribution
  <1> HIDE DEF new
  <1>3. /\ contributions' \in [Contributions -> Gift \cup {NoContribution}]
        /\ contributions'[c] = new
        /\ \A d \in Contributions : d # c => contributions'[d] = contributions[d]
    BY <1>1, <1>2, GiftReplaced DEF IncomeInv
  <1>4. recorded' \in 0 .. MaxRecorded
    BY IncomeAssumption DEF IncomeInv, RecordContribution, IncomeAssumption
  <1>5. Assessed' = Assessed \ {c} /\ Accepted' = Accepted \ {c}
    BY <1>1, <1>3 DEF Assessed, Accepted
  <1>6. /\ \A d \in Assessed' : d # c /\ d \in Assessed /\ contributions'[d] = contributions[d]
        /\ \A d \in Accepted' : d # c /\ d \in Accepted /\ contributions'[d] = contributions[d]
    BY <1>3, <1>5 DEF Assessed, Accepted
  <1>7. (\A d \in Assessed : contributions[d].assessment \in Assessment)'
    BY <1>6 DEF IncomeInv
  <1>8. (\A d, e \in Assessed : SameGiver(d, e) => Saw(d, e) \/ Saw(e, d))'
    BY <1>6 DEF IncomeInv, SameGiver, Saw
  <1>9. (\A d \in Accepted : Acceptable(d))'
    BY <1>6 DEF IncomeInv, Acceptable
  <1> QED
    BY <1>3, <1>4, <1>7, <1>8, <1>9 DEF IncomeInv

LEMMA GiftAssessed ==
  ASSUME IncomeInv, NEW c \in Contributions, NEW w \in Windows,
         NEW resolved \in BOOLEAN, NEW prohibited \in BOOLEAN,
         AssessContribution(c, w, resolved, prohibited)
  PROVE  IncomeInv'
  <1> DEFINE state == IF resolved THEN "assessed" ELSE "quarantined"
             handle == contributions[c].handle
             finding == [resolved |-> resolved, prohibited |-> prohibited, window |-> w,
                         aggregated |-> Aggregate(handle, w)]
             new == [contributions[c] EXCEPT !.state = state, !.assessment = finding]
  <1>1. contributions[c] \in Gift
    <2>1. contributions[c].state \in IncomeStates
      BY IncomeStateNames DEF AssessContribution, MayTurn
    <2> QED
      BY <2>1 DEF IncomeInv, NoContribution, IncomeStates
  <1>2. finding \in Assessment /\ finding.window = w /\ finding.aggregated = Aggregate(handle, w)
    BY DEF Assessment, Aggregate
  <1>3. state \in IncomeStates \ {"received", "accepted"}
    BY DEF IncomeStates
  <1> HIDE DEF state, finding
  <1>4. /\ new \in Gift
        /\ new.state = state /\ new.assessment = finding
        /\ new.handle = contributions[c].handle /\ new.at = contributions[c].at
    BY <1>1, <1>2, <1>3 DEF Gift
  <1>5. contributions' = [contributions EXCEPT ![c] = new]
    BY DEF AssessContribution, IncomeInv, state, finding
  <1> HIDE DEF new
  <1>6. /\ contributions' \in [Contributions -> Gift \cup {NoContribution}]
        /\ contributions'[c] = new
        /\ \A d \in Contributions : d # c => contributions'[d] = contributions[d]
    BY <1>4, <1>5, GiftReplaced DEF IncomeInv
  <1>7. recorded' \in 0 .. MaxRecorded
    BY DEF IncomeInv, AssessContribution
  <1>8. /\ \A d \in Assessed' : d # c => d \in Assessed /\ contributions'[d] = contributions[d]
        /\ \A d \in Accepted' : d # c /\ d \in Accepted /\ contributions'[d] = contributions[d]
    BY <1>3, <1>4, <1>6 DEF Assessed, Accepted
  <1>9. (\A d \in Assessed : contributions[d].assessment \in Assessment)'
    BY <1>2, <1>4, <1>6, <1>8 DEF IncomeInv
  <1>10. (\A d \in Accepted : Acceptable(d))'
    BY <1>8 DEF IncomeInv, Acceptable
  <1>11. ASSUME NEW d \in Assessed',
                contributions'[d].handle = contributions'[c].handle,
                Within(contributions'[d].at, w)
         PROVE  d \in Aggregate(handle, w)
    <2>1. d \in Contributions /\ contributions[d].handle = handle
          /\ Within(contributions[d].at, w)
      BY <1>4, <1>6, <1>11 DEF Assessed
    <2>2. contributions[d] # NoContribution
      <3>1. CASE d = c
        BY <3>1, <1>1 DEF Gift, IncomeStates, NoContribution
      <3>2. CASE d # c
        BY <3>2, <1>8 DEF Assessed, NoContribution
      <3> QED
        BY <3>1, <3>2
    <2> QED
      BY <2>1, <2>2 DEF Aggregate
  <1>12. (\A d, e \in Assessed : SameGiver(d, e) => Saw(d, e) \/ Saw(e, d))'
    <2> SUFFICES ASSUME NEW d \in Assessed', NEW e \in Assessed', SameGiver(d, e)'
                 PROVE  Saw(d, e)' \/ Saw(e, d)'
      OBVIOUS
    <2>1. CASE d = c
      BY <2>1, <1>2, <1>4, <1>6, <1>11 DEF SameGiver, Saw
    <2>2. CASE e = c
      BY <2>2, <1>2, <1>4, <1>6, <1>11 DEF SameGiver, Saw
    <2>3. CASE d # c /\ e # c
      BY <2>3, <1>8 DEF IncomeInv, SameGiver, Saw
    <2> QED
      BY <2>1, <2>2, <2>3
  <1> QED
    BY <1>6, <1>7, <1>9, <1>10, <1>12 DEF IncomeInv

LEMMA GiftDecided ==
  ASSUME IncomeInv, NEW c \in Contributions,
         NEW decision \in {"accepted", "rejected", "return_required", "returned"},
         DecideContribution(c, decision)
  PROVE  IncomeInv'
  <1> DEFINE new == [contributions[c] EXCEPT !.state = decision]
  <1>1. contributions[c].state \in IncomeStates /\ contributions[c].state # "received"
    BY IncomeStateNames DEF DecideContribution, MayTurn
  <1>2. contributions[c] \in Gift /\ c \in Assessed
    BY <1>1 DEF IncomeInv, NoContribution, IncomeStates, Assessed
  <1>3. decision \in IncomeStates \ {"received"}
    BY DEF IncomeStates
  <1>4. /\ new \in Gift
        /\ new.state = decision /\ new.assessment = contributions[c].assessment
        /\ new.handle = contributions[c].handle /\ new.at = contributions[c].at
    BY <1>2, <1>3 DEF Gift
  <1>5. contributions' = [contributions EXCEPT ![c] = new]
    BY DEF DecideContribution, IncomeInv
  <1> HIDE DEF new
  <1>6. /\ contributions' \in [Contributions -> Gift \cup {NoContribution}]
        /\ contributions'[c] = new
        /\ \A d \in Contributions : d # c => contributions'[d] = contributions[d]
    BY <1>4, <1>5, GiftReplaced DEF IncomeInv
  <1>7. recorded' \in 0 .. MaxRecorded
    BY DEF IncomeInv, DecideContribution
  <1>8. /\ \A d \in Contributions :
              /\ contributions'[d].assessment = contributions[d].assessment
              /\ contributions'[d].handle = contributions[d].handle
              /\ contributions'[d].at = contributions[d].at
        /\ \A d \in Assessed' : d \in Contributions /\ d \in Assessed
    BY <1>2, <1>4, <1>6 DEF Assessed
  <1>9. (\A d \in Assessed : contributions[d].assessment \in Assessment)'
    BY <1>8 DEF IncomeInv
  <1>10. (\A d, e \in Assessed : SameGiver(d, e) => Saw(d, e) \/ Saw(e, d))'
    BY <1>8 DEF IncomeInv, SameGiver, Saw
  <1>11. \A d \in Accepted' : d \in Contributions /\ (d # c => d \in Accepted)
    BY <1>6 DEF Accepted
  <1>12. (\A d \in Accepted : Acceptable(d))'
    <2> SUFFICES ASSUME NEW d \in Accepted' PROVE Acceptable(d)'
      OBVIOUS
    <2>1. CASE d = c
      <3>1. decision = "accepted"
        BY <2>1, <1>4, <1>6 DEF Accepted
      <3>2. Acceptable(c)
        BY <3>1 DEF DecideContribution
      <3> QED
        BY <2>1, <3>2, <1>8 DEF Acceptable
    <2>2. CASE d # c
      BY <2>2, <1>8, <1>11 DEF IncomeInv, Acceptable
    <2> QED
      BY <2>1, <2>2
  <1> QED
    BY <1>6, <1>7, <1>9, <1>10, <1>12 DEF IncomeInv

LEMMA IncomeStart == IncomeInit => IncomeInv
  <1> SUFFICES ASSUME IncomeInit PROVE IncomeInv
    OBVIOUS
  <1>1. \A c \in Contributions : contributions[c].state = "none"
    BY DEF IncomeInit, NoContribution
  <1>2. Assessed = {} /\ Accepted = {}
    BY <1>1 DEF Assessed, Accepted
  <1> QED
    BY <1>2, IncomeAssumption DEF IncomeInit, IncomeInv, IncomeAssumption

LEMMA IncomeStep == IncomeInv /\ [IncomeNext]_incomeVars => IncomeInv'
  <1> SUFFICES ASSUME IncomeInv, [IncomeNext]_incomeVars PROVE IncomeInv'
    OBVIOUS
  <1>1. CASE UNCHANGED incomeVars
    BY <1>1 DEF incomeVars, IncomeInv, Assessed, Accepted, Acceptable, SameGiver, Saw
  <1>2. CASE IncomeNext
    BY <1>2, Recorded, GiftAssessed, GiftDecided DEF IncomeNext
  <1> QED
    BY <1>1, <1>2

LEMMA IncomeInvHolds == IncomeSpec => []IncomeInv
  BY IncomeStart, IncomeStep, PTL DEF IncomeSpec

(* The store of contributions keeps its types.                             *)
THEOREM IncomeTypeCorrect == IncomeSpec => []IncomeTypeOK
  <1>1. IncomeInv => IncomeTypeOK
    BY IncomeStateNames DEF IncomeInv, IncomeTypeOK, Gift
  <1> QED
    BY <1>1, IncomeInvHolds, PTL

(* For any contributions, givers and instants: of two accepted gifts of    *)
(* one giver, each within the other's window, one was assessed over an     *)
(* aggregate with the other in it, and no gift stands accepted on a        *)
(* finding that is unresolved or prohibits it.                             *)
THEOREM GiftsAreAggregated == IncomeSpec => []NoGiftEscapesTheAggregate
  <1>1. IncomeInv => NoGiftEscapesTheAggregate
    <2> SUFFICES ASSUME IncomeInv, NEW c \in Accepted, NEW d \in Accepted
                 PROVE  /\ Acceptable(c)
                        /\ SameGiver(c, d) => Saw(c, d) \/ Saw(d, c)
      BY DEF NoGiftEscapesTheAggregate, Acceptable, SameGiver, Saw
    <2>1. c \in Assessed /\ d \in Assessed
      BY DEF Accepted, Assessed
    <2> QED
      BY <2>1 DEF IncomeInv
  <1> QED
    BY <1>1, IncomeInvHolds, PTL

-----------------------------------------------------------------------------
(***************************************************************************)
(* Proofs about FinanceLedger.                                             *)
(***************************************************************************)

ReopeningRecord ==
    [period : Periods, requester : Authorities, approver : Authorities,
     digest : [interval : Intervals, reopenings : Nat]]

LedgerShape ==
    /\ accounts \in [Accounts -> {"none", "draft", "active", "restricted", "closed"}]
    /\ periods \in [Periods -> PeriodRecord \cup {NoPeriod}]
    /\ reopeningRecords \subseteq ReopeningRecord
    /\ numbers \in [Periods -> 0 .. MaxNumber]
    /\ commands \in 0 .. MaxCommands
    /\ journal \in [JournalIds -> JournalEntry \cup {NoEntry}]

(* Entries are numbered when they are posted, and not before.              *)
NumberedWhenPosted ==
    \A e \in JournalIds : journal[e] # NoEntry => (journal[e].number = 0 <=> ~Immutable(e))

LedgerInv ==
    /\ LedgerShape
    /\ NumberedWhenPosted
    /\ ReversedAtMostOnce
    /\ ReversalsAreOpposite

(* What a step may do to the books.                                        *)
PostingsKept ==
    \A e \in JournalIds : Immutable(e) =>
        journal'[e] \in {journal[e], [journal[e] EXCEPT !.status = "reversed"]}

ClosedPeriodsKept ==
    \A p \in Periods : periods[p].status = "closed" /\ periods'[p].status = "closed" =>
        Effective(p)' = Effective(p)

StepKeepsBooks == PostingsKept /\ ClosedPeriodsKept

(* Steps that leave the journal alone.                                     *)
LEMMA JournalUntouched ==
  ASSUME LedgerInv, LedgerShape', journal' = journal
  PROVE  LedgerInv' /\ StepKeepsBooks
  <1>1. NumberedWhenPosted'
    BY DEF LedgerInv, NumberedWhenPosted, Immutable
  <1>2. ReversedAtMostOnce' /\ ReversalsAreOpposite'
    BY DEF LedgerInv, ReversedAtMostOnce, ReversalsAreOpposite, Reversals
  <1>3. PostingsKept /\ ClosedPeriodsKept
    BY DEF PostingsKept, ClosedPeriodsKept, Effective, Immutable
  <1> QED
    BY <1>1, <1>2, <1>3 DEF LedgerInv, StepKeepsBooks

LEMMA CarryCounts ==
  ASSUME LedgerShape, Carry
  PROVE  commands' \in 0 .. MaxCommands
  BY LedgerAssumption DEF LedgerShape, Carry, LedgerAssumption

(* Neither a number allocated nor the status of a period is out of range.  *)
LEMMA NumbersStay ==
  ASSUME LedgerShape, NEW e \in JournalIds, Numbered(e)
  PROVE  /\ journal[e] \in JournalEntry
         /\ numbers' \in [Periods -> 0 .. MaxNumber]
         /\ numbers'[journal[e].period] \in 1 .. MaxNumber
         /\ periods[journal[e].period].status # "closed"
  <1>1. journal[e] \in JournalEntry
    BY DEF LedgerShape, Numbered
  <1>2. journal[e].period \in Periods
    BY <1>1 DEF JournalEntry
  <1>3. numbers \in [Periods -> 0 .. MaxNumber] /\ MaxNumber \in Nat
    BY LedgerAssumption DEF LedgerShape, LedgerAssumption
  <1> DEFINE p == journal[e].period
  <1>4. numbers' = [numbers EXCEPT ![p] = @ + 1] /\ numbers[p] < MaxNumber
    BY DEF Numbered
  <1> HIDE DEF p
  <1>5. p \in Periods
    BY <1>2 DEF p
  <1>6. numbers[p] + 1 \in 1 .. MaxNumber
    BY <1>3, <1>4, <1>5
  <1>7. numbers' \in [Periods -> 0 .. MaxNumber] /\ numbers'[p] \in 1 .. MaxNumber
    BY <1>3, <1>4, <1>5, <1>6
  <1>8. periods[journal[e].period].status # "closed"
    BY DEF Numbered, PostableStatuses
  <1> QED
    BY <1>1, <1>7, <1>8 DEF p

LEMMA PeriodReplaced ==
  ASSUME LedgerShape, NEW p \in Periods, NEW new \in PeriodRecord,
         periods' = [periods EXCEPT ![p] = new]
  PROVE  periods' \in [Periods -> PeriodRecord \cup {NoPeriod}]
  BY DEF LedgerShape

(* Accounts, periods, reopenings and refused postings.                     *)
LEMMA RegistersMove ==
  ASSUME LedgerInv,
         \/ \E a \in Accounts : CreateAccount(a)
                                \/ \E target \in {"active", "restricted", "closed"} :
                                      ChangeAccountStatus(a, target)
         \/ \E p \in Periods : ClosePeriod(p) \/ \E i \in Intervals : OpenPeriod(p, i)
         \/ \E p \in Periods, x, y \in Authorities : RequestReopening(p, x, y)
         \/ \E record \in reopeningRecords, actor \in Authorities : ReopenPeriod(record, actor)
         \/ \E e \in JournalIds : PostAgainRefused(e)
  PROVE  LedgerInv' /\ StepKeepsBooks
  <1>0. LedgerShape
    BY DEF LedgerInv
  <1>1. ASSUME NEW a \in Accounts, CreateAccount(a) PROVE LedgerShape' /\ journal' = journal
    <2>1. commands' \in 0 .. MaxCommands
      BY <1>0, <1>1, CarryCounts DEF CreateAccount
    <2> QED
      BY <1>0, <1>1, <2>1 DEF LedgerShape, CreateAccount
  <1>2. ASSUME NEW a \in Accounts, NEW target \in {"active", "restricted", "closed"},
               ChangeAccountStatus(a, target)
        PROVE  LedgerShape' /\ journal' = journal
    <2>1. commands' \in 0 .. MaxCommands
      BY <1>0, <1>2, CarryCounts DEF ChangeAccountStatus
    <2> QED
      BY <1>0, <1>2, <2>1 DEF LedgerShape, ChangeAccountStatus
  <1>3. ASSUME NEW p \in Periods, ClosePeriod(p) PROVE LedgerShape' /\ journal' = journal
    <2>1. commands' \in 0 .. MaxCommands
      BY <1>0, <1>3, CarryCounts DEF ClosePeriod
    <2> DEFINE new == [periods[p] EXCEPT !.status = "closed"]
    <2>2. periods[p] \in PeriodRecord
      BY <1>0, <1>3 DEF LedgerShape, ClosePeriod, NoPeriod
    <2>3. new \in PeriodRecord
      BY <2>2 DEF PeriodRecord
    <2>4. periods' = [periods EXCEPT ![p] = new]
      BY <1>0, <1>3 DEF LedgerShape, ClosePeriod
    <2> HIDE DEF new
    <2>5. periods' \in [Periods -> PeriodRecord \cup {NoPeriod}]
      BY <1>0, <2>3, <2>4, PeriodReplaced
    <2> QED
      BY <1>0, <1>3, <2>1, <2>5 DEF LedgerShape, ClosePeriod
  <1>4. ASSUME NEW p \in Periods, NEW i \in Intervals, OpenPeriod(p, i)
        PROVE  LedgerShape' /\ journal' = journal
    <2>1. commands' \in 0 .. MaxCommands
      BY <1>0, <1>4, CarryCounts DEF OpenPeriod
    <2> DEFINE new == [status |-> "open", interval |-> i, reopenings |-> 0]
    <2>2. new \in PeriodRecord
      BY DEF PeriodRecord
    <2>3. periods' = [periods EXCEPT ![p] = new]
      BY <1>4 DEF OpenPeriod
    <2> HIDE DEF new
    <2>4. periods' \in [Periods -> PeriodRecord \cup {NoPeriod}]
      BY <1>0, <2>2, <2>3, PeriodReplaced
    <2> QED
      BY <1>0, <1>4, <2>1, <2>4 DEF LedgerShape, OpenPeriod
  <1>5. ASSUME NEW p \in Periods, NEW x \in Authorities, NEW y \in Authorities,
               RequestReopening(p, x, y)
        PROVE  LedgerShape' /\ journal' = journal
    <2>1. commands' \in 0 .. MaxCommands
      BY <1>0, <1>5, CarryCounts DEF RequestReopening
    <2>2. periods[p] \in PeriodRecord
      BY <1>0, <1>5 DEF LedgerShape, RequestReopening, NoPeriod
    <2>3. Digest(p) \in [interval : Intervals, reopenings : Nat]
      BY <2>2 DEF PeriodRecord, Digest
    <2>4. [period |-> p, requester |-> x, approver |-> y, digest |-> Digest(p)]
            \in ReopeningRecord
      BY <2>3 DEF ReopeningRecord
    <2>5. reopeningRecords' \subseteq ReopeningRecord
      BY <1>0, <1>5, <2>4 DEF LedgerShape, RequestReopening
    <2> QED
      BY <1>0, <1>5, <2>1, <2>5 DEF LedgerShape, RequestReopening
  <1>6. ASSUME NEW record \in reopeningRecords, NEW actor \in Authorities,
               ReopenPeriod(record, actor)
        PROVE  LedgerShape' /\ journal' = journal
    <2> DEFINE p == record.period
               new == [periods[p] EXCEPT !.status = "reopened", !.reopenings = @ + 1]
    <2>1. commands' \in 0 .. MaxCommands
      BY <1>0, <1>6, CarryCounts DEF ReopenPeriod
    <2>2. p \in Periods
      BY <1>0 DEF LedgerShape, ReopeningRecord
    <2>3. periods[p] \in PeriodRecord
      BY <1>0, <1>6, <2>2 DEF LedgerShape, ReopenPeriod, NoPeriod
    <2>4. new \in PeriodRecord
      <3>1. periods[p].reopenings + 1 \in Nat
        BY <2>3 DEF PeriodRecord
      <3> DEFINE n == periods[p].reopenings + 1
                 old == periods[p]
      <3> HIDE DEF n, old
      <3>2. [old EXCEPT !.status = "reopened", !.reopenings = n] \in PeriodRecord
        BY <2>3, <3>1 DEF PeriodRecord, old, n
      <3> QED
        BY <3>2 DEF n, old
    <2>5. periods' = [periods EXCEPT ![p] = new]
      BY <1>0, <1>6, <2>2 DEF LedgerShape, ReopenPeriod
    <2> HIDE DEF new, p
    <2>6. periods' \in [Periods -> PeriodRecord \cup {NoPeriod}]
      BY <1>0, <2>2, <2>4, <2>5, PeriodReplaced
    <2> QED
      BY <1>0, <1>6, <2>1, <2>6 DEF LedgerShape, ReopenPeriod
  <1>7. ASSUME NEW e \in JournalIds, PostAgainRefused(e) PROVE LedgerShape' /\ journal' = journal
    <2>1. numbers' \in [Periods -> 0 .. MaxNumber]
      BY <1>0, <1>7, NumbersStay DEF PostAgainRefused
    <2> QED
      BY <1>0, <1>7, <2>1 DEF LedgerShape, PostAgainRefused
  <1> QED
    BY <1>1, <1>2, <1>3, <1>4, <1>5, <1>6, <1>7, JournalUntouched

LEMMA DraftsAreEntries ==
  ASSUME NEW p \in Periods, NEW lines \in Lines, NEW x \in JournalIds \cup {NoLink},
         NEW y \in JournalIds \cup {NoLink}
  PROVE  /\ Draft(p, lines, x, y) \in JournalEntry
         /\ Draft(p, lines, x, y) # NoEntry
         /\ Draft(p, lines, x, y).status = "draft"
         /\ Draft(p, lines, x, y).number = 0
         /\ Draft(p, lines, x, y).reverses = x
         /\ Draft(p, lines, x, y).lines = lines
         /\ Draft(p, lines, x, y).period = p
  BY LedgerAssumption DEF Draft, JournalEntry, NoEntry, LedgerAssumption

(* A draft that reverses nothing, under an id that holds no posting.       *)
LEMMA DraftStored ==
  ASSUME LedgerInv, NEW e \in JournalIds, ~Immutable(e), NEW new \in JournalEntry,
         new # NoEntry, new.status = "draft", new.number = 0, new.reverses = NoLink,
         journal' = [journal EXCEPT ![e] = new],
         UNCHANGED <<accounts, periods, reopeningRecords, numbers>>,
         commands' \in 0 .. MaxCommands
  PROVE  LedgerInv' /\ StepKeepsBooks
  <1>1. LedgerShape /\ journal \in [JournalIds -> JournalEntry \cup {NoEntry}]
    BY DEF LedgerInv, LedgerShape
  <1>2. /\ journal' \in [JournalIds -> JournalEntry \cup {NoEntry}]
        /\ journal'[e] = new
        /\ \A d \in JournalIds : d # e => journal'[d] = journal[d]
    BY <1>1
  <1>3. LedgerShape'
    BY <1>1, <1>2 DEF LedgerShape
  <1>4. NumberedWhenPosted'
    BY <1>2 DEF LedgerInv, NumberedWhenPosted, Immutable
  <1>5. \A r \in Reversals' : r # e /\ r \in Reversals /\ journal'[r] = journal[r]
    BY <1>2 DEF Reversals
  <1>6. ReversedAtMostOnce'
    BY <1>5 DEF LedgerInv, ReversedAtMostOnce
  <1>7. ReversalsAreOpposite'
    <2> SUFFICES ASSUME NEW r \in Reversals'
                 PROVE  /\ journal'[journal'[r].reverses].status = "reversed"
                        /\ journal'[r].lines = Opposite(journal'[journal'[r].reverses].lines)
                        /\ journal'[r].period = journal'[journal'[r].reverses].period
      BY DEF ReversalsAreOpposite
    <2>1. journal[r] \in JournalEntry /\ journal[r].reverses # NoLink
      BY <1>1, <1>5 DEF Reversals
    <2>2. journal[r].reverses \in JournalIds
      BY <2>1 DEF JournalEntry
    <2>3. /\ journal[journal[r].reverses].status = "reversed"
          /\ journal[r].lines = Opposite(journal[journal[r].reverses].lines)
          /\ journal[r].period = journal[journal[r].reverses].period
      BY <1>5 DEF LedgerInv, ReversalsAreOpposite
    <2>4. journal[r].reverses # e
      BY <2>3 DEF Immutable
    <2> QED
      BY <1>2, <1>5, <2>2, <2>3, <2>4
  <1>8. PostingsKept
    BY <1>2 DEF PostingsKept
  <1>9. \A p \in Periods : Effective(p)' = Effective(p)
    BY <1>2 DEF Effective, Immutable
  <1> QED
    BY <1>3, <1>4, <1>6, <1>7, <1>8, <1>9 DEF LedgerInv, StepKeepsBooks, ClosedPeriodsKept

LEMMA Drafted ==
  ASSUME LedgerInv, NEW e \in JournalIds, NEW p \in Periods, NEW lines \in Lines,
         DraftEntry(e, p, lines)
  PROVE  LedgerInv' /\ StepKeepsBooks
  <1> DEFINE new == Draft(p, lines, NoLink, NoLink)
  <1>1. NoLink \in JournalIds \cup {NoLink}
    OBVIOUS
  <1>2. /\ new \in JournalEntry /\ new # NoEntry /\ new.status = "draft" /\ new.number = 0
        /\ new.reverses = NoLink
    BY <1>1, DraftsAreEntries
  <1>3. /\ journal' = [journal EXCEPT ![e] = new] /\ ~Immutable(e)
        /\ UNCHANGED <<accounts, periods, reopeningRecords, numbers>>
    BY DEF DraftEntry
  <1>4. commands' \in 0 .. MaxCommands
    BY CarryCounts DEF DraftEntry, LedgerInv
  <1> HIDE DEF new
  <1> QED
    BY <1>2, <1>3, <1>4, DraftStored

LEMMA Corrected ==
  ASSUME LedgerInv, NEW e \in JournalIds, NEW r \in JournalIds, NEW p \in Periods,
         NEW lines \in Lines, CorrectEntry(e, r, p, lines)
  PROVE  LedgerInv' /\ StepKeepsBooks
  <1> DEFINE new == Draft(p, lines, NoLink, e)
  <1>1. NoLink \in JournalIds \cup {NoLink} /\ e \in JournalIds \cup {NoLink}
    OBVIOUS
  <1>2. /\ new \in JournalEntry /\ new # NoEntry /\ new.status = "draft" /\ new.number = 0
        /\ new.reverses = NoLink
    BY <1>1, DraftsAreEntries
  <1>3. /\ journal' = [journal EXCEPT ![r] = new] /\ ~Immutable(r)
        /\ UNCHANGED <<accounts, periods, reopeningRecords, numbers>>
    BY DEF CorrectEntry
  <1>4. commands' \in 0 .. MaxCommands
    BY CarryCounts DEF CorrectEntry, LedgerInv
  <1> HIDE DEF new
  <1> QED
    BY <1>2, <1>3, <1>4, DraftStored

(* A posting is of a draft, into a period that is not closed.              *)
LEMMA EntryPosted ==
  ASSUME LedgerInv, NEW e \in JournalIds, PostEntry(e)
  PROVE  LedgerInv' /\ StepKeepsBooks
  <1> DEFINE n == numbers'[journal[e].period]
             new == [journal[e] EXCEPT !.status = "posted", !.number = n]
  <1>1. LedgerShape /\ journal \in [JournalIds -> JournalEntry \cup {NoEntry}]
    BY DEF LedgerInv, LedgerShape
  <1>2. /\ journal[e] \in JournalEntry
        /\ numbers' \in [Periods -> 0 .. MaxNumber]
        /\ n \in 1 .. MaxNumber
        /\ periods[journal[e].period].status # "closed"
    BY <1>1, NumbersStay DEF PostEntry
  <1>3. MaxNumber \in Nat
    BY LedgerAssumption DEF LedgerAssumption
  <1>4. journal[e].status = "draft" /\ journal' = [journal EXCEPT ![e] = new]
    BY <1>1 DEF PostEntry
  <1> HIDE DEF n
  <1>5. /\ new \in JournalEntry /\ new # NoEntry /\ new.status = "posted" /\ new.number # 0
        /\ new.reverses = journal[e].reverses /\ new.lines = journal[e].lines
        /\ new.period = journal[e].period
    <2>1. n \in 0 .. MaxNumber /\ n # 0
      BY <1>2, <1>3
    <2> QED
      BY <1>2, <2>1 DEF JournalEntry, NoEntry
  <1> HIDE DEF new
  <1>6. /\ journal' \in [JournalIds -> JournalEntry \cup {NoEntry}]
        /\ journal'[e] = new
        /\ \A d \in JournalIds : d # e => journal'[d] = journal[d]
    BY <1>1, <1>4, <1>5
  <1>7. commands' \in 0 .. MaxCommands /\ UNCHANGED <<accounts, periods, reopeningRecords>>
    BY <1>1, CarryCounts DEF PostEntry
  <1>8. LedgerShape'
    BY <1>1, <1>2, <1>6, <1>7 DEF LedgerShape
  <1>9. NumberedWhenPosted'
    BY <1>5, <1>6 DEF LedgerInv, NumberedWhenPosted, Immutable
  <1>10. \A r \in JournalIds : /\ journal[r] # NoEntry <=> journal'[r] # NoEntry
                               /\ journal'[r].reverses = journal[r].reverses
                               /\ journal'[r].lines = journal[r].lines
                               /\ journal'[r].period = journal[r].period
    BY <1>2, <1>4, <1>5, <1>6 DEF NoEntry
  <1>11. Reversals' = Reversals /\ \A r \in Reversals : r \in JournalIds
    BY <1>10 DEF Reversals
  <1>12. ReversedAtMostOnce'
    BY <1>10, <1>11 DEF LedgerInv, ReversedAtMostOnce
  <1>13. ReversalsAreOpposite'
    <2> SUFFICES ASSUME NEW r \in Reversals
                 PROVE  /\ journal'[journal'[r].reverses].status = "reversed"
                        /\ journal'[r].lines = Opposite(journal'[journal'[r].reverses].lines)
                        /\ journal'[r].period = journal'[journal'[r].reverses].period
      BY <1>11 DEF ReversalsAreOpposite
    <2>1. r \in JournalIds /\ journal[r] \in JournalEntry /\ journal[r].reverses # NoLink
      BY <1>1 DEF Reversals
    <2>2. journal[r].reverses \in JournalIds
      BY <2>1 DEF JournalEntry
    <2>3. /\ journal[journal[r].reverses].status = "reversed"
          /\ journal[r].lines = Opposite(journal[journal[r].reverses].lines)
          /\ journal[r].period = journal[journal[r].reverses].period
      BY DEF LedgerInv, ReversalsAreOpposite
    <2>4. journal[r].reverses # e
      BY <1>4, <2>3
    <2>5. journal'[journal[r].reverses] = journal[journal[r].reverses]
      BY <1>6, <2>2, <2>4
    <2> QED
      BY <1>10, <2>1, <2>3, <2>5
  <1>14. PostingsKept
    BY <1>4, <1>6 DEF PostingsKept, Immutable
  <1>15. ClosedPeriodsKept
    <2> SUFFICES ASSUME NEW p \in Periods, periods[p].status = "closed"
                 PROVE  Effective(p)' = Effective(p)
      BY DEF ClosedPeriodsKept
    <2>1. journal[e].period # p
      BY <1>2
    <2> QED
      BY <2>1, <1>5, <1>6 DEF Effective, Immutable
  <1> QED
    BY <1>8, <1>9, <1>12, <1>13, <1>14, <1>15 DEF LedgerInv, StepKeepsBooks

(* The original is marked; whether or not the reversal is stored after it. *)
LEMMA OriginalMarked ==
  ASSUME NEW entry \in JournalEntry, entry.status = "posted"
  PROVE  /\ [entry EXCEPT !.status = "reversed"] \in JournalEntry
         /\ [entry EXCEPT !.status = "reversed"] # NoEntry
         /\ [entry EXCEPT !.status = "reversed"].status = "reversed"
         /\ [entry EXCEPT !.status = "reversed"].number = entry.number
         /\ [entry EXCEPT !.status = "reversed"].reverses = entry.reverses
         /\ [entry EXCEPT !.status = "reversed"].lines = entry.lines
         /\ [entry EXCEPT !.status = "reversed"].period = entry.period
  BY DEF JournalEntry, NoEntry

LEMMA ReversedHalf ==
  ASSUME LedgerInv, NEW e \in JournalIds, NEW r \in JournalIds, ReverseHalf(e, r)
  PROVE  LedgerInv' /\ StepKeepsBooks
  <1> DEFINE new == [journal[e] EXCEPT !.status = "reversed"]
  <1>1. LedgerShape /\ journal \in [JournalIds -> JournalEntry \cup {NoEntry}]
    BY DEF LedgerInv, LedgerShape
  <1>2. journal[e].status = "posted" /\ journal[e] \in JournalEntry
    BY <1>1 DEF ReverseHalf, IsTarget, NoEntry
  <1>3. /\ new \in JournalEntry /\ new # NoEntry /\ new.status = "reversed"
        /\ new.number = journal[e].number /\ new.reverses = journal[e].reverses
        /\ new.lines = journal[e].lines /\ new.period = journal[e].period
    BY <1>2, OriginalMarked
  <1>4. /\ journal' = [journal EXCEPT ![e] = new]
        /\ UNCHANGED <<accounts, periods, reopeningRecords, numbers, commands>>
    BY <1>1 DEF ReverseHalf
  <1>n. journal[e] # NoEntry
    BY <1>2 DEF NoEntry
  <1>p. PostingsKept
    <2>1. /\ journal'[e] = new
          /\ \A d \in JournalIds : d # e => journal'[d] = journal[d]
      BY <1>1, <1>4
    <2> QED
      BY <2>1 DEF PostingsKept
  <1> HIDE DEF new
  <1>5. /\ journal' \in [JournalIds -> JournalEntry \cup {NoEntry}]
        /\ journal'[e] = new
        /\ \A d \in JournalIds : d # e => journal'[d] = journal[d]
    BY <1>1, <1>3, <1>4
  <1>6. LedgerShape'
    BY <1>1, <1>4, <1>5 DEF LedgerShape
  <1>7. NumberedWhenPosted'
    BY <1>2, <1>3, <1>5, <1>n DEF LedgerInv, NumberedWhenPosted, Immutable
  <1>8. \A s \in JournalIds : /\ journal[s] # NoEntry <=> journal'[s] # NoEntry
                              /\ journal'[s].reverses = journal[s].reverses
                              /\ journal'[s].lines = journal[s].lines
                              /\ journal'[s].period = journal[s].period
                              /\ journal[s].status = "reversed" => journal'[s].status = "reversed"
                              /\ Immutable(s)' <=> Immutable(s)
    BY <1>2, <1>3, <1>5, <1>n DEF Immutable
  <1>9. Reversals' = Reversals
    BY <1>8 DEF Reversals
  <1>10. ReversedAtMostOnce'
    BY <1>8, <1>9 DEF LedgerInv, ReversedAtMostOnce, Reversals
  <1>11. ReversalsAreOpposite'
    <2> SUFFICES ASSUME NEW s \in Reversals
                 PROVE  /\ journal'[journal'[s].reverses].status = "reversed"
                        /\ journal'[s].lines = Opposite(journal'[journal'[s].reverses].lines)
                        /\ journal'[s].period = journal'[journal'[s].reverses].period
      BY <1>9 DEF ReversalsAreOpposite
    <2>1. s \in JournalIds /\ journal[s] \in JournalEntry /\ journal[s].reverses # NoLink
      BY <1>1 DEF Reversals
    <2>2. journal[s].reverses \in JournalIds
      BY <2>1 DEF JournalEntry
    <2>3. /\ journal[journal[s].reverses].status = "reversed"
          /\ journal[s].lines = Opposite(journal[journal[s].reverses].lines)
          /\ journal[s].period = journal[journal[s].reverses].period
      BY DEF LedgerInv, ReversalsAreOpposite
    <2> QED
      BY <1>8, <2>1, <2>2, <2>3
  <1>12. \A p \in Periods : Effective(p)' = Effective(p)
    BY <1>8 DEF Effective
  <1> QED
    BY <1>6, <1>7, <1>10, <1>11, <1>12, <1>p DEF LedgerInv, StepKeepsBooks, ClosedPeriodsKept

LEMMA EntryReversed ==
  ASSUME LedgerInv, NEW e \in JournalIds, NEW r \in JournalIds, ReverseEntry(e, r)
  PROVE  LedgerInv' /\ StepKeepsBooks
  <1> DEFINE new == [journal[e] EXCEPT !.status = "reversed"]
             reversal == Reversal(e)
  <1>1. LedgerShape /\ journal \in [JournalIds -> JournalEntry \cup {NoEntry}]
    BY DEF LedgerInv, LedgerShape
  <1>2. /\ journal[e].status = "posted" /\ journal[e] \in JournalEntry
        /\ e # r /\ ~Immutable(r)
    BY <1>1 DEF ReverseEntry, IsTarget, NoEntry
  <1>3. /\ new \in JournalEntry /\ new # NoEntry /\ new.status = "reversed"
        /\ new.number = journal[e].number /\ new.reverses = journal[e].reverses
        /\ new.lines = journal[e].lines /\ new.period = journal[e].period
    BY <1>2, OriginalMarked
  <1>4. /\ reversal \in JournalEntry /\ reversal # NoEntry /\ reversal.status = "draft"
        /\ reversal.number = 0 /\ reversal.reverses = e
        /\ reversal.lines = Opposite(journal[e].lines)
        /\ reversal.period = journal[e].period
    <2>1. journal[e].period \in Periods /\ journal[e].lines \in Lines
      BY <1>2 DEF JournalEntry
    <2>2. Opposite(journal[e].lines) \in Lines
      BY <2>1 DEF Lines, Opposite
    <2>3. e \in JournalIds \cup {NoLink} /\ NoLink \in JournalIds \cup {NoLink}
      OBVIOUS
    <2> DEFINE p == journal[e].period
               l == Opposite(journal[e].lines)
    <2> HIDE DEF p, l
    <2>4. /\ Draft(p, l, e, NoLink) \in JournalEntry
          /\ Draft(p, l, e, NoLink) # NoEntry
          /\ Draft(p, l, e, NoLink).status = "draft"
          /\ Draft(p, l, e, NoLink).number = 0
          /\ Draft(p, l, e, NoLink).reverses = e
          /\ Draft(p, l, e, NoLink).lines = l
          /\ Draft(p, l, e, NoLink).period = p
      BY <2>1, <2>2, <2>3, DraftsAreEntries DEF p, l
    <2> QED
      BY <2>4 DEF Reversal, p, l
  <1>5. /\ journal' = [journal EXCEPT ![e].status = "reversed", ![r] = reversal]
        /\ UNCHANGED <<accounts, periods, reopeningRecords, numbers>>
    BY DEF ReverseEntry
  <1>6. journal' = [journal EXCEPT ![e] = new, ![r] = reversal]
    BY <1>1, <1>2, <1>5
  <1>7. /\ journal'[e] = new /\ journal'[r] = reversal
        /\ \A d \in JournalIds : d # e /\ d # r => journal'[d] = journal[d]
    BY <1>1, <1>2, <1>6
  <1>n. journal[e] # NoEntry /\ journal[e].number # 0
    BY <1>2 DEF NoEntry, LedgerInv, NumberedWhenPosted, Immutable
  <1>p. PostingsKept
    BY <1>2, <1>7 DEF PostingsKept
  <1> HIDE DEF new, reversal
  <1>8. journal' \in [JournalIds -> JournalEntry \cup {NoEntry}]
    BY <1>1, <1>3, <1>4, <1>6
  <1>9. commands' \in 0 .. MaxCommands
    BY <1>1, CarryCounts DEF ReverseEntry
  <1>10. LedgerShape'
    BY <1>1, <1>5, <1>8, <1>9 DEF LedgerShape
  <1>11. NumberedWhenPosted'
    BY <1>3, <1>4, <1>7, <1>n DEF LedgerInv, NumberedWhenPosted, Immutable
  <1>12. e # NoLink
    BY LedgerAssumption DEF LedgerAssumption
  <1>13. \A s \in Reversals' : s # r => s \in Reversals /\ journal'[s].reverses = journal[s].reverses
                                       /\ journal'[s].lines = journal[s].lines
                                       /\ journal'[s].period = journal[s].period
    BY <1>3, <1>7, <1>n DEF Reversals
  <1>14. \A s \in Reversals : /\ journal[s].reverses \in JournalIds
                              /\ journal[journal[s].reverses].status = "reversed"
                              /\ journal[s].reverses # e /\ journal[s].reverses # r
    <2> TAKE s \in Reversals
    <2>1. journal[s] \in JournalEntry /\ journal[s].reverses # NoLink
      BY <1>1 DEF Reversals
    <2>2. journal[s].reverses \in JournalIds
      BY <2>1 DEF JournalEntry
    <2>3. journal[journal[s].reverses].status = "reversed"
      BY DEF LedgerInv, ReversalsAreOpposite
    <2> QED
      BY <1>2, <2>2, <2>3 DEF Immutable
  <1>15. ReversedAtMostOnce'
    <2> SUFFICES ASSUME NEW s \in Reversals', NEW t \in Reversals',
                        journal'[s].reverses = journal'[t].reverses
                 PROVE  s = t
      BY DEF ReversedAtMostOnce
    <2>1. CASE s = r /\ t # r
      BY <2>1, <1>4, <1>7, <1>13, <1>14
    <2>2. CASE s # r /\ t = r
      BY <2>2, <1>4, <1>7, <1>13, <1>14
    <2>3. CASE s # r /\ t # r
      BY <2>3, <1>13 DEF LedgerInv, ReversedAtMostOnce
    <2> QED
      BY <2>1, <2>2, <2>3
  <1>16. ReversalsAreOpposite'
    <2> SUFFICES ASSUME NEW s \in Reversals'
                 PROVE  /\ journal'[journal'[s].reverses].status = "reversed"
                        /\ journal'[s].lines = Opposite(journal'[journal'[s].reverses].lines)
                        /\ journal'[s].period = journal'[journal'[s].reverses].period
      BY DEF ReversalsAreOpposite
    <2>1. CASE s = r
      BY <2>1, <1>3, <1>4, <1>7
    <2>2. CASE s # r
      <3>1. /\ journal[s].lines = Opposite(journal[journal[s].reverses].lines)
            /\ journal[s].period = journal[journal[s].reverses].period
        BY <2>2, <1>13 DEF LedgerInv, ReversalsAreOpposite
      <3>2. journal'[journal[s].reverses] = journal[journal[s].reverses]
        BY <2>2, <1>7, <1>13, <1>14
      <3> QED
        BY <2>2, <3>1, <3>2, <1>13, <1>14
    <2> QED
      BY <2>1, <2>2
  <1>17. \A p \in Periods : Effective(p)' = Effective(p)
    BY <1>2, <1>3, <1>4, <1>7 DEF Effective, Immutable
  <1> QED
    BY <1>10, <1>11, <1>15, <1>16, <1>17, <1>p DEF LedgerInv, StepKeepsBooks, ClosedPeriodsKept

LEMMA LedgerStart == LedgerInit => LedgerInv
  <1> SUFFICES ASSUME LedgerInit PROVE LedgerInv
    OBVIOUS
  <1>1. LedgerShape
    BY LedgerAssumption DEF LedgerInit, LedgerShape, LedgerAssumption
  <1>2. Reversals = {}
    BY DEF LedgerInit, Reversals
  <1>3. NumberedWhenPosted
    BY DEF LedgerInit, NumberedWhenPosted
  <1> QED
    BY <1>1, <1>2, <1>3 DEF LedgerInv, ReversedAtMostOnce, ReversalsAreOpposite

LEMMA LedgerStep ==
  LedgerInv /\ [LedgerNext]_ledgerVars => LedgerInv' /\ StepKeepsBooks
  <1> SUFFICES ASSUME LedgerInv, [LedgerNext]_ledgerVars PROVE LedgerInv' /\ StepKeepsBooks
    OBVIOUS
  <1>1. CASE UNCHANGED ledgerVars
    <2>1. LedgerShape' /\ journal' = journal
      BY <1>1 DEF ledgerVars, LedgerInv, LedgerShape
    <2> QED
      BY <2>1, JournalUntouched
  <1>2. CASE \/ \E a \in Accounts : CreateAccount(a)
                                \/ \E target \in {"active", "restricted", "closed"} :
                                      ChangeAccountStatus(a, target)
             \/ \E p \in Periods : ClosePeriod(p) \/ \E i \in Intervals : OpenPeriod(p, i)
             \/ \E p \in Periods, x, y \in Authorities : RequestReopening(p, x, y)
             \/ \E record \in reopeningRecords, actor \in Authorities :
                   ReopenPeriod(record, actor)
             \/ \E e \in JournalIds : PostAgainRefused(e)
    BY <1>2, RegistersMove
  <1>3. ASSUME NEW e \in JournalIds, NEW p \in Periods, NEW lines \in Lines,
               DraftEntry(e, p, lines)
        PROVE  LedgerInv' /\ StepKeepsBooks
    BY <1>3, Drafted
  <1>4. ASSUME NEW e \in JournalIds, PostEntry(e) PROVE LedgerInv' /\ StepKeepsBooks
    BY <1>4, EntryPosted
  <1>5. ASSUME NEW e \in JournalIds, NEW r \in JournalIds, ReverseEntry(e, r)
        PROVE  LedgerInv' /\ StepKeepsBooks
    BY <1>5, EntryReversed
  <1>6. ASSUME NEW e \in JournalIds, NEW r \in JournalIds, ReverseHalf(e, r)
        PROVE  LedgerInv' /\ StepKeepsBooks
    BY <1>6, ReversedHalf
  <1>7. ASSUME NEW e \in JournalIds, NEW r \in JournalIds, NEW p \in Periods,
               NEW lines \in Lines, CorrectEntry(e, r, p, lines)
        PROVE  LedgerInv' /\ StepKeepsBooks
    BY <1>7, Corrected
  <1> QED
    BY <1>1, <1>2, <1>3, <1>4, <1>5, <1>6, <1>7 DEF LedgerNext

LEMMA LedgerInvHolds == LedgerSpec => []LedgerInv
  <1>1. LedgerInv /\ [LedgerNext]_ledgerVars => LedgerInv'
    BY LedgerStep
  <1> QED
    BY <1>1, LedgerStart, PTL DEF LedgerSpec

(* The register keeps its types, and a draft carries no posting number.    *)
THEOREM LedgerTypeCorrect == LedgerSpec => []LedgerTypeOK
  <1>1. LedgerInv => LedgerTypeOK
    BY DEF LedgerInv, LedgerShape, NumberedWhenPosted, LedgerTypeOK
  <1> QED
    BY <1>1, LedgerInvHolds, PTL

(* For any accounts, periods, entries and authorities: what is posted      *)
(* stands, a period that stays closed keeps its postings, and nothing is   *)
(* reversed twice or by anything but its opposite.                         *)
THEOREM TheBooksStand == LedgerSpec => BooksStand
  <1>1. LedgerInv => ReversedAtMostOnce /\ ReversalsAreOpposite
    BY DEF LedgerInv
  <1>2. LedgerInv /\ [LedgerNext]_ledgerVars =>
           [/\ \A e \in JournalIds : Immutable(e) =>
                journal'[e] \in {journal[e], [journal[e] EXCEPT !.status = "reversed"]}
            /\ \A p \in Periods : periods[p].status = "closed" /\ periods'[p].status = "closed" =>
                Effective(p)' = Effective(p)]_ledgerVars
    BY LedgerStep DEF StepKeepsBooks, PostingsKept, ClosedPeriodsKept
  <1> QED
    BY <1>1, <1>2, LedgerInvHolds, PTL DEF LedgerSpec, BooksStand

-----------------------------------------------------------------------------
(***************************************************************************)
(* Proofs about FinanceReports.                                            *)
(***************************************************************************)

ActDone == [by : Clerks, on : FrozenIds \cup {Unbound}]
Deeds == [Acts -> SUBSET ActDone]

VersionRecord ==
    [state : ReportStates, term : Terms, snapshot : FrozenIds \cup {Unbound}, given : Deeds]

OnFigures == {"prepared", "review", "audit", "approval", "signature"}

(* The decisions a state stands on, and those it cannot have seen yet.     *)
DecidedIn(s) ==
    IF s \in EntryStates \cup {"superseded"} THEN {}
    ELSE IF s = "internally_reviewed" THEN {"review"}
    ELSE IF s = "auditor_reviewed" THEN {"review", "audit"}
    ELSE IF s = "approved" THEN {"review", "audit", "approval"}
    ELSE {"review", "audit", "approval", "signature"}
AheadOf(s) ==
    IF s \in EntryStates THEN {"review", "audit", "approval", "signature"}
    ELSE IF s = "internally_reviewed" THEN {"audit", "approval", "signature"}
    ELSE IF s = "auditor_reviewed" THEN {"approval", "signature"}
    ELSE IF s = "approved" THEN {"signature"}
    ELSE {}

OthersDid(r, act, other) == \A d \in r.given[act], e \in r.given[other] : d.by # e.by

(* A version that is bound to no snapshot has not been prepared and has    *)
(* not left the entry states; no decision is there before its time, so     *)
(* that no later work is done by those who decided.                        *)
VersionStands(r) ==
    /\ r \in VersionRecord
    /\ \A act \in OnFigures : \A d \in r.given[act] : d.on = r.snapshot
    /\ r.snapshot = Unbound => r.given["prepared"] = {} /\ r.state \in EntryStates
    /\ \A act \in DecidedIn(r.state) : r.given[act] # {}
    /\ \A act \in AheadOf(r.state) : r.given[act] = {}
    /\ OthersDid(r, "prepared", "approval") /\ OthersDid(r, "approval", "signature")
    /\ \A act \in {"prepared", "finding", "review"} : OthersDid(r, act, "audit")

Auditors == [state : {"none", "opened", "in_progress", "concluded"},
             auditor : Clerks \cup {Unbound}]

ReportsInv ==
    /\ frozen \subseteq FrozenIds
    /\ reports \in [ReportVersions -> VersionRecord \cup {NoVersion}]
    /\ \A v \in KnownVersions : VersionStands(reports[v]) /\ reports[v].snapshot \in frozen \cup {Unbound}
    /\ engagements \in [Engagements -> Auditors]
    /\ \A e \in Engagements :
          engagements[e].state # "none" => engagements[e].auditor \in Clerks

-----------------------------------------------------------------------------
(* Nothing has been done about a new version.                              *)
LEMMA NothingDone == NothingGiven \in Deeds /\ \A a \in Acts : NothingGiven[a] = {}
  BY DEF NothingGiven, Deeds

(* The decision act, by c, is the one that takes r to state s.             *)
Due(r, s, act, c) ==
    \/ s = "internally_reviewed" /\ r.state \in EntryStates /\ act = "review"
    \/ /\ s = "auditor_reviewed" /\ r.state = "internally_reviewed" /\ act = "audit"
       /\ \A b \in {"prepared", "finding", "review"} : \A d \in r.given[b] : d.by # c
    \/ /\ s = "approved" /\ r.state = "auditor_reviewed" /\ act = "approval"
       /\ \A d \in r.given["prepared"] : d.by # c
    \/ /\ s = "signed" /\ r.state = "approved" /\ act = "signature"
       /\ \A d \in r.given["approval"] : d.by # c
    \/ /\ s \in {"submitted", "published"} /\ act = "outward"
       /\ r.state \in {"signed", "externally_accepted"}

(* A version after a decision, and after its preparation.                  *)
Decided(r, s, act, c) ==
    [r EXCEPT !.state = s,
              !.given = [r.given EXCEPT ![act] = @ \cup {[by |-> c, on |-> r.snapshot]}]]
PreparedOn(r, s, c) ==
    [r EXCEPT !.snapshot = s,
              !.given = [r.given EXCEPT !["prepared"] = @ \cup {[by |-> c, on |-> s]}]]

(* A transition with its entry in the history leaves a version that stands,*)
(* when the decision is the one its state waits for (_to).                 *)
LEMMA TransitionStands ==
  ASSUME NEW r, VersionStands(r), NEW s \in ReportStates, NEW act \in Acts, NEW c \in Clerks,
         r.snapshot # Unbound, Due(r, s, act, c),
         NEW q, q = Decided(r, s, act, c)
  PROVE  VersionStands(q) /\ q.snapshot = r.snapshot
  <1> PICK d0 : d0 = [by |-> c, on |-> r.snapshot]
    OBVIOUS
  <1> PICK h : h = [r.given EXCEPT ![act] = @ \cup {d0}]
    OBVIOUS
  <1>1. r \in VersionRecord /\ r.given \in Deeds
    BY DEF VersionStands, VersionRecord
  <1>2. d0 \in ActDone
    BY <1>1 DEF VersionRecord, ActDone
  <1>3. h \in Deeds /\ h[act] = r.given[act] \cup {d0} /\ \A b \in Acts \ {act} : h[b] = r.given[b]
    BY <1>1, <1>2 DEF Deeds
  <1>4. q \in VersionRecord /\ q.state = s /\ q.snapshot = r.snapshot /\ q.given = h
    BY <1>1, <1>3 DEF VersionRecord, Decided
  <1>5. d0.by = c /\ d0.on = r.snapshot
    OBVIOUS
  <1>6. \A b \in OnFigures : \A d \in q.given[b] : d.on = q.snapshot
    BY <1>3, <1>4, <1>5 DEF OnFigures, VersionStands, Acts
  <1>7. \A b \in DecidedIn(s) : q.given[b] # {}
    BY <1>3, <1>4 DEF Due, DecidedIn, VersionStands, Acts, EntryStates
  <1>8. \A b \in AheadOf(s) : q.given[b] = {}
    BY <1>3, <1>4 DEF Due, AheadOf, VersionStands, Acts, EntryStates
  <1>9. /\ OthersDid(q, "prepared", "approval") /\ OthersDid(q, "approval", "signature")
        /\ \A b \in {"prepared", "finding", "review"} : OthersDid(q, b, "audit")
    <2>1. CASE act = "review"
      <3>1. r.given["audit"] = {}
        BY <2>1 DEF Due, VersionStands, AheadOf, EntryStates
      <3> QED
        BY <1>3, <1>4, <2>1, <3>1 DEF Due, OthersDid, VersionStands, Acts
    <2>2. CASE act = "audit"
      BY <1>3, <1>4, <1>5, <2>2 DEF Due, OthersDid, VersionStands, Acts
    <2>3. CASE act = "approval"
      <3>1. r.given["signature"] = {}
        BY <2>3 DEF Due, VersionStands, AheadOf, EntryStates
      <3> QED
        BY <1>3, <1>4, <1>5, <2>3, <3>1 DEF Due, OthersDid, VersionStands, Acts
    <2>4. CASE act = "signature"
      BY <1>3, <1>4, <1>5, <2>4 DEF Due, OthersDid, VersionStands, Acts
    <2>5. CASE act = "outward"
      BY <1>3, <1>4, <2>5 DEF Due, OthersDid, VersionStands, Acts
    <2> QED
      BY <2>1, <2>2, <2>3, <2>4, <2>5 DEF Due
  <1> QED
    BY <1>4, <1>6, <1>7, <1>8, <1>9 DEF VersionStands

(* A version that is prepared, again or for the first time, stands.        *)
LEMMA PreparationStands ==
  ASSUME NEW r, VersionStands(r), r.state \in EntryStates,
         NEW s \in FrozenIds, r.snapshot = Unbound \/ r.snapshot = s, NEW c \in Clerks,
         NEW q, q = PreparedOn(r, s, c)
  PROVE  VersionStands(q) /\ q.snapshot = s
  <1> PICK d0 : d0 = [by |-> c, on |-> s]
    OBVIOUS
  <1> PICK h : h = [r.given EXCEPT !["prepared"] = @ \cup {d0}]
    OBVIOUS
  <1>1. r \in VersionRecord /\ r.given \in Deeds /\ "prepared" \in Acts
    BY DEF VersionStands, VersionRecord, Acts
  <1>2. d0 \in ActDone /\ d0.on = s
    BY DEF ActDone
  <1>3. /\ h \in Deeds /\ h["prepared"] = r.given["prepared"] \cup {d0}
        /\ \A b \in Acts \ {"prepared"} : h[b] = r.given[b]
    BY <1>1, <1>2 DEF Deeds
  <1>4. q \in VersionRecord /\ q.state = r.state /\ q.snapshot = s /\ q.given = h
    BY <1>1, <1>3 DEF VersionRecord, PreparedOn
  <1>5. \A b \in {"review", "audit", "approval", "signature"} : r.given[b] = {} /\ q.given[b] = {}
    BY <1>3, <1>4 DEF VersionStands, AheadOf, Acts
  <1>6. \A d \in r.given["prepared"] : d.on = s
    BY DEF VersionStands, OnFigures
  <1>7. \A b \in OnFigures : \A d \in q.given[b] : d.on = q.snapshot
    BY <1>2, <1>3, <1>4, <1>5, <1>6 DEF OnFigures
  <1>8. q.snapshot # Unbound
    BY <1>4, FinanceReportsAssumption
  <1> QED
    BY <1>4, <1>5, <1>7, <1>8 DEF VersionStands, DecidedIn, AheadOf, OthersDid

(* A finding changes nothing a version stands on before its audit.         *)
LEMMA FindingStands ==
  ASSUME NEW r, VersionStands(r), r.state \in EntryStates, NEW c \in Clerks,
         NEW q, q = [r EXCEPT !.given = [r.given EXCEPT !["finding"] =
                                             @ \cup {[by |-> c, on |-> r.snapshot]}]]
  PROVE  VersionStands(q) /\ q.snapshot = r.snapshot
  <1> PICK d0 : d0 = [by |-> c, on |-> r.snapshot]
    OBVIOUS
  <1> PICK h : h = [r.given EXCEPT !["finding"] = @ \cup {d0}]
    OBVIOUS
  <1>1. r \in VersionRecord /\ r.given \in Deeds /\ "finding" \in Acts
    BY DEF VersionStands, VersionRecord, Acts
  <1>2. d0 \in ActDone
    BY <1>1 DEF VersionRecord, ActDone
  <1>3. h \in Deeds /\ \A b \in Acts \ {"finding"} : h[b] = r.given[b]
    BY <1>1, <1>2 DEF Deeds
  <1>4. q \in VersionRecord /\ q.state = r.state /\ q.snapshot = r.snapshot /\ q.given = h
    BY <1>1, <1>3 DEF VersionRecord
  <1>5. \A b \in Acts \ {"finding"} : q.given[b] = r.given[b]
    BY <1>3, <1>4
  <1>6. r.given["audit"] = {}
    BY DEF VersionStands, AheadOf
  <1> QED
    BY <1>4, <1>5, <1>6 DEF VersionStands, DecidedIn, AheadOf, OthersDid, OnFigures, Acts

(* A state reached without a decision: an answer from outside, and         *)
(* supersession.                                                           *)
LEMMA StateMoved ==
  ASSUME NEW r, VersionStands(r), r.snapshot # Unbound,
         NEW s \in ReportStates,
         \/ s = "superseded"
         \/ s \in {"externally_acknowledged", "externally_accepted"}
               /\ r.state \in {"submitted", "externally_acknowledged"},
         NEW q, q = [r EXCEPT !.state = s]
  PROVE  VersionStands(q) /\ q.snapshot = r.snapshot
  <1>1. q \in VersionRecord /\ q.state = s /\ q.snapshot = r.snapshot /\ q.given = r.given
    BY DEF VersionStands, VersionRecord
  <1>2. \A act \in DecidedIn(s) : r.given[act] # {}
    BY DEF VersionStands, DecidedIn, EntryStates
  <1>3. AheadOf(s) = {}
    BY DEF AheadOf, EntryStates
  <1> QED
    BY <1>1, <1>2, <1>3 DEF VersionStands, OthersDid

(* A new version, prepared at once or as a successor.                      *)
LEMMA NewVersionStands ==
  ASSUME NEW t \in Terms, NEW s \in FrozenIds, NEW c \in Clerks
  PROVE  /\ VersionStands([state |-> "draft", term |-> t, snapshot |-> s,
                           given |-> [NothingGiven EXCEPT !["prepared"] = {[by |-> c, on |-> s]}]])
         /\ VersionStands([state |-> "amended", term |-> t, snapshot |-> Unbound,
                           given |-> NothingGiven])
  <1> DEFINE d0 == [by |-> c, on |-> s]
             h == [NothingGiven EXCEPT !["prepared"] = {d0}]
             p == [state |-> "draft", term |-> t, snapshot |-> s, given |-> h]
             q == [state |-> "amended", term |-> t, snapshot |-> Unbound, given |-> NothingGiven]
  <1>1. d0 \in ActDone /\ d0.on = s
    BY DEF ActDone
  <1>2. h \in Deeds /\ h["prepared"] = {d0} /\ \A b \in Acts \ {"prepared"} : h[b] = {}
    BY <1>1, NothingDone DEF Deeds, Acts
  <1>3. p \in VersionRecord /\ p.state = "draft" /\ p.snapshot = s /\ p.given = h
    BY <1>2 DEF VersionRecord, ReportStates
  <1>4. /\ q \in VersionRecord /\ q.state = "amended" /\ q.snapshot = Unbound
        /\ q.given = NothingGiven
    BY NothingDone DEF VersionRecord, ReportStates
  <1>5. s # Unbound
    BY FinanceReportsAssumption
  <1> HIDE DEF d0, h, p, q
  <1>6. \A b \in {"review", "audit", "approval", "signature", "finding"} : p.given[b] = {}
    BY <1>2, <1>3 DEF Acts
  <1>7. VersionStands(p)
    BY <1>1, <1>2, <1>3, <1>5, <1>6
       DEF VersionStands, DecidedIn, AheadOf, OthersDid, OnFigures, EntryStates
  <1>8. \A b \in Acts : q.given[b] = {}
    BY <1>4, NothingDone
  <1>9. VersionStands(q)
    BY <1>4, <1>8 DEF VersionStands, DecidedIn, AheadOf, OthersDid, OnFigures, EntryStates, Acts
  <1> QED
    BY <1>7, <1>9 DEF d0, h, p, q

-----------------------------------------------------------------------------
(* One version is written and stands.                                      *)
LEMMA VersionWritten ==
  ASSUME ReportsInv, NEW v \in ReportVersions, NEW q, VersionStands(q),
         q.snapshot \in frozen \cup {Unbound},
         reports' = [reports EXCEPT ![v] = q], UNCHANGED <<frozen, engagements>>
  PROVE  ReportsInv'
  <1>1. q \in VersionRecord
    BY DEF VersionStands
  <1>2. reports' \in [ReportVersions -> VersionRecord \cup {NoVersion}]
    BY <1>1 DEF ReportsInv
  <1>3. ASSUME NEW u \in ReportVersions, reports'[u] # NoVersion
        PROVE  VersionStands(reports'[u]) /\ reports'[u].snapshot \in frozen \cup {Unbound}
    <2>1. CASE u = v
      <3>1. reports'[u] = q
        BY <2>1 DEF ReportsInv
      <3> QED
        BY <3>1
    <2>2. CASE u # v
      <3>1. reports'[u] = reports[u]
        BY <2>2 DEF ReportsInv
      <3> QED
        BY <1>3, <3>1 DEF ReportsInv, KnownVersions
    <2> QED
      BY <2>1, <2>2
  <1> QED
    BY <1>2, <1>3 DEF ReportsInv, KnownVersions

LEMMA ReportsStart == ReportsInit => ReportsInv
  BY DEF ReportsInit, ReportsInv, KnownVersions, NoEngagement, Auditors

(* A version with a state other than none is known.                        *)
LEMMA StateKnown ==
  ASSUME ReportsInv, NEW v \in ReportVersions, reports[v].state # "none"
  PROVE  /\ VersionStands(reports[v]) /\ reports[v].snapshot \in frozen \cup {Unbound}
         /\ reports[v].given \in Deeds
  <1>1. reports[v] # NoVersion
    BY DEF NoVersion
  <1> QED
    BY <1>1 DEF ReportsInv, KnownVersions, VersionStands, VersionRecord

(* Who did acts of one kind.                                               *)
LEMMA DoneBy ==
  ASSUME NEW v, NEW acts, NEW c, c \notin By(v, acts)
  PROVE  \A a \in acts : \A d \in reports[v].given[a] : d.by # c
  BY DEF By

(* A decision is taken on a version.                                       *)
LEMMA DecisionTaken ==
  ASSUME ReportsInv, NEW v \in ReportVersions, NEW c \in Clerks,
         \/ CompleteInternalReview(v, c) \/ ApproveVersion(v, c) \/ SignVersion(v, c)
         \/ SubmitVersion(v, c) \/ PublishVersion(v, c)
         \/ \E e \in Engagements : RecordAuditReview(v, e, c)
  PROVE  ReportsInv'
  <1>1. /\ VersionStands(reports[v]) /\ reports[v].snapshot \in frozen \cup {Unbound}
        /\ reports[v].given \in Deeds
    <2>1. reports[v].state # "none"
      BY DEF CompleteInternalReview, ApproveVersion, SignVersion, SubmitVersion,
             PublishVersion, RecordAuditReview, EntryStates
    <2> QED
      BY <2>1, StateKnown
  <1>2. reports[v].snapshot # Unbound
    BY <1>1 DEF CompleteInternalReview, ApproveVersion, SignVersion, SubmitVersion,
           PublishVersion, RecordAuditReview, EntryStates, VersionStands
  <1>3. ASSUME NEW s \in ReportStates, NEW act \in Acts, NEW a \in Clerks,
               Due(reports[v], s, act, a),
               reports' = MovedTo(v, s, act, a), UNCHANGED <<frozen, engagements>>
        PROVE  ReportsInv'
    <2>1. PICK q : q = Decided(reports[v], s, act, a)
      OBVIOUS
    <2>2. VersionStands(q) /\ q.snapshot = reports[v].snapshot
      BY <1>1, <1>2, <1>3, <2>1, TransitionStands
    <2>3. reports' = [reports EXCEPT ![v] = q]
      BY <1>1, <1>3, <2>1 DEF Decided, MovedTo, Given, ReportsInv, VersionStands, VersionRecord
    <2> QED
      BY <1>1, <1>3, <2>2, <2>3, VersionWritten
  <1>4. CASE CompleteInternalReview(v, c)
    BY <1>3, <1>4 DEF CompleteInternalReview, Due, ReportStates, Acts, EntryStates
  <1>5. CASE ApproveVersion(v, c)
    <2>1. \A d \in reports[v].given["prepared"] : d.by # c
      BY <1>5, DoneBy DEF ApproveVersion
    <2> QED
      BY <1>3, <1>5, <2>1 DEF ApproveVersion, Due, ReportStates, Acts
  <1>6. CASE SignVersion(v, c)
    <2>1. \A d \in reports[v].given["approval"] : d.by # c
      BY <1>6, DoneBy DEF SignVersion
    <2> QED
      BY <1>3, <1>6, <2>1 DEF SignVersion, Due, ReportStates, Acts
  <1>7. CASE SubmitVersion(v, c)
    BY <1>3, <1>7 DEF SubmitVersion, Due, ReportStates, Acts
  <1>8. CASE PublishVersion(v, c)
    BY <1>3, <1>8 DEF PublishVersion, Due, ReportStates, Acts
  <1>9. CASE \E e \in Engagements : RecordAuditReview(v, e, c)
    <2> PICK e \in Engagements : RecordAuditReview(v, e, c)
      BY <1>9
    <2>1. engagements[e].auditor \in Clerks
      BY DEF RecordAuditReview, ReportsInv
    <2>2. engagements[e].auditor \notin By(v, Acts \ {"audit"})
      BY DEF RecordAuditReview, AuditorIndependent, Operational
    <2>3. \A b \in {"prepared", "finding", "review"} :
             \A d \in reports[v].given[b] : d.by # engagements[e].auditor
      BY <2>2, DoneBy DEF Acts
    <2> QED
      BY <1>3, <2>1, <2>3 DEF RecordAuditReview, Due, ReportStates, Acts
  <1> QED
    BY <1>4, <1>5, <1>6, <1>7, <1>8, <1>9

(* A version is made, prepared, found fault with or answered.              *)
LEMMA WorkDone ==
  ASSUME ReportsInv, NEW v \in ReportVersions, NEW c \in Clerks,
         \/ \E s \in FrozenIds : PrepareNew(v, s, c) \/ Prepare(v, s, c)
         \/ RecordFindings(v, c)
         \/ AnswerFromOutside(v, "externally_acknowledged", c)
         \/ AnswerFromOutside(v, "externally_accepted", c)
  PROVE  ReportsInv'
  <1>1. CASE \E s \in FrozenIds : PrepareNew(v, s, c)
    <2> PICK s \in FrozenIds : PrepareNew(v, s, c)
      BY <1>1
    <2>1. TermOf[s] \in Terms
      BY FinanceReportsAssumption
    <2>2. PICK q : q = [state |-> "draft", term |-> TermOf[s], snapshot |-> s,
                        given |-> [NothingGiven EXCEPT !["prepared"] = {[by |-> c, on |-> s]}]]
      OBVIOUS
    <2>3. VersionStands(q)
      BY <2>1, <2>2, NewVersionStands
    <2>4. q.snapshot = s /\ s \in frozen
      BY <2>2 DEF PrepareNew
    <2>5. reports' = [reports EXCEPT ![v] = q] /\ UNCHANGED <<frozen, engagements>>
      BY <2>2 DEF PrepareNew
    <2> QED
      BY <2>3, <2>4, <2>5, VersionWritten
  <1>2. CASE \E s \in FrozenIds : Prepare(v, s, c)
    <2> PICK s \in FrozenIds : Prepare(v, s, c)
      BY <1>2
    <2>1. /\ reports[v].state \in EntryStates /\ s \in frozen
          /\ reports[v].snapshot = Unbound \/ reports[v].snapshot = s
      BY DEF Prepare, Binds
    <2>2. VersionStands(reports[v])
      BY <2>1, StateKnown DEF EntryStates
    <2>3. PICK q : q = PreparedOn(reports[v], s, c)
      OBVIOUS
    <2>4. VersionStands(q) /\ q.snapshot = s
      BY <2>1, <2>2, <2>3, PreparationStands
    <2>5. reports' = [reports EXCEPT ![v] = q] /\ UNCHANGED <<frozen, engagements>>
      BY <2>2, <2>3 DEF Prepare, PreparedOn, ReportsInv, VersionStands, VersionRecord
    <2> QED
      BY <2>1, <2>4, <2>5, VersionWritten
  <1>3. CASE RecordFindings(v, c)
    <2>1. reports[v].state \in EntryStates
      BY <1>3 DEF RecordFindings
    <2>2. VersionStands(reports[v]) /\ reports[v].snapshot \in frozen \cup {Unbound}
      BY <2>1, StateKnown DEF EntryStates
    <2>3. PICK q : q = [reports[v] EXCEPT !.given = [reports[v].given EXCEPT !["finding"] =
                            @ \cup {[by |-> c, on |-> reports[v].snapshot]}]]
      OBVIOUS
    <2>4. VersionStands(q) /\ q.snapshot = reports[v].snapshot
      BY <2>1, <2>2, <2>3, FindingStands
    <2>5. reports' = [reports EXCEPT ![v] = q] /\ UNCHANGED <<frozen, engagements>>
      BY <1>3, <2>2, <2>3 DEF RecordFindings, Given, ReportsInv, VersionStands, VersionRecord
    <2> QED
      BY <2>2, <2>4, <2>5, VersionWritten
  <1>4. ASSUME NEW s \in {"externally_acknowledged", "externally_accepted"},
               AnswerFromOutside(v, s, c)
        PROVE  ReportsInv'
    <2>1. reports[v].state \in {"submitted", "externally_acknowledged"}
      BY <1>4 DEF AnswerFromOutside
    <2>2. VersionStands(reports[v]) /\ reports[v].snapshot \in frozen \cup {Unbound}
      BY <2>1, StateKnown
    <2>3. reports[v].snapshot # Unbound
      BY <2>1, <2>2 DEF VersionStands, EntryStates
    <2>4. PICK q : q = [reports[v] EXCEPT !.state = s]
      OBVIOUS
    <2>5. s \in ReportStates
      BY DEF ReportStates
    <2>6. VersionStands(q) /\ q.snapshot = reports[v].snapshot
      BY <2>1, <2>2, <2>3, <2>4, <2>5, StateMoved
    <2>7. reports' = [reports EXCEPT ![v] = q] /\ UNCHANGED <<frozen, engagements>>
      BY <1>4, <2>4 DEF AnswerFromOutside, ReportsInv
    <2> QED
      BY <2>2, <2>6, <2>7, VersionWritten
  <1> QED
    BY <1>1, <1>2, <1>3, <1>4

(* A version is superseded and its successor saved, over whatever was      *)
(* there (create_successor_version).                                       *)
LEMMA VersionCorrected ==
  ASSUME ReportsInv, NEW v \in ReportVersions, NEW w \in ReportVersions, NEW c \in Clerks,
         CorrectVersion(v, w, c)
  PROVE  ReportsInv'
  <1>1. VersionStands(reports[v]) /\ reports[v].snapshot \in frozen /\ reports[v].snapshot # Unbound
    BY StateKnown DEF CorrectVersion
  <1>2. reports[v].term \in Terms /\ reports[v].snapshot \in FrozenIds
    BY <1>1 DEF VersionStands, VersionRecord, ReportsInv
  <1>3. PICK p : p = [reports[v] EXCEPT !.state = "superseded"]
    OBVIOUS
  <1>4. VersionStands(p) /\ p.snapshot = reports[v].snapshot
    BY <1>1, <1>3, StateMoved DEF ReportStates
  <1>5. PICK q : q = Successor(v)
    OBVIOUS
  <1>6. VersionStands(q) /\ q.snapshot = Unbound
    BY <1>2, <1>5, NewVersionStands DEF Successor
  <1>7. p \in VersionRecord /\ q \in VersionRecord
    BY <1>4, <1>6 DEF VersionStands
  <1>8. reports' = [reports EXCEPT ![v] = p, ![w] = q] /\ v # w /\ UNCHANGED <<frozen, engagements>>
    BY <1>3, <1>5 DEF CorrectVersion, ReportsInv
  <1>9. /\ reports' \in [ReportVersions -> VersionRecord \cup {NoVersion}]
        /\ reports'[v] = p /\ reports'[w] = q
        /\ \A u \in ReportVersions \ {v, w} : reports'[u] = reports[u]
    BY <1>7, <1>8 DEF ReportsInv
  <1>10. ASSUME NEW u \in ReportVersions, reports'[u] # NoVersion
         PROVE  VersionStands(reports'[u]) /\ reports'[u].snapshot \in frozen \cup {Unbound}
    <2>1. CASE u = v
      BY <1>1, <1>4, <1>9, <2>1
    <2>2. CASE u = w
      BY <1>6, <1>9, <2>2
    <2>3. CASE u \notin {v, w}
      BY <1>9, <1>10, <2>3 DEF ReportsInv, KnownVersions
    <2> QED
      BY <2>1, <2>2, <2>3
  <1> QED
    BY <1>8, <1>9, <1>10 DEF ReportsInv, KnownVersions

(* Snapshots are frozen and engagements go their way beside the versions.  *)
LEMMA OthersActed ==
  ASSUME ReportsInv,
         \/ \E s \in FrozenIds, c \in Clerks : FreezeSnapshot(s, c)
         \/ \E e \in Engagements : \/ AuditFinding(e) \/ ConcludeEngagement(e)
                                   \/ \E auditor, c \in Clerks : OpenEngagement(e, auditor, c)
  PROVE  ReportsInv'
  <1>1. CASE \E s \in FrozenIds, c \in Clerks : FreezeSnapshot(s, c)
    BY <1>1 DEF ReportsInv, FreezeSnapshot, KnownVersions
  <1>2. ASSUME NEW e \in Engagements, NEW a \in Auditors, a.auditor \in Clerks,
               engagements' = [engagements EXCEPT ![e] = a], UNCHANGED <<frozen, reports>>
        PROVE  ReportsInv'
    BY <1>2 DEF ReportsInv, KnownVersions
  <1>3. ASSUME NEW e \in Engagements, AuditFinding(e) \/ ConcludeEngagement(e)
        PROVE  ReportsInv'
    <2>1. engagements[e] \in Auditors /\ engagements[e].auditor \in Clerks
      BY <1>3 DEF ReportsInv, AuditFinding, ConcludeEngagement
    <2>2. ASSUME NEW s \in {"in_progress", "concluded"},
                 engagements' = [engagements EXCEPT ![e].state = s]
          PROVE  ReportsInv'
      <3>1. PICK a : a = [engagements[e] EXCEPT !.state = s]
        OBVIOUS
      <3>2. a \in Auditors /\ a.auditor \in Clerks
        BY <2>1, <3>1 DEF Auditors
      <3>3. engagements' = [engagements EXCEPT ![e] = a]
        BY <2>2, <3>1 DEF ReportsInv
      <3> QED
        BY <1>2, <1>3, <3>2, <3>3 DEF AuditFinding, ConcludeEngagement
    <2> QED
      BY <1>3, <2>2 DEF AuditFinding, ConcludeEngagement
  <1>4. ASSUME NEW e \in Engagements, NEW auditor \in Clerks, NEW c \in Clerks,
               OpenEngagement(e, auditor, c)
        PROVE  ReportsInv'
    <2>1. [state |-> "opened", auditor |-> auditor] \in Auditors
      BY DEF Auditors
    <2> QED
      BY <1>2, <1>4, <2>1 DEF OpenEngagement
  <1> QED
    BY <1>1, <1>3, <1>4

LEMMA ReportsKept == ReportsInv /\ [ReportsNext]_reportVars => ReportsInv'
  <1> SUFFICES ASSUME ReportsInv, [ReportsNext]_reportVars
               PROVE  ReportsInv'
    OBVIOUS
  <1>1. CASE UNCHANGED reportVars
    BY <1>1 DEF reportVars, ReportsInv, KnownVersions
  <1>2. CASE ReportsNext
    BY <1>2, DecisionTaken, WorkDone, VersionCorrected, OthersActed DEF ReportsNext, ReportsStep
  <1> QED
    BY <1>1, <1>2

LEMMA ReportsInvHolds == ReportsSpec => []ReportsInv
  BY ReportsStart, ReportsKept, PTL DEF ReportsSpec

(* Snapshots, versions and engagements keep their types.                   *)
THEOREM ReportsTypeCorrect == ReportsSpec => []ReportsTypeOK
  <1>1. ReportsInv => ReportsTypeOK
    BY DEF ReportsInv, ReportsTypeOK, VersionStands, VersionRecord, Deeds, ActDone, Auditors
  <1> QED
    BY <1>1, ReportsInvHolds, PTL

(* For any versions, snapshots, engagements and clerks, under ids used     *)
(* again: the decisions a report carries were taken on the figures it is   *)
(* bound to, none is missing, and nobody decided about what they did.      *)
THEOREM ReportsStand == ReportsSpec => []ReportsStandOnTheirFigures
  <1>1. ASSUME NEW v \in ReportVersions, VersionStands(reports[v])
        PROVE  /\ By(v, {"prepared"}) \cap By(v, {"approval"}) = {}
               /\ By(v, {"approval"}) \cap By(v, {"signature"}) = {}
               /\ By(v, {"audit"}) \cap By(v, {"prepared", "finding", "review"}) = {}
    BY <1>1 DEF By, VersionStands, OthersDid
  <1>2. ReportsInv => ReportsStandOnTheirFigures
    <2> SUFFICES ASSUME ReportsInv, NEW v \in KnownVersions
                 PROVE  /\ \A act \in OnFigures :
                              \A d \in reports[v].given[act] : d.on = reports[v].snapshot
                        /\ \A act \in DecidedIn(reports[v].state) : reports[v].given[act] # {}
                        /\ By(v, {"prepared"}) \cap By(v, {"approval"}) = {}
                        /\ By(v, {"approval"}) \cap By(v, {"signature"}) = {}
                        /\ By(v, {"audit"}) \cap By(v, {"prepared", "finding", "review"}) = {}
      BY DEF ReportsStandOnTheirFigures, OnFigures, DecidedIn
    <2>1. v \in ReportVersions /\ VersionStands(reports[v])
      BY DEF ReportsInv, KnownVersions
    <2> QED
      BY <1>1, <2>1 DEF VersionStands
  <1> QED
    BY <1>2, ReportsInvHolds, PTL

-----------------------------------------------------------------------------
(***************************************************************************)
(* Proofs about RecordDisposal.                                            *)
(***************************************************************************)

(* What an authorization a says of the record q it was given for, under a  *)
(* policy version of this content: it is no younger than the record, the   *)
(* record has been authorized, and as long as nothing has overtaken it,    *)
(* what it was given on still holds, so that the record is due now and the *)
(* version says the same about its content.                                *)
Speaks(a, q, content, now) ==
    /\ q.state # "active"
    /\ a.revision <= q.revision
    /\ q.state = "destroyed" => a.revision < q.revision
    /\ a.policy = q.policy /\ a.revision = q.revision =>
          /\ q.start # NotStarted
          /\ q.start + content.days <= now
          /\ a.destructive = content.destructive

(* A record authorized since its registration refers to an authorization   *)
(* that exists; if it is its own, it speaks of the record.                 *)
AuthorizationHolds(r) ==
    r \in standing /\ records[r].authorization # NoReference =>
        /\ AuthorizationOf(r) # NoAuthorization
        /\ AuthorizationOf(r).record = r =>
              Speaks(AuthorizationOf(r), records[r], versions[records[r].policy], clock)

HoldRecord == [status : {"none", "active", "released", "indeterminate"}, scope : SUBSET Holdings]

RecordStands(r) ==
    /\ records[r] # NoRecord =>
          records[r] \in GovernedRecord /\ Registered(records[r].policy)
    /\ r \in standing => records[r] # NoRecord

DisposalInv ==
    /\ clock \in 0 .. MaxClock
    /\ versions \in [Policies -> Contents \cup {Unregistered}]
    /\ DOMAIN records = Holdings /\ records = [r \in Holdings |-> records[r]]
    /\ authorizations \in [DestructionIds -> Authorization]
    /\ evidence \in [Holdings -> [policy : Policies \cup {0}]]
    /\ holds \in [HoldIds -> HoldRecord]
    /\ standing \subseteq Holdings
    /\ \A r \in Holdings : RecordStands(r) /\ AuthorizationHolds(r)

-----------------------------------------------------------------------------
LEMMA DisposalStart == DisposalInit => DisposalInv
  <1> SUFFICES ASSUME DisposalInit PROVE DisposalInv
    OBVIOUS
  <1>1. NoAuthorization \in Authorization
    BY DisposalAssumption DEF NoAuthorization, Authorization
  <1>2. \A r \in Holdings : RecordStands(r) /\ AuthorizationHolds(r)
    BY DEF DisposalInit, RecordStands, AuthorizationHolds
  <1> QED
    BY <1>1, <1>2, DisposalAssumption
       DEF DisposalInit, DisposalInv, HoldRecord, NoHold, NoEvidence

(* Registered content is never rewritten (create_version).                 *)
LEMMA ContentKept ==
  ASSUME DisposalInv, NEW v \in Policies, NEW content \in Contents, CreateVersion(v, content)
  PROVE  /\ versions' \in [Policies -> Contents \cup {Unregistered}]
         /\ versions'[v] = content /\ content # Unregistered
         /\ \A u \in Policies : Registered(u) => versions'[u] = versions[u]
  <1>1. content.days \in Nat /\ Unregistered.days = -1
    BY DisposalAssumption DEF Contents, Unregistered
  <1>2. content # Unregistered
    BY <1>1
  <1> QED
    BY <1>2 DEF CreateVersion, DisposalInv, Registered

(* Content a record is bound to is known: its days are a number.           *)
LEMMA BoundContent ==
  ASSUME DisposalInv, NEW p \in Policies, Registered(p)
  PROVE  versions[p] \in Contents /\ versions[p].days \in Nat /\ versions[p].destructive \in BOOLEAN
  <1>1. versions[p] \in Contents
    BY DEF DisposalInv, Registered
  <1> QED
    BY <1>1, DisposalAssumption DEF Contents

(* What an authorization says remains so as days pass.                     *)
LEMMA SpeaksOn ==
  ASSUME NEW a, NEW q \in GovernedRecord, NEW content, content.days \in Nat,
         NEW now \in Int, NEW later \in Int, now <= later, Speaks(a, q, content, now)
  PROVE  Speaks(a, q, content, later)
  <1>1. q.start \in Int
    BY DisposalAssumption DEF GovernedRecord
  <1> QED
    BY <1>1 DEF Speaks

(* A record that stays as it is, and was not authorized, keeps standing    *)
(* while days pass and versions are added.                                 *)
LEMMA RecordKept ==
  ASSUME DisposalInv, NEW r \in Holdings, records'[r] = records[r],
         authorizations' = authorizations, r \in standing' => r \in standing,
         clock' \in 0 .. MaxClock, clock <= clock',
         \A u \in Policies : Registered(u) => versions'[u] = versions[u]
  PROVE  RecordStands(r)' /\ AuthorizationHolds(r)'
  <1>1. CASE records[r] = NoRecord
    BY <1>1 DEF RecordStands, AuthorizationHolds, DisposalInv
  <1>2. CASE records[r] # NoRecord
    <2>1. /\ records[r] \in GovernedRecord /\ Registered(records[r].policy)
          /\ records[r].policy \in Policies
      BY <1>2 DEF DisposalInv, RecordStands, GovernedRecord
    <2>2. versions'[records[r].policy] = versions[records[r].policy]
      BY <2>1
    <2>3. RecordStands(r)'
      BY <1>2, <2>1, <2>2 DEF RecordStands, Registered
    <2>4. clock \in Int /\ clock' \in Int
      BY DisposalAssumption DEF DisposalInv
    <2>5. versions[records[r].policy].days \in Nat
      BY <2>1, BoundContent
    <2>6. ASSUME r \in standing', records'[r].authorization # NoReference
          PROVE  /\ AuthorizationOf(r)' # NoAuthorization
                 /\ AuthorizationOf(r)'.record = r =>
                       Speaks(AuthorizationOf(r)', records'[r], versions'[records'[r].policy], clock')
      <3>1. /\ AuthorizationOf(r) # NoAuthorization
            /\ AuthorizationOf(r).record = r =>
                  Speaks(AuthorizationOf(r), records[r], versions[records[r].policy], clock)
        BY <2>6 DEF DisposalInv, AuthorizationHolds
      <3>2. AuthorizationOf(r)' = AuthorizationOf(r)
        BY DEF AuthorizationOf
      <3> QED
        BY <2>1, <2>2, <2>4, <2>5, <3>1, <3>2, SpeaksOn
    <2> QED
      BY <2>3, <2>6 DEF AuthorizationHolds
  <1> QED
    BY <1>1, <1>2

(* Steps that leave the records alone.                                     *)
LEMMA RecordsKept ==
  ASSUME DisposalInv, UNCHANGED <<records, authorizations, evidence, standing>>,
         clock' \in 0 .. MaxClock, clock <= clock',
         versions' \in [Policies -> Contents \cup {Unregistered}],
         \A u \in Policies : Registered(u) => versions'[u] = versions[u],
         holds' \in [HoldIds -> HoldRecord]
  PROVE  DisposalInv'
  <1>1. \A r \in Holdings : RecordStands(r)' /\ AuthorizationHolds(r)'
    BY RecordKept
  <1> QED
    BY <1>1 DEF DisposalInv

(* A record that refers to no authorization, or was registered since,      *)
(* stands as long as its policy version is registered.                     *)
LEMMA UnauthorizedStands ==
  ASSUME NEW r \in Holdings, records'[r] \in GovernedRecord, records'[r] # NoRecord,
         versions'[records'[r].policy] # Unregistered,
         r \in standing' => records'[r].authorization = NoReference
  PROVE  RecordStands(r)' /\ AuthorizationHolds(r)'
  BY DEF RecordStands, AuthorizationHolds, Registered

LEMMA NoSuchRecord ==
  ASSUME NEW q \in GovernedRecord
  PROVE  q # NoRecord
  <1>1. q.state # "none" /\ NoRecord.state = "none"
    BY DEF GovernedRecord, NoRecord
  <1> QED
    BY <1>1

LEMMA Superseded ==
  ASSUME DisposalInv, NEW u \in Policies, NEW v \in Policies, NEW content \in Contents,
         SupersedePolicy(u, v, content)
  PROVE  DisposalInv'
  <1>1. /\ versions' \in [Policies -> Contents \cup {Unregistered}]
        /\ versions'[v] = content /\ content # Unregistered
        /\ \A p \in Policies : Registered(p) => versions'[p] = versions[p]
    BY ContentKept DEF SupersedePolicy
  <1>2. clock' = clock /\ clock \in 0 .. MaxClock /\ clock \in Int
    BY DisposalAssumption DEF SupersedePolicy, DisposalInv
  <1>3. ASSUME NEW r \in Holdings
        PROVE  RecordStands(r)' /\ AuthorizationHolds(r)'
    <2>1. CASE r \in Overtaken(v)
      <3>1. records[r].state # "none" /\ records[r].revision < MaxRevision
        BY <2>1 DEF SupersedePolicy, Overtaken
      <3>2. records[r] \in GovernedRecord
        BY <3>1 DEF DisposalInv, RecordStands, NoRecord
      <3>3. records'[r] = Rebound(records[r], v)
        BY <2>1 DEF SupersedePolicy
      <3>4. records[r].revision + 1 \in 1 .. MaxRevision + 1
        BY <3>1, <3>2, DisposalAssumption DEF GovernedRecord
      <3>5. /\ records'[r] \in GovernedRecord /\ records'[r].policy = v
            /\ records'[r].authorization = NoReference
        BY <3>2, <3>3, <3>4 DEF Rebound, GovernedRecord
      <3> QED
        BY <1>1, <3>5, UnauthorizedStands, NoSuchRecord
    <2>2. CASE r \notin Overtaken(v)
      <3>1. records'[r] = records[r] /\ authorizations' = authorizations /\ standing' = standing
        BY <2>2 DEF SupersedePolicy
      <3> QED
        BY <1>1, <1>2, <3>1, RecordKept
    <2> QED
      BY <2>1, <2>2
  <1> QED
    BY <1>1, <1>2, <1>3 DEF DisposalInv, SupersedePolicy

(* One record is written, and no authorization.                            *)
LEMMA RecordWritten ==
  ASSUME DisposalInv, NEW r \in Holdings, NEW q \in GovernedRecord,
         records' = [records EXCEPT ![r] = q], Registered(q.policy),
         standing' \subseteq standing,
         r \in standing' /\ q.authorization # NoReference =>
            /\ authorizations[q.authorization] # NoAuthorization
            /\ authorizations[q.authorization].record = r =>
                  Speaks(authorizations[q.authorization], q, versions[q.policy], clock),
         UNCHANGED <<clock, versions, authorizations, holds>>,
         evidence' \in [Holdings -> [policy : Policies \cup {0}]]
  PROVE  DisposalInv'
  <1>1. records'[r] = q /\ \A s \in Holdings \ {r} : records'[s] = records[s]
    BY DEF DisposalInv
  <1>2. RecordStands(r)' /\ AuthorizationHolds(r)'
    BY <1>1, NoSuchRecord DEF RecordStands, AuthorizationHolds, Registered, AuthorizationOf
  <1>3. clock \in Int
    BY DisposalAssumption DEF DisposalInv
  <1>4. ASSUME NEW s \in Holdings, s # r
        PROVE  RecordStands(s)' /\ AuthorizationHolds(s)'
    <2>1. records'[s] = records[s]
      BY <1>1, <1>4
    <2>2. clock' \in 0 .. MaxClock /\ clock <= clock'
      BY <1>3 DEF DisposalInv
    <2>3. \A u \in Policies : Registered(u) => versions'[u] = versions[u]
      OBVIOUS
    <2>4. authorizations' = authorizations /\ (s \in standing' => s \in standing)
      OBVIOUS
    <2> QED
      BY <2>1, <2>2, <2>3, <2>4, RecordKept
  <1> QED
    BY <1>2, <1>4 DEF DisposalInv

LEMMA RecordRegistered ==
  ASSUME DisposalInv, NEW r \in Holdings, NEW q \in Submitted, RegisterRecord(r, q)
  PROVE  DisposalInv'
  <1>1. q \in GovernedRecord
    BY DisposalAssumption DEF GovernedRecord
  <1>2. /\ records' = [records EXCEPT ![r] = q] /\ Registered(q.policy)
        /\ UNCHANGED <<clock, versions, authorizations, evidence, holds>>
        /\ standing' \subseteq standing /\ r \notin standing'
    BY DEF RegisterRecord
  <1> QED
    BY <1>1, <1>2, RecordWritten DEF DisposalInv

(* What a record refers to when it is moved on.                            *)
LEMMA WhatItRefersTo ==
  ASSUME DisposalInv, NEW r \in Holdings, records[r] # NoRecord
  PROVE  /\ records[r] \in GovernedRecord /\ Registered(records[r].policy)
         /\ records[r].revision \in Int
         /\ records[r].authorization # NoReference =>
               /\ AuthorizationOf(r) = authorizations[records[r].authorization]
               /\ AuthorizationOf(r) \in Authorization /\ AuthorizationOf(r).revision \in Int
               /\ r \in standing => AuthorizationOf(r) # NoAuthorization
               /\ r \in standing /\ AuthorizationOf(r).record = r =>
                    Speaks(AuthorizationOf(r), records[r], versions[records[r].policy], clock)
  <1>1. records[r] \in GovernedRecord /\ Registered(records[r].policy)
    BY DEF DisposalInv, RecordStands
  <1>2. records[r].revision \in Int
    BY <1>1 DEF GovernedRecord
  <1>3. ASSUME records[r].authorization # NoReference
        PROVE  /\ AuthorizationOf(r) = authorizations[records[r].authorization]
               /\ AuthorizationOf(r) \in Authorization /\ AuthorizationOf(r).revision \in Int
    <2>1. records[r].authorization \in DestructionIds
      BY <1>1, <1>3 DEF GovernedRecord
    <2>2. AuthorizationOf(r) \in Authorization
      BY <2>1 DEF AuthorizationOf, DisposalInv
    <2> QED
      BY <2>2 DEF Authorization, AuthorizationOf
  <1> QED
    BY <1>1, <1>2, <1>3 DEF DisposalInv, AuthorizationHolds

LEMMA RetentionStarted ==
  ASSUME DisposalInv, NEW r \in Holdings, NEW day \in 0 .. MaxClock, StartRetention(r, day)
  PROVE  DisposalInv'
  <1>1. records[r] # NoRecord
    BY DEF StartRetention
  <1>2. records[r] \in GovernedRecord /\ Registered(records[r].policy)
    BY <1>1, WhatItRefersTo
  <1>3. PICK q : q = [records[r] EXCEPT !.start = day, !.revision = @ + 1]
    OBVIOUS
  <1>4. /\ records[r].revision \in Int /\ records[r].revision + 1 \in 1 .. MaxRevision + 1
        /\ day \in -1 .. MaxClock
    BY <1>2, DisposalAssumption DEF StartRetention, GovernedRecord
  <1>5. /\ q \in GovernedRecord /\ q.policy = records[r].policy /\ q.state = records[r].state
        /\ q.authorization = records[r].authorization /\ q.revision = records[r].revision + 1
    BY <1>2, <1>3, <1>4 DEF GovernedRecord
  <1>6. records' = [records EXCEPT ![r] = q] /\ standing' = standing
        /\ UNCHANGED <<clock, versions, authorizations, evidence, holds>>
    BY <1>3 DEF StartRetention, DisposalInv
  <1>7. ASSUME r \in standing', q.authorization # NoReference
        PROVE  /\ authorizations[q.authorization] # NoAuthorization
               /\ authorizations[q.authorization].record = r =>
                     Speaks(authorizations[q.authorization], q, versions[q.policy], clock)
    <2>1. /\ authorizations[q.authorization] = AuthorizationOf(r)
          /\ AuthorizationOf(r).revision \in Int /\ AuthorizationOf(r) # NoAuthorization
          /\ AuthorizationOf(r).record = r =>
                Speaks(AuthorizationOf(r), records[r], versions[records[r].policy], clock)
      BY <1>1, <1>5, <1>6, <1>7, WhatItRefersTo
    <2>2. ASSUME Speaks(AuthorizationOf(r), records[r], versions[records[r].policy], clock)
          PROVE  Speaks(AuthorizationOf(r), q, versions[q.policy], clock)
      <3>1. AuthorizationOf(r).revision < q.revision /\ q.state # "active"
        BY <1>4, <1>5, <2>1, <2>2 DEF Speaks
      <3>2. AuthorizationOf(r).revision <= q.revision /\ AuthorizationOf(r).revision # q.revision
        BY <1>4, <1>5, <2>1, <3>1
      <3> QED
        BY <3>1, <3>2 DEF Speaks
    <2> QED
      BY <2>1, <2>2
  <1>8. evidence' \in [Holdings -> [policy : Policies \cup {0}]]
    BY <1>6 DEF DisposalInv
  <1> QED
    BY <1>2, <1>5, <1>6, <1>7, <1>8, RecordWritten

LEMMA DestructionAuthorized ==
  ASSUME DisposalInv, NEW r \in Holdings, NEW a \in DestructionIds, AuthorizeDestruction(r, a)
  PROVE  DisposalInv'
  <1>1. records[r] # NoRecord
    BY DEF AuthorizeDestruction, NoRecord
  <1>2. /\ records[r] \in GovernedRecord /\ Registered(records[r].policy)
        /\ records[r].policy \in Policies
    BY <1>1, WhatItRefersTo DEF GovernedRecord
  <1>3. PICK w : w = [record |-> r, policy |-> records[r].policy,
                      revision |-> records[r].revision + 1,
                      destructive |-> versions[records[r].policy].destructive]
    OBVIOUS
  <1>4. PICK q : q = [records[r] EXCEPT !.state = "disposal_authorized", !.revision = @ + 1,
                                        !.authorization = a]
    OBVIOUS
  <1>5. /\ records[r].revision + 1 \in 0 .. MaxRevision
        /\ records[r].revision + 1 \in 1 .. MaxRevision + 1
    BY <1>2, DisposalAssumption DEF AuthorizeDestruction, GovernedRecord
  <1>6. versions[records[r].policy].destructive \in BOOLEAN
    BY <1>2, BoundContent
  <1>7. /\ w \in Authorization /\ w.record = r /\ w.policy = records[r].policy
        /\ w.revision = records[r].revision + 1
        /\ w.destructive = versions[records[r].policy].destructive
    BY <1>2, <1>3, <1>5, <1>6 DEF Authorization
  <1>8. /\ q \in GovernedRecord /\ q.policy = records[r].policy
        /\ q.state = "disposal_authorized" /\ q.authorization = a
        /\ q.revision = records[r].revision + 1 /\ q.start = records[r].start
    BY <1>2, <1>4, <1>5 DEF GovernedRecord
  <1>9. w # NoAuthorization
    BY <1>7, DisposalAssumption DEF NoAuthorization
  <1>10. records' = [records EXCEPT ![r] = q]
    BY <1>4 DEF AuthorizeDestruction, DisposalInv
  <1>11. authorizations' = [authorizations EXCEPT ![a] = w]
    BY <1>3 DEF AuthorizeDestruction
  <1>12. /\ records'[r] = q /\ \A s \in Holdings \ {r} : records'[s] = records[s]
         /\ authorizations'[a] = w
         /\ \A b \in DestructionIds \ {a} : authorizations'[b] = authorizations[b]
         /\ authorizations' \in [DestructionIds -> Authorization]
    BY <1>7, <1>10, <1>11 DEF DisposalInv
  <1>13. UNCHANGED <<clock, versions, evidence, holds>> /\ standing' = standing \cup {r}
    BY DEF AuthorizeDestruction
  <1>14. RecordStands(r)' /\ AuthorizationHolds(r)'
    <2>1. RecordStands(r)'
      BY <1>2, <1>8, <1>12, <1>13, NoSuchRecord DEF RecordStands, Registered
    <2>2. q.start # NotStarted /\ q.start + versions[q.policy].days <= clock
      BY <1>8 DEF AuthorizeDestruction, Eligible, DueAt
    <2>3. w.revision <= q.revision /\ w.destructive = versions[q.policy].destructive
      BY <1>5, <1>7, <1>8
    <2>4. Speaks(w, q, versions[q.policy], clock)
      BY <1>8, <2>2, <2>3 DEF Speaks
    <2>5. AuthorizationOf(r)' = w
      BY <1>8, <1>12 DEF AuthorizationOf
    <2> QED
      BY <1>9, <1>12, <1>13, <2>1, <2>4, <2>5 DEF AuthorizationHolds
  <1>15. ASSUME NEW s \in Holdings, s # r
         PROVE  RecordStands(s)' /\ AuthorizationHolds(s)'
    <2>1. RecordStands(s) /\ AuthorizationHolds(s) /\ records'[s] = records[s]
          /\ (s \in standing' => s \in standing)
      BY <1>12, <1>13, <1>15 DEF DisposalInv
    <2>2. RecordStands(s)'
      BY <1>13, <2>1 DEF RecordStands, Registered
    <2>3. CASE records[s].authorization = a
      <3>1. AuthorizationOf(s)' = w
        BY <1>12, <2>1, <2>3 DEF AuthorizationOf
      <3> QED
        BY <1>7, <1>9, <1>15, <2>2, <3>1 DEF AuthorizationHolds
    <2>4. CASE records[s].authorization # a
      <3>1. ASSUME s \in standing', records'[s].authorization # NoReference
            PROVE  AuthorizationOf(s)' = AuthorizationOf(s)
        <4>1. records[s].authorization \in DestructionIds
          BY <2>1, <3>1 DEF RecordStands, GovernedRecord
        <4> QED
          BY <1>12, <2>1, <2>4, <4>1 DEF AuthorizationOf
      <3> QED
        BY <1>13, <2>1, <2>2, <3>1 DEF AuthorizationHolds
    <2> QED
      BY <2>3, <2>4
  <1> QED
    BY <1>10, <1>12, <1>13, <1>14, <1>15 DEF DisposalInv

LEMMA DestructionExecuted ==
  ASSUME DisposalInv, NEW r \in Holdings, ExecuteDestruction(r)
  PROVE  DisposalInv'
  <1>1. records[r] # NoRecord /\ records[r].authorization # NoReference
    BY DEF ExecuteDestruction
  <1>2. records[r] \in GovernedRecord /\ Registered(records[r].policy)
        /\ records[r].revision \in Int
        /\ AuthorizationOf(r) = authorizations[records[r].authorization]
        /\ AuthorizationOf(r) \in Authorization /\ AuthorizationOf(r).revision \in Int
        /\ (r \in standing => AuthorizationOf(r) # NoAuthorization)
        /\ (r \in standing /\ AuthorizationOf(r).record = r =>
               Speaks(AuthorizationOf(r), records[r], versions[records[r].policy], clock))
    BY <1>1, WhatItRefersTo
  <1>3. evidence' \in [Holdings -> [policy : Policies \cup {0}]]
    <2>1. AuthorizationOf(r).policy \in Policies \cup {0}
      BY <1>2 DEF Authorization
    <2> QED
      BY <2>1 DEF ExecuteDestruction, DisposalInv
  <1>4. UNCHANGED <<clock, versions, authorizations, holds>> /\ standing' = standing
    BY DEF ExecuteDestruction
  <1>5. CASE records[r].state = "disposal_authorized"
    <2>1. PICK q : q = Destroyed(records[r])
      OBVIOUS
    <2>2. AuthorizationOf(r).revision = records[r].revision /\ AuthorizationOf(r).revision <= MaxRevision
      BY <1>2 DEF ExecuteDestruction, Current, Authorization
    <2>3. records[r].revision + 1 \in 1 .. MaxRevision + 1
      BY <1>2, <2>2, DisposalAssumption DEF GovernedRecord
    <2>4. /\ q \in GovernedRecord /\ q.policy = records[r].policy /\ q.state = "destroyed"
          /\ q.authorization = records[r].authorization /\ q.revision = records[r].revision + 1
      BY <1>2, <2>1, <2>3 DEF Destroyed, GovernedRecord
    <2>5. records' = [records EXCEPT ![r] = q]
      BY <1>5, <2>1 DEF ExecuteDestruction, DisposalInv
    <2>6. /\ AuthorizationOf(r).revision <= q.revision /\ AuthorizationOf(r).revision < q.revision
          /\ AuthorizationOf(r).revision # q.revision
      BY <1>2, <2>2, <2>4
    <2>7. Speaks(AuthorizationOf(r), q, versions[q.policy], clock)
      BY <2>4, <2>6 DEF Speaks
    <2> QED
      BY <1>2, <1>3, <1>4, <2>4, <2>5, <2>7, RecordWritten
  <1>6. CASE records[r].state # "disposal_authorized"
    <2>1. records' = [records EXCEPT ![r] = records[r]]
      BY <1>6 DEF ExecuteDestruction, DisposalInv
    <2> QED
      BY <1>2, <1>3, <1>4, <2>1, RecordWritten
  <1> QED
    BY <1>5, <1>6

LEMMA HoldsChanged ==
  ASSUME DisposalInv, NEW h \in HoldIds,
         \/ \E scope \in (SUBSET Holdings) \ {{}} : PlaceHold(h, scope)
         \/ ReleaseHold(h) \/ MarkHoldIndeterminate(h)
  PROVE  DisposalInv'
  <1>1. holds' \in [HoldIds -> HoldRecord]
    <2>1. ASSUME NEW scope \in SUBSET Holdings, PlaceHold(h, scope)
          PROVE  holds' \in [HoldIds -> HoldRecord]
      BY <2>1 DEF PlaceHold, HoldRecord, DisposalInv
    <2>2. ASSUME NEW s \in {"released", "indeterminate"},
                 holds' = [holds EXCEPT ![h].status = s]
          PROVE  holds' \in [HoldIds -> HoldRecord]
      BY <2>2 DEF HoldRecord, DisposalInv
    <2> QED
      BY <2>1, <2>2 DEF ReleaseHold, MarkHoldIndeterminate
  <1>2. UNCHANGED <<clock, versions, records, authorizations, evidence, standing>>
    BY DEF PlaceHold, ReleaseHold, MarkHoldIndeterminate
  <1>3. clock \in Int
    BY DisposalAssumption DEF DisposalInv
  <1> QED
    BY <1>1, <1>2, <1>3, RecordsKept DEF DisposalInv

LEMMA DisposalStep == DisposalInv /\ [DisposalNext]_disposalVars => DisposalInv'
  <1> SUFFICES ASSUME DisposalInv, [DisposalNext]_disposalVars
               PROVE  DisposalInv'
    OBVIOUS
  <1>1. clock \in Int /\ clock <= clock
    BY DisposalAssumption DEF DisposalInv
  <1>2. CASE UNCHANGED disposalVars
    BY <1>1, <1>2, RecordsKept DEF disposalVars, DisposalInv
  <1>3. ASSUME NEW v \in Policies, NEW content \in Contents, RegisterPolicy(v, content)
        PROVE  DisposalInv'
    BY <1>1, <1>3, RecordsKept, ContentKept DEF RegisterPolicy, DisposalInv
  <1>4. CASE DayPasses
    <2>1. clock' \in 0 .. MaxClock /\ clock <= clock'
      BY <1>1, <1>4, DisposalAssumption DEF DayPasses, DisposalInv
    <2> QED
      BY <1>4, <2>1, RecordsKept DEF DayPasses, DisposalInv
  <1> QED
    BY <1>2, <1>3, <1>4, Superseded, RecordRegistered, RetentionStarted, DestructionAuthorized,
       DestructionExecuted, HoldsChanged DEF DisposalNext

LEMMA DisposalInvHolds == DisposalSpec => []DisposalInv
  BY DisposalStart, DisposalStep, PTL DEF DisposalSpec

(* Policies, records, authorizations, evidence and holds keep their types. *)
THEOREM DisposalTypeCorrect == DisposalSpec => []DisposalTypeOK
  <1>1. DisposalInv => DisposalTypeOK
    BY DEF DisposalInv, DisposalTypeOK, RecordStands, AuthorizationHolds, HoldRecord
  <1> QED
    BY <1>1, DisposalInvHolds, PTL

(* For any records, policy versions, holds and submissions: whatever       *)
(* happened between authorization and execution, evidence is recorded once *)
(* and under no hold that forbids it; a record that goes by its own        *)
(* authorization is due under the version it is bound to and is destroyed. *)
THEOREM DestructionIsLawful == DisposalSpec => DisposalIsLawful
  <1> DEFINE Lawful(r) == evidence[r] # evidence'[r] =>
               /\ evidence[r] = NoEvidence /\ evidence'[r].policy = records[r].policy
               /\ ~Undetermined(r)
               /\ ~(Blocked(r) /\ AuthorizationOf(r).destructive)
               /\ OwnAuthorization(r) => Eligible(r) /\ records'[r].state = "destroyed"
  <1>1. ASSUME DisposalInv, NEW q \in Holdings, ExecuteDestruction(q), NEW r \in Holdings
        PROVE  Lawful(r)
    <2>1. CASE r # q
      BY <1>1, <2>1 DEF ExecuteDestruction, DisposalInv
    <2>2. CASE r = q
      <3>1. /\ Current(r) /\ records[r].authorization # NoReference /\ records[r] # NoRecord
            /\ evidence[r] = NoEvidence /\ ~Undetermined(r)
            /\ ~(Blocked(r) /\ AuthorizationOf(r).destructive)
            /\ evidence'[r] = [policy |-> AuthorizationOf(r).policy]
        BY <1>1, <2>2 DEF ExecuteDestruction, DisposalInv
      <3>2. evidence'[r].policy = records[r].policy
        BY <3>1 DEF Current
      <3>3. ASSUME OwnAuthorization(r)
            PROVE  Eligible(r) /\ records'[r].state = "destroyed"
        <4>1. /\ Speaks(AuthorizationOf(r), records[r], versions[records[r].policy], clock)
              /\ records[r] \in GovernedRecord
              /\ records[r].revision \in Int
          BY <1>1, <3>1, <3>3, WhatItRefersTo DEF OwnAuthorization
        <4>2. /\ records[r].start # NotStarted /\ DueAt(r) <= clock
              /\ AuthorizationOf(r).destructive = versions[records[r].policy].destructive
          BY <3>1, <4>1 DEF Speaks, Current, DueAt
        <4>3. Eligible(r)
          BY <3>1, <4>2 DEF Eligible
        <4>4. records[r].state # "active" /\ records[r].state # "destroyed"
          BY <3>1, <4>1 DEF Speaks, Current
        <4>5. records[r].state = "disposal_authorized"
          BY <4>1, <4>4 DEF GovernedRecord
        <4>6. records'[r] = Destroyed(records[r])
          BY <1>1, <2>2, <4>5 DEF ExecuteDestruction, DisposalInv
        <4> QED
          BY <4>1, <4>3, <4>6 DEF Destroyed, GovernedRecord
      <3> QED
        BY <3>1, <3>2, <3>3
    <2> QED
      BY <2>1, <2>2
  <1>2. DisposalInv /\ [DisposalNext]_disposalVars =>
            [\A r \in Holdings : Lawful(r)]_disposalVars
    <2> SUFFICES ASSUME DisposalInv, DisposalNext
                 PROVE  \A r \in Holdings : Lawful(r)
      OBVIOUS
    <2>1. CASE UNCHANGED evidence
      BY <2>1
    <2>2. CASE \E q \in Holdings : ExecuteDestruction(q)
      BY <1>1, <2>2
    <2> QED
      BY <2>1, <2>2 DEF DisposalNext, RegisterPolicy, SupersedePolicy, RegisterRecord,
         StartRetention, AuthorizeDestruction, PlaceHold, ReleaseHold, MarkHoldIndeterminate,
         DayPasses
  <1> QED
    BY <1>2, DisposalInvHolds, PTL DEF DisposalSpec, DisposalIsLawful
=============================================================================
