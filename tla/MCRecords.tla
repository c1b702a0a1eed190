---------------------------- MODULE MCRecords -------------------------------
(* The services that keep records: delegations, events, the books and their *)
(* reports, retention, the ballot box, governance, boards and the           *)
(* guardians.  They share no state here: a behaviour picks one component,   *)
(* active, and exercises it alone.                                          *)
EXTENDS Delegation, EventDelivery, FinanceLedger, RecordDisposal, BallotBox, Governance,
        FinanceReports, BoardTrees, Guardians, FinancePayments, FinanceIncome, TLC

(* Names are shared between components, which never meet.                   *)
CONSTANTS a1, a2, a3, a4, p1, p2, r1, v1, v2, none

VARIABLE active     \* the component this behaviour exercises

MCHolderOf == <<1, 2, 1, 2, 1, 2>>
MCCodeOf == <<"policy_proposer", "policy_approver", "overseer", "overseer",
              "reviewer", "reviewer">>
MCTermOf == (p1 :> 1) @@ (p2 :> 1) @@ (r1 :> 1)
MCRolesOf == (a1 :> {"auditor", "org_administrator"})
             @@ (a2 :> {"administrator", "signatory"})
             @@ (a3 :> {"administrator", "signatory"})
MCActorOf == (v1 :> v1) @@ (v2 :> v2)

(* A record with a retention start, and two carrying an authorization id    *)
(* nobody gave for them and a revision the authorization may come to have.  *)
Carrying(state) ==
    [state |-> state, policy |-> 1, revision |-> 2, start |-> -1, authorization |-> r1]
MCSubmitted ==
    {[state |-> "active", policy |-> 1, revision |-> 1, start |-> 0,
      authorization |-> none],
     Carrying("active"), Carrying("disposal_authorized")}

(* Bound on disposal: of a second record, a hold and a second policy        *)
(* version, a behaviour has at most two.                                    *)
RelatedDisposals ==
    \/ \E r \in Holdings : records[r] = NoRecord
    \/ \A h \in HoldIds : holds[h] = NoHold
    \/ \E v \in Policies : ~Registered(v)

recordsVars ==
    <<delegationVars, deliveryVars, ledgerVars, disposalVars, boxVars, governanceVars,
      reportVars, boardVars, guardianVars, paymentVars, incomeVars, active>>

RecordsInit ==
    /\ active \in {"delegation", "delivery", "ledger", "disposal", "box", "governance",
                  "reports", "board", "guardians", "payments", "income"}
    /\ DelegationInit /\ DeliveryInit /\ LedgerInit /\ DisposalInit
    /\ BoxInit /\ GovernanceInit /\ ReportsInit /\ BoardInit
    /\ GuardianInit /\ PaymentInit /\ IncomeInit

DelegationStep == active = "delegation" /\ DelegationNext
    /\ UNCHANGED <<deliveryVars, ledgerVars, disposalVars, boxVars, governanceVars,
                   reportVars, boardVars, guardianVars, paymentVars, incomeVars, active>>
DeliveryStep == active = "delivery" /\ DeliveryNext
    /\ UNCHANGED <<delegationVars, ledgerVars, disposalVars, boxVars, governanceVars,
                   reportVars, boardVars, guardianVars, paymentVars, incomeVars, active>>
LedgerStep == active = "ledger" /\ LedgerNext
    /\ UNCHANGED <<delegationVars, deliveryVars, disposalVars, boxVars, governanceVars,
                   reportVars, boardVars, guardianVars, paymentVars, incomeVars, active>>
DisposalStep == active = "disposal" /\ DisposalNext /\ RelatedDisposals'
    /\ UNCHANGED <<delegationVars, deliveryVars, ledgerVars, boxVars, governanceVars,
                   reportVars, boardVars, guardianVars, paymentVars, incomeVars, active>>
BoxStep == active = "box" /\ BoxNext
    /\ UNCHANGED <<delegationVars, deliveryVars, ledgerVars, disposalVars,
                   governanceVars, reportVars, boardVars, guardianVars, paymentVars,
                   incomeVars, active>>
GovernanceStep == active = "governance" /\ GovernanceNext
    /\ UNCHANGED <<delegationVars, deliveryVars, ledgerVars, disposalVars, boxVars,
                   reportVars, boardVars, guardianVars, paymentVars, incomeVars, active>>
FinanceReportsStep == active = "reports" /\ ReportsNext
    /\ UNCHANGED <<delegationVars, deliveryVars, ledgerVars, disposalVars, boxVars,
                   governanceVars, boardVars, guardianVars, paymentVars, incomeVars,
                   active>>
BoardStep == active = "board" /\ BoardNext
    /\ UNCHANGED <<delegationVars, deliveryVars, ledgerVars, disposalVars, boxVars,
                   governanceVars, reportVars, guardianVars, paymentVars, incomeVars,
                   active>>
GuardianStep == active = "guardians" /\ GuardianNext
    /\ UNCHANGED <<delegationVars, deliveryVars, ledgerVars, disposalVars, boxVars,
                   governanceVars, reportVars, boardVars, paymentVars, incomeVars,
                   active>>
PaymentStep == active = "payments" /\ PaymentNext
    /\ UNCHANGED <<delegationVars, deliveryVars, ledgerVars, disposalVars, boxVars,
                   governanceVars, reportVars, boardVars, guardianVars, incomeVars,
                   active>>
IncomeStep == active = "income" /\ IncomeNext
    /\ UNCHANGED <<delegationVars, deliveryVars, ledgerVars, disposalVars, boxVars,
                   governanceVars, reportVars, boardVars, guardianVars, paymentVars,
                   active>>

RecordsNext ==
    \/ DelegationStep \/ DeliveryStep \/ LedgerStep \/ DisposalStep
    \/ BoxStep \/ GovernanceStep \/ FinanceReportsStep \/ BoardStep
    \/ GuardianStep \/ PaymentStep \/ IncomeStep

RecordsSpec == RecordsInit /\ [][RecordsNext]_recordsVars

(* The component in use keeps its types, with the bounds they state of      *)
(* ceilings, windows and locks.                                             *)
RecordsTypeOK ==
    /\ active = "delegation" => DelegationTypeOK
    /\ active = "delivery" => DeliveryTypeOK
    /\ active = "ledger" => LedgerTypeOK
    /\ active = "disposal" => DisposalTypeOK
    /\ active = "box" => BoxTypeOK
    /\ active = "governance" => GovernanceTypeOK
    /\ active = "reports" => ReportsTypeOK
    /\ active = "board" => BoardTypeOK
    /\ active = "guardians" => GuardianTypeOK
    /\ active = "payments" => PaymentTypeOK
    /\ active = "income" => IncomeTypeOK

Symmetric == Permutations({a2, a3}) \cup Permutations({p1, p2})
=============================================================================
