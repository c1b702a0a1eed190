------------------------------ MODULE Delegation ------------------------------
(* The delegation service of one scope: a voter delegates to another one,  *)
(* the delegation is activated, suspended, revoked or runs out, and a      *)
(* ballot freezes who carries whose vote.  Every command runs alone, over  *)
(* stores in memory; the hard part is the order in which commands on       *)
(* several delegations come.  Translated from                              *)
(* services/delegation-service/src/epd2_delegation_service/.               *)
EXTENDS Naturals, Sequences, FiniteSets

CONSTANTS
    Voters,           \* actors, as delegators and as delegates
    Ballots,          \* ballots that freeze a snapshot
    Never,            \* valid_until of a delegation without an end
    MaxDelegations,   \* bound: delegations ever created
    MaxDays,          \* bound: instants the clock shows
    MaxSnapshots      \* bound: snapshots frozen

ASSUME DelegationAssumption ==
    /\ IsFiniteSet(Voters)
    /\ MaxDelegations \in Nat /\ MaxDays \in Nat /\ MaxSnapshots \in Nat
    /\ Never \notin Nat

VARIABLES
    delegations,   \* InMemoryDelegationStore._records, in insertion order
    snapshots,     \* InMemoryDelegationSnapshotStore._by_key
    day            \* what the clock shows

delegationVars == <<delegations, snapshots, day>>

Statuses == {"draft", "active", "revoked", "expired", "suspended", "invalid"}

ALLOWED_TRANSITIONS ==
    {<<"draft", "active">>, <<"draft", "invalid">>,
     <<"active", "revoked">>, <<"active", "expired">>, <<"active", "suspended">>,
     <<"active", "invalid">>, <<"suspended", "active">>, <<"suspended", "revoked">>}

DelegationInit == delegations = <<>> /\ snapshots = <<>> /\ day = 0

(* find_active_delegation_for: the active delegations from a voter, and    *)
(* the one the store's scan meets first.                                   *)
ActiveFrom(v) ==
    {i \in DOMAIN delegations : delegations[i].from = v /\ delegations[i].status = "active"}

FirstFrom(v) == CHOOSE i \in ActiveFrom(v) : \A j \in ActiveFrom(v) : i <= j

DelegateOf(v) == delegations[FirstFrom(v)].to

(* find_active_delegation_where_delegate.                                  *)
ActiveTo(v) ==
    {i \in DOMAIN delegations : delegations[i].to = v /\ delegations[i].status = "active"}

(* find_blocking_delegation_for.                                           *)
BlockingFrom(v) ==
    {i \in DOMAIN delegations :
        delegations[i].from = v /\ delegations[i].status \in {"draft", "active"}}

(* create_delegation: neither end may already be the other end of an       *)
(* active delegation, and the delegator may have no other draft or active  *)
(* one.                                                                    *)
CreateDelegation(v, w, until) ==
    /\ Len(delegations) < MaxDelegations
    /\ v # w
    /\ ActiveTo(v) = {} /\ ActiveFrom(w) = {}
    /\ BlockingFrom(v) = {}
    /\ delegations' = Append(delegations,
           [from |-> v, to |-> w, until |-> until, status |-> "draft"])
    /\ UNCHANGED <<snapshots, day>>

(* with_status and save.                                                   *)
Transition(i, target) ==
    /\ <<delegations[i].status, target>> \in ALLOWED_TRANSITIONS
    /\ delegations' = [delegations EXCEPT ![i].status = target]
    /\ UNCHANGED <<snapshots, day>>

(* activate_delegation, which the table also lets leave suspended.         *)
ActivateDelegation(i) ==
    /\ delegations[i].until # Never => day < delegations[i].until
    /\ Transition(i, "active")

RevokeDelegation(i) == Transition(i, "revoked")
ExpireDelegation(i) == Transition(i, "expired")
SuspendDelegation(i) == Transition(i, "suspended")
MarkDelegationInvalid(i) == Transition(i, "invalid")

(* unsuspend_delegation: no look at valid_until, and the table also lets   *)
(* it leave draft.                                                         *)
UnsuspendDelegation(i) == Transition(i, "active")

(* resolve_active_delegate, over the voters: whose vote somebody else      *)
(* would carry, and whose contribution is left out because that delegate   *)
(* delegates too.                                                          *)
Resolved(direct) == {v \in Voters \ direct : ActiveFrom(v) # {}}
Excluded(direct) == {v \in Resolved(direct) : ActiveFrom(DelegateOf(v)) # {}}

(* Mutant of ResolvedWeights: every active delegation counts, not the      *)
(* first one of its delegator.                                             *)
EveryDelegationCounts(direct) ==
    [w \in Voters |->
        Cardinality({i \in ActiveTo(w) :
            delegations[i].from \in Resolved(direct) \ Excluded(direct)})]

ResolvedWeights(direct) ==
    [w \in Voters |->
        Cardinality({v \in Resolved(direct) \ Excluded(direct) : DelegateOf(v) = w})]

(* resolve_delegation_snapshot: the first result for a ballot and its      *)
(* inputs is kept; the same result again answers the stored snapshot, and  *)
(* another one is refused.                                                 *)
ResolveSnapshot(ballot, direct) ==
    LET key == <<ballot, direct>> IN
    /\ key \notin DOMAIN snapshots
    /\ Cardinality(DOMAIN snapshots) < MaxSnapshots
    /\ snapshots' = [k \in DOMAIN snapshots \cup {key} |->
           IF k = key
           THEN [weights |-> ResolvedWeights(direct), cycles |-> Excluded(direct)]
           ELSE snapshots[k]]
    /\ UNCHANGED <<delegations, day>>

(* The clock.                                                              *)
Tomorrow == day < MaxDays /\ day' = day + 1 /\ UNCHANGED <<delegations, snapshots>>

DelegationNext ==
    \/ \E v, w \in Voters, until \in (1..MaxDays) \cup {Never} : CreateDelegation(v, w, until)
    \/ \E i \in DOMAIN delegations :
          \/ ActivateDelegation(i)
          \/ RevokeDelegation(i)
          \/ ExpireDelegation(i)
          \/ SuspendDelegation(i)
          \/ UnsuspendDelegation(i)
          \/ MarkDelegationInvalid(i)
    \/ \E ballot \in Ballots, direct \in SUBSET Voters : ResolveSnapshot(ballot, direct)
    \/ Tomorrow

DelegationSpec == DelegationInit /\ [][DelegationNext]_delegationVars

-----------------------------------------------------------------------------
(* The type of the state.                                                  *)
DelegationTypeOK ==
    /\ delegations \in Seq([from : Voters, to : Voters, until : (1..MaxDays) \cup {Never},
                            status : Statuses])
    /\ Len(delegations) <= MaxDelegations
    /\ DOMAIN snapshots \subseteq Ballots \X SUBSET Voters
    /\ \A k \in DOMAIN snapshots :
          /\ snapshots[k].weights \in [Voters -> Nat]
          /\ snapshots[k].cycles \in SUBSET Voters
    /\ day \in 0..MaxDays

(* The votes a snapshot grants, one by one: the first, second, ... of each *)
(* voter who carries any.                                                  *)
Granted(s) == UNION {{w} \X (1 .. s.weights[w]) : w \in Voters}

(* A ballot carries every vote at most once, however many delegations the  *)
(* voters built up and in whatever order: the weights a snapshot grants    *)
(* and the votes it leaves out fit into the voters who did not vote        *)
(* themselves, none of the votes left out is carried after all by a voter  *)
(* who delegates on (resolve_delegation_snapshot).                         *)
VotesAreCarriedOnce ==
    \A k \in DOMAIN snapshots :
        LET s == snapshots[k] IN
        /\ Cardinality(Granted(s)) + Cardinality(s.cycles)
              <= Cardinality(Voters \ k[2])
        /\ \A v \in s.cycles : s.weights[v] = 0
=============================================================================
