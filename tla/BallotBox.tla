------------------------------ MODULE BallotBox ------------------------------
(***************************************************************************)
(* The voting service around one ballot (voting-service application.py and *)
(* storage.py), with the participation credentials it asks for             *)
(* (credential-service application.py and validation.py): configuration is *)
(* frozen against an eligibility snapshot, credentials of that snapshot    *)
(* cast votes while the ballot is open, a later vote supersedes a          *)
(* validated one, and receipts are issued.  Commands run one at a time; a  *)
(* refused one changes nothing.  An envelope's hash is computed from the   *)
(* fields it is stored with, so that validate_vote never rejects one.      *)
(***************************************************************************)
EXTENDS Integers, Sequences

CONSTANTS
    Staff,         \* who creates and approves ballots
    OptionIds,       \* ballot options
    Papers,        \* credential ids
    Snapshots,     \* digests of eligibility snapshots
    Undecided,     \* no snapshot yet, nobody yet
    ClosesAt,      \* Ballot.closes_at
    MaxHour,       \* bound: hours the clock runs
    MaxVotes       \* bound: envelopes cast

ASSUME BallotBoxAssumption ==
    /\ Undecided \notin Snapshots \cup Staff
    /\ ClosesAt \in Nat /\ MaxHour \in Nat /\ MaxVotes \in Nat

VARIABLES
    boxHour,      \* the clock
    ballot,    \* status, creator and frozen_eligibility_snapshot_digest
    options,   \* [OptionIds -> BallotOption.status, or "none"]
    papers,    \* [Papers -> ParticipationCredential, or NoPaper]
    votes,     \* the envelopes, in the order they were created
    receipts,  \* indices of the envelopes a receipt was issued for
    mandate    \* the governance service holds a current approved decision
               \* (ballot_invalidation) about this ballot

boxVars == <<boxHour, ballot, options, papers, votes, receipts, mandate>>

NoPaper == [status |-> "none"]

BoxInit ==
    /\ boxHour = 0
    /\ ballot = [status |-> "none", creator |-> Undecided, digest |-> Undecided]
    /\ options = [o \in OptionIds |-> "none"]
    /\ papers = [p \in Papers |-> NoPaper]
    /\ votes = <<>>
    /\ receipts = {}
    /\ mandate = FALSE

-----------------------------------------------------------------------------
(* The ballot *)

CreateBallot(staff) ==
    /\ ballot.status = "none"
    /\ ballot' = [ballot EXCEPT !.status = "draft", !.creator = staff]
    /\ UNCHANGED <<boxHour, options, papers, votes, receipts, mandate>>

AddOption(o) ==
    /\ ballot.status = "draft"
    /\ options[o] = "none"
    /\ options' = [options EXCEPT ![o] = "active"]
    /\ UNCHANGED <<boxHour, ballot, papers, votes, receipts, mandate>>

(* submit_ballot_for_configuration_review freezes the snapshot's digest.   *)
SubmitConfiguration(digest) ==
    /\ ballot.status = "draft"
    /\ ballot' = [ballot EXCEPT !.status = "configuration_review", !.digest = digest]
    /\ UNCHANGED <<boxHour, options, papers, votes, receipts, mandate>>

ApproveConfiguration(staff) ==
    /\ ballot.status = "configuration_review"
    /\ staff # ballot.creator
    /\ ballot' = [ballot EXCEPT !.status = "scheduled"]
    /\ UNCHANGED <<boxHour, options, papers, votes, receipts, mandate>>

OpenBallot ==
    /\ ballot.status = "scheduled"
    /\ ballot' = [ballot EXCEPT !.status = "open"]
    /\ options' = [o \in OptionIds |-> IF options[o] = "active" THEN "locked" ELSE options[o]]
    /\ UNCHANGED <<boxHour, papers, votes, receipts, mandate>>

(* pause_ballot, resume_ballot, close_ballot, cancel_ballot                *)
BallotTransitions ==
    {<<"open", "paused">>, <<"paused", "open">>, <<"open", "closed">>,
     <<"draft", "cancelled">>, <<"configuration_review", "cancelled">>,
     <<"scheduled", "cancelled">>}

MoveBallot(target) ==
    /\ <<ballot.status, target>> \in BallotTransitions
    /\ ballot' = [ballot EXCEPT !.status = target]
    /\ UNCHANGED <<boxHour, options, papers, votes, receipts, mandate>>

(* invalidate_ballot, under a decision that is_current_approved_decision.  *)
InvalidateBallot ==
    /\ ballot.status \in {"draft", "configuration_review", "scheduled"}
    /\ mandate
    /\ ballot' = [ballot EXCEPT !.status = "invalidated"]
    /\ UNCHANGED <<boxHour, options, papers, votes, receipts, mandate>>

(* The governance service approves a decision or supersedes it.            *)
GovernanceDecides ==
    /\ mandate' = ~mandate
    /\ UNCHANGED <<boxHour, ballot, options, papers, votes, receipts>>

-----------------------------------------------------------------------------
(* Participation credentials *)

IssueCredential(p, digest, expires) ==
    /\ papers[p] = NoPaper
    /\ papers' = [papers EXCEPT ![p] =
                    [status |-> "issued", digest |-> digest, expires |-> expires]]
    /\ UNCHANGED <<boxHour, ballot, options, votes, receipts, mandate>>

RevokeCredential(p) ==
    /\ papers[p].status = "issued"
    /\ papers' = [papers EXCEPT ![p].status = "revoked"]
    /\ UNCHANGED <<boxHour, ballot, options, votes, receipts, mandate>>

(* validate_credential, scoped to this ballot                              *)
ValidPaper(p) ==
    /\ papers[p].status = "issued"
    /\ boxHour < papers[p].expires
    /\ papers[p].digest = ballot.digest

-----------------------------------------------------------------------------
(* Votes *)

Envelope(p, choice) ==
    [paper |-> p, choice |-> choice, at |-> boxHour, status |-> "received"]

(* find_validated_for_credential: the first in the order of creation.      *)
Validated(p) == {i \in DOMAIN votes : votes[i].paper = p /\ votes[i].status = "validated"}
Existing(p) == {i \in Validated(p) : \A j \in Validated(p) : i <= j}

(* The envelopes after the one found, if any, is superseded.               *)
Superseding(p) ==
    [i \in DOMAIN votes |->
       IF i \in Existing(p) THEN [votes[i] EXCEPT !.status = "superseded"] ELSE votes[i]]

(* What cast_vote checks before it looks at the envelope it is given.      *)
MayCast(p) == ballot.status = "open" /\ boxHour < ClosesAt /\ ValidPaper(p)

(* Mutant of CastVote: the old vote is superseded first, and the create    *)
(* that follows is refused for an envelope id that is taken.               *)
CastSupersedingFirst(p, choice) ==
    /\ MayCast(p)
    /\ \/ Len(votes) < MaxVotes /\ votes' = Append(Superseding(p), Envelope(p, choice))
       \/ votes # <<>> /\ votes' = Superseding(p)
    /\ UNCHANGED <<boxHour, ballot, options, papers, receipts, mandate>>

(* cast_vote under a new envelope id; another's content is refused.        *)
CastVote(p, choice) ==
    /\ MayCast(p)
    /\ Len(votes) < MaxVotes
    /\ votes' = Append(Superseding(p), Envelope(p, choice))
    /\ UNCHANGED <<boxHour, ballot, options, papers, receipts, mandate>>

(* cast_vote again with the id and content of an envelope still received,  *)
(* in the same hour: the stored one is returned, and what has been         *)
(* validated meanwhile is superseded.                                      *)
CastAgain(i) ==
    LET p == votes[i].paper
    IN  /\ MayCast(p)
        /\ votes[i] = Envelope(p, votes[i].choice)
        /\ votes' = Superseding(p)
        /\ UNCHANGED <<boxHour, ballot, options, papers, receipts, mandate>>

(* validate_vote looks at the envelope alone, whatever the ballot's status.*)
ValidateVote(i) ==
    /\ votes[i].status = "received"
    /\ votes' = [votes EXCEPT ![i].status = "validated"]
    /\ UNCHANGED <<boxHour, ballot, options, papers, receipts, mandate>>

IssueReceipt(i) ==
    /\ votes[i].status = "validated"
    /\ receipts' = receipts \cup {i}
    /\ UNCHANGED <<boxHour, ballot, options, papers, votes, mandate>>

NextHour ==
    /\ boxHour < MaxHour
    /\ boxHour' = boxHour + 1
    /\ UNCHANGED <<ballot, options, papers, votes, receipts, mandate>>

BoxNext ==
    \/ \E staff \in Staff : CreateBallot(staff) \/ ApproveConfiguration(staff)
    \/ \E o \in OptionIds : AddOption(o)
    \/ \E d \in Snapshots : SubmitConfiguration(d)
    \/ OpenBallot \/ InvalidateBallot \/ GovernanceDecides \/ NextHour
    \/ \E target \in {"paused", "open", "closed", "cancelled"} : MoveBallot(target)
    \/ \E p \in Papers :
          \/ \E d \in Snapshots, expires \in 1 .. MaxHour : IssueCredential(p, d, expires)
          \/ RevokeCredential(p)
          \/ \E choice \in OptionIds : CastVote(p, choice)
    \/ \E i \in DOMAIN votes : CastAgain(i) \/ ValidateVote(i) \/ IssueReceipt(i)

BoxSpec == BoxInit /\ [][BoxNext]_boxVars

-----------------------------------------------------------------------------
(* Properties *)

VoteEnvelope ==
    [paper : Papers, choice : OptionIds, at : 0 .. MaxHour,
     status : {"received", "validated", "superseded"}]

(* Types; an open ballot's options are locked, and whatever is in the box  *)
(* was cast in time by a credential of the snapshot the ballot is bound to.*)
BoxTypeOK ==
    /\ boxHour \in 0 .. MaxHour
    /\ ballot.status \in {"none", "draft", "configuration_review", "scheduled", "open",
                          "paused", "closed", "cancelled", "invalidated"}
    /\ ballot.creator \in Staff \cup {Undecided}
    /\ ballot.digest \in Snapshots \cup {Undecided}
    /\ ballot.status \in {"scheduled", "open", "paused", "closed"} => ballot.digest # Undecided
    /\ \A o \in OptionIds :
          /\ options[o] \in {"none", "active", "locked"}
          /\ ballot.status \in {"open", "paused", "closed"} => options[o] # "active"
    /\ \A p \in Papers : papers[p] # NoPaper =>
          papers[p] \in [status : {"issued", "revoked"}, digest : Snapshots, expires : 1 .. MaxHour]
    /\ votes \in Seq(VoteEnvelope) /\ Len(votes) <= MaxVotes
    /\ \A i \in DOMAIN votes :
          LET paper == papers[votes[i].paper]
          IN  votes[i].at < ClosesAt /\ votes[i].at < paper.expires /\ paper.digest = ballot.digest
    /\ receipts \subseteq {i \in DOMAIN votes : votes[i].status # "received"}
    /\ mandate \in BOOLEAN

(* A voter's vote is superseded only for another of the same credential    *)
(* that still stands: whatever order casts, retries and validations come   *)
(* in, whoever had a vote has one that counts or can still be validated.   *)
VotesAreNotLost ==
    \A i \in DOMAIN votes : votes[i].status = "superseded" =>
        \E j \in DOMAIN votes \ {i} :
            /\ votes[j].paper = votes[i].paper
            /\ votes[j].status \in {"received", "validated"}

(* storage.py, VoteEnvelopeStore.find_validated_for_credential: "At most   *)
(* one such envelope can exist at a time by construction".                 *)
OneValidatedVote == \A i, j \in DOMAIN votes :
    i \in Validated(votes[j].paper) /\ j \in Validated(votes[i].paper) => i = j
=============================================================================
