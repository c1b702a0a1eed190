---------------------------- MODULE ElectionResult ----------------------------
(***************************************************************************)
(* What closing an election promises, with the leaves, the seals, the      *)
(* board and every intermediate read left out, while submissions go on.    *)
(*                                                                         *)
(* Ballots are accepted as in Acceptance.  At one instant the election is  *)
(* called: the roll is what clients had been answered by then, each ballot *)
(* with its kind, its leaf and its bytes.  From then on the roll stands.   *)
(* What is counted is its casts, and the record, when there is one, is the *)
(* roll, no ballot more and none less, although the procedure that builds  *)
(* it reads the store leaf by leaf while submissions commit and roll back. *)
(*                                                                         *)
(* Publication implements this specification: see                          *)
(* Publication!PublishesTheResult.                                         *)
(***************************************************************************)
EXTENDS Acceptance

VARIABLES
    called,     \* whether the election has been called
    roll,       \* the ballots it was called with
    counted,    \* the ballots whose ciphertexts were accumulated
    record      \* the ballots of the election record

closing == <<called, roll, counted, record>>

Answered == {s \in Ops \X Keys : answer[s] # None}

Standing ==
    {[kind |-> s[1], leaf |-> leaf[BallotIdOf[answer[s]]], envelope |-> answer[s]] :
        s \in Answered}

Casts(ballots) == {BallotIdOf[x.envelope] : x \in {y \in ballots : y.kind = "cast"}}

RInit ==
    /\ AInit
    /\ called = FALSE
    /\ roll = {} /\ counted = {} /\ record = {}

Call ==
    /\ ~called
    /\ called' = TRUE
    /\ roll' = Standing
    /\ UNCHANGED <<avars, counted, record>>

Count ==
    /\ called
    /\ counted' = Casts(roll)
    /\ UNCHANGED <<avars, called, roll, record>>

Conclude ==
    /\ called
    /\ counted = Casts(roll)
    /\ record' = roll
    /\ UNCHANGED <<avars, called, roll, counted>>

RNext ==
    \/ UNCHANGED closing /\ ANext
    \/ Call \/ Count \/ Conclude

RSpec == RInit /\ [][RNext]_<<avars, closing>>
=============================================================================
