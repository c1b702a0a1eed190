----------------------------- MODULE Acceptance -----------------------------
(***************************************************************************)
(* What the casting boundary of the voting service promises, with the      *)
(* transaction, the lock, the outbox and every intermediate step left out. *)
(*                                                                         *)
(* A submission either has no effect at all, or in one indivisible step    *)
(*   - spends the entitlement it needed (a public challenge spends the     *)
(*     challenge entitlement, a cast spends everything),                   *)
(*   - puts one ballot, never seen before, in the box it was meant for,    *)
(*   - gives that ballot a leaf of the batch that no other ballot holds    *)
(*     and that its kind is entitled to,                                   *)
(*   - answers its idempotency key, once and for all,                      *)
(*   - and owes the ballot's publication.                                  *)
(*                                                                         *)
(* Casting implements this specification: see Casting!Promise.             *)
(***************************************************************************)
EXTENDS Naturals

CONSTANTS
    Capabilities,       \* continuation capabilities issued to voters
    Envelopes,          \* encrypted ballots
    BallotIds,          \* public ballot identifiers
    BallotIdOf,         \* [Envelopes -> BallotIds]
    Keys,               \* idempotency keys chosen by clients
    Batches,            \* batch sequence numbers
    CastLeaves,         \* leaves an accepted cast may take
    ChallengeLeaves,    \* leaves a public challenge may take
    None                \* "no value"

VARIABLES
    entitlement,    \* [Capabilities -> {"full", "castOnly", "spent"}]
    box,            \* [BallotIds -> {None, "cast", "challenge"}]
    leaf,           \* [BallotIds -> None or <<batch, leaf>>]
    answer,         \* [Ops \X Keys -> None or the envelope answered for]
    owed            \* the ballots whose publication has been promised

avars == <<entitlement, box, leaf, answer, owed>>

Ops == {"cast", "challenge"}

AInit ==
    /\ entitlement = [c \in Capabilities |-> "full"]
    /\ box = [b \in BallotIds |-> None]
    /\ leaf = [b \in BallotIds |-> None]
    /\ answer = [s \in Ops \X Keys |-> None]
    /\ owed = {}

Eligible(op) == IF op = "cast" THEN CastLeaves ELSE ChallengeLeaves

(* The entitlement a capability must still have, and what it has left.     *)
Entitled(op, c) ==
    IF op = "cast" THEN entitlement[c] \in {"full", "castOnly"}
                   ELSE entitlement[c] = "full"

Left(op) == IF op = "cast" THEN "spent" ELSE "castOnly"

Accept(op, c, e, k, n, l) ==
    LET id == BallotIdOf[e] IN
    /\ answer[<<op, k>>] = None
    /\ answer' = [answer EXCEPT ![<<op, k>>] = e]
    /\ Entitled(op, c)
    /\ box[id] = None
    /\ l \in Eligible(op)
    /\ \A b \in BallotIds : leaf[b] # <<n, l>>
    /\ entitlement' = [entitlement EXCEPT ![c] = Left(op)]
    /\ box' = [box EXCEPT ![id] = op]
    /\ leaf' = [leaf EXCEPT ![id] = <<n, l>>]
    /\ owed' = owed \cup {id}

ANext ==
    \E op \in Ops, c \in Capabilities, e \in Envelopes, k \in Keys,
       n \in Batches : \E l \in Eligible(op) : Accept(op, c, e, k, n, l)

ASpec == AInit /\ [][ANext]_avars

=============================================================================
