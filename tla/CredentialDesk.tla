--------------------------- MODULE CredentialDesk ---------------------------
(***************************************************************************)
(* What the voting credential issuer promises, with its workers, their     *)
(* connections, the locks and every intermediate step left out.            *)
(*                                                                         *)
(* A batch of requests takes effect in one indivisible step, or not at     *)
(* all.  It is a batch, and not one request, because a refused request     *)
(* leaves its writes to the next commit of its connection.  The step       *)
(*   - pays for every credential it issues with an assertion nonce of that *)
(*     credential's own, which had never been spent,                       *)
(*   - answers an idempotency key only with a credential of the batch, and *)
(*     no two keys with the same,                                          *)
(*   - gives a capability for a credential only if it never gave one,      *)
(*   - marks a credential redeemed only if there is a capability for it,   *)
(*     and never issues again what was redeemed or revoked, and            *)
(*   - hands out at most one credential or capability, a capability only   *)
(*     in the step that records it.                                        *)
(*                                                                         *)
(* VotingCredential implements this specification: see                     *)
(* VotingCredential!KeepsThePromise.                                       *)
(***************************************************************************)

CONSTANTS
    Nonces,         \* assertion nonces
    Keys,           \* idempotency keys chosen by clients
    Ids,            \* credential ids and redemption references
    None            \* "no value"

VARIABLES
    spent,          \* nonces that pay for nothing any more
    status,         \* [Ids -> None or the status of the credential]
    answer,         \* [Keys -> None or the credential answered with]
    capability,     \* [Ids -> None or the credential it was given for]
    handed          \* what clients hold: <<"issue" or "redeem", id>>

deskVars == <<spent, status, answer, capability, handed>>

Known == {c \in Ids : status[c] # None}

Used(c) == \E r \in Ids : capability[r] = c

OneToOne(f) == \A x, y \in DOMAIN f : f[x] = f[y] => x = y

Over(f, g) == [x \in DOMAIN g |-> IF x \in DOMAIN f THEN f[x] ELSE g[x]]

DeskInit ==
    /\ spent = {}
    /\ status = [c \in Ids |-> None]
    /\ answer = [k \in Keys |-> None]
    /\ capability = [r \in Ids |-> None]
    /\ handed = {}

Charge(new) ==
    \E nonces \in SUBSET (Nonces \ spent) :
        /\ spent' = spent \cup nonces
        /\ \E paid \in [new -> nonces] : OneToOne(paid)

Answer(new) ==
    \E asked \in SUBSET Keys : \E reply \in [asked -> new] :
        OneToOne(reply) /\ answer' = Over(reply, answer)

Redeem(new) ==
    \E given \in SUBSET {r \in Ids : capability[r] = None} :
    \E for \in [given -> {c \in Known \cup new : ~Used(c)}] :
        OneToOne(for) /\ capability' = Over(for, capability)

Mark(new) ==
    /\ status' \in [Ids -> {"issued", "redeemed", "revoked", None}]
    /\ \A c \in Ids :
          /\ status'[c] # None <=> c \in Known \cup new
          /\ c \in Known /\ status[c] # "issued" => status'[c] # "issued"
          /\ status'[c] = "issued" => ~Used(c)'
          /\ status'[c] = "redeemed" => Used(c)'

HandOut ==
    \/ UNCHANGED handed
    \/ \E c \in Ids : status'[c] # None /\ handed' = handed \cup {<<"issue", c>>}
    \/ \E r \in Ids : /\ capability[r] = None /\ capability'[r] # None
                      /\ handed' = handed \cup {<<"redeem", r>>}

Settle ==
    /\ \E new \in SUBSET (Ids \ Known) :
          Charge(new) /\ Answer(new) /\ Redeem(new) /\ Mark(new)
    /\ HandOut

DeskSpec == DeskInit /\ [][Settle]_deskVars
=============================================================================
