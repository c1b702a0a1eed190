----------------------------- MODULE Guardians -----------------------------
(***************************************************************************)
(* The guardians of the reference voting service: the ceremony in which    *)
(* they deal shares of a secret that none of them holds                    *)
(* (guardians/ceremony.py), ballots encrypted to their joint key and added *)
(* up without opening them (crypto/elgamal.py), and the decryption of the  *)
(* sum by a quorum (guardians/threshold.py, tally_accepted_threshold), for *)
(* one option of one contest.  The arithmetic is the code's, in the group  *)
(* of order Order modulo Prime.  A Chaum-Pedersen proof is abstracted to   *)
(* the statement it proves, and is taken to be sound.                      *)
(***************************************************************************)
EXTENDS Integers, Sequences, FiniteSets
LOCAL INSTANCE SequencesExt
LOCAL INSTANCE Functions

CONSTANTS
    Prime,           \* modulus of the group
    Order,           \* order of the subgroup
    Generator,       \* its generator
    GuardianCount,   \* guardians
    QuorumSize,      \* how many of them a decryption takes
    Coefficients,    \* coefficients a guardian may draw
    Nonces,          \* nonces a voter may draw
    MaxBallots,      \* bound: ballots that are cast
    NoKey,           \* value of jointKey before the ceremony is complete
    Refused          \* answer of a decryption that is refused

(* QuorumPolicy.validate: two quorums always meet.                         *)
ASSUME QuorumIsMajority == QuorumSize \in 1 .. GuardianCount /\ 2 * QuorumSize > GuardianCount

VARIABLES
    commitments,     \* what each guardian has published of its polynomial
    keyShares,       \* the share of the joint secret each guardian holds
    jointKey,        \* the public key of the transcript
    sum,             \* ciphertext of the accepted ballots' sum
    choices            \* what the accepted ballots say, in order; no code holds it

guardianVars == <<commitments, keyShares, jointKey, sum, choices>>

Roster == 1 .. GuardianCount
Polynomials == [1 .. QuorumSize -> Coefficients]

GuardianInit ==
    /\ commitments = [i \in Roster |-> <<>>]
    /\ keyShares = [i \in Roster |-> 0]
    /\ jointKey = NoKey
    /\ sum = [alpha |-> 1, beta |-> 1]
    /\ choices = <<>>

-----------------------------------------------------------------------------
(* Arithmetic *)

RECURSIVE PowerIn(_, _, _)
PowerIn(b, e, n) == IF e = 0 THEN 1 ELSE (b * PowerIn(b, e - 1, n)) % n

Power(b, e) == PowerIn(b, e, Prime)

(* Fermat's inverse modulo the prime n, as the code takes it: x^(n-2).     *)
Inverted(x, n) == PowerIn(x, n - 2, n)

(* is_in_subgroup                                                          *)
Member(x) == x \in 1 .. Prime - 1 /\ Power(x, Order) = 1

(* The product of f's values modulo n, and their sum modulo the order.    *)
Product(f, n) == FoldFunction(LAMBDA x, y : (x * y) % n, 1, f)
SumOf(f) == FoldFunction(LAMBDA x, y : (x + y) % Order, 0, f)

(* _evaluate, with the constant term first.                                *)
PolynomialAt(c, x) == FoldRight(LAMBDA a, v : (v * x + a) % Order, c, 0)

(* _commitment_product: the exponent is reduced modulo the group's order.  *)
CommitmentProduct(c, x) ==
    LET exponent[j \in 1 .. QuorumSize] == IF j = 1 THEN 1 ELSE (exponent[j - 1] * x) % Order
    IN  Product([j \in DOMAIN c |-> Power(c[j], exponent[j])], Prime)

(* The share of an honest guardian, and of one that deals wrong shares to  *)
(* the others.                                                             *)
Dealt(c, receiver, wrong) == (PolynomialAt(c, receiver) + (IF wrong THEN 1 ELSE 0)) % Order

-----------------------------------------------------------------------------
(* The ceremony *)

(* Mutant of ShareMatches: the commitments are checked, the share is not.  *)
ShareIsInRange(share, receiver, c) ==
    share \in 0 .. Order - 1 /\ \A j \in DOMAIN c : Member(c[j])

(* verify_share of ceremony.py                                             *)
ShareMatches(share, receiver, c) ==
    /\ \A j \in DOMAIN c : Member(c[j])
    /\ Power(Generator, share) = CommitmentProduct(c, receiver)

(* run_ceremony: a single share that does not match what its sender has    *)
(* published ends it, without a transcript.                                *)
RunCeremony(poly, cheat) ==
    LET public == [i \in Roster |-> [j \in 1 .. QuorumSize |-> Power(Generator, poly[i][j])]]
        share(i, l) == Dealt(poly[i], l, i = cheat /\ l # i)
    IN  /\ jointKey = NoKey
        /\ \A i, l \in Roster : ShareMatches(share(i, l), l, public[i])
        /\ commitments' = public
        /\ keyShares' = [l \in Roster |-> SumOf([i \in Roster |-> share(i, l)])]
        /\ jointKey' = Product([i \in Roster |-> public[i][1]], Prime)
        /\ UNCHANGED <<sum, choices>>

-----------------------------------------------------------------------------
(* Ballots *)

(* encrypt, and accumulate with the ballots accepted before.               *)
CastBallot(m, r) ==
    /\ jointKey # NoKey
    /\ Member(jointKey)
    /\ Len(choices) < MaxBallots
    /\ sum' = [alpha |-> (sum.alpha * Power(Generator, r)) % Prime,
               beta  |-> (sum.beta * Power(jointKey, r) * Power(Generator, m)) % Prime]
    /\ choices' = Append(choices, m)
    /\ UNCHANGED <<commitments, keyShares, jointKey>>

GuardianNext ==
    \/ \E poly \in [Roster -> Polynomials], cheat \in 0 .. GuardianCount : RunCeremony(poly, cheat)
    \/ \E m \in {0, 1}, r \in Nonces : CastBallot(m, r)

GuardianSpec == GuardianInit /\ [][GuardianNext]_guardianVars

-----------------------------------------------------------------------------
(* Decryption *)

(* guardian_public_share_key, from commitments alone.                      *)
PublicShareKey(l) == Product([i \in Roster |-> CommitmentProduct(commitments[i], l)], Prime)

(* verify_share of threshold.py, with what the proof states: that one      *)
(* exponent leads to both the guardian's key and the share.                *)
ShareIsProved(share, alpha) ==
    /\ share.by \in Roster
    /\ Member(share.value) /\ Member(alpha)
    /\ LET key == PublicShareKey(share.by)
       IN  \E s \in 0 .. Order - 1 : Power(Generator, s) = key /\ Power(alpha, s) = share.value

Presenters(shares) == {shares[i].by : i \in DOMAIN shares}

(* Distinct guardians, enough of them, and every share proved.             *)
ProvedQuorum(shares, alpha) ==
    /\ Cardinality(Presenters(shares)) = Len(shares)
    /\ Len(shares) >= QuorumSize
    /\ \A i \in DOMAIN shares : ShareIsProved(shares[i], alpha)

(* Mutant of Weight: the differences are taken the other way around.       *)
WeightTurned(l, selection) ==
    LET others == selection \ {l}
    IN  (Product([j \in others |-> j], Order)
         * Inverted(Product([j \in others |-> (l - j) % Order], Order), Order)) % Order

(* lagrange_coefficient; the inverse is taken modulo the prime Order.      *)
Weight(l, selection) ==
    LET others == selection \ {l}
        below  == Product([j \in others |-> (j - l) % Order], Order)
    IN  (Product([j \in others |-> j], Order) * Inverted(below, Order)) % Order

(* decode_exponent: a search of the bounded domain.                        *)
Decoded(x, maximum) ==
    IF \E m \in 0 .. maximum : Power(Generator, m) = x
    THEN CHOOSE m \in 0 .. maximum :
            Power(Generator, m) = x /\ \A n \in 0 .. m - 1 : Power(Generator, n) # x
    ELSE Refused

(* combine_shares of a list of shares [by, value].                         *)
Combined(shares) ==
    LET opened == Product([i \in DOMAIN shares |->
                           Power(shares[i].value, Weight(shares[i].by, Presenters(shares)))], Prime)
    IN  IF ProvedQuorum(shares, sum.alpha)
        THEN Decoded((sum.beta * Inverted(opened, Prime)) % Prime, Len(choices))
        ELSE Refused

-----------------------------------------------------------------------------
(* Verification of a record [encrypted, shares, plaintext] of the option *)

(* derive_joint_public_key                                                 *)
DerivedKey == Product([i \in Roster |-> commitments[i][1]], Prime)

(* verify_record, as to the ceremony, the shares and the tally; the ballots *)
(* it accumulates again are the accepted ones.                             *)
RecordVerifies(record) ==
    /\ Member(jointKey) /\ jointKey = DerivedKey
    /\ record.shares # <<>> => ProvedQuorum(record.shares, record.encrypted.alpha)
    /\ record.encrypted = sum

-----------------------------------------------------------------------------
(* Properties *)

GuardianTypeOK ==
    /\ commitments \in [Roster -> {<<>>} \cup [1 .. QuorumSize -> 1 .. Prime - 1]]
    /\ keyShares \in [Roster -> 0 .. Order - 1]
    /\ jointKey \in {NoKey} \cup 1 .. Prime - 1
    /\ sum \in [alpha : 1 .. Prime - 1, beta : 1 .. Prime - 1]
    /\ choices \in Seq({0, 1}) /\ Len(choices) <= MaxBallots

(* What compute_share of a guardian answers.                               *)
TrueShare(l) == [by |-> l, value |-> Power(sum.alpha, keyShares[l])]

(* Shares that may be presented: every guardian's, the same raised by one  *)
(* power of the generator, and one of a stranger to the ceremony.          *)
Presentable ==
    {TrueShare(l) : l \in Roster}
    \cup {[TrueShare(l) EXCEPT !.value = (@ * Generator) % Prime] : l \in Roster}
    \cup {[by |-> GuardianCount + 1, value |-> sum.alpha]}

Lists == UNION {[1 .. n -> Presentable] : n \in 0 .. GuardianCount}

Genuine(shares) ==
    /\ \A i \in DOMAIN shares : shares[i] \in {TrueShare(l) : l \in Roster}
    /\ Cardinality(Presenters(shares)) = Len(shares)
    /\ Len(shares) >= QuorumSize

Yes == Cardinality({i \in DOMAIN choices : choices[i] = 1})

(* Once a ceremony is complete, any quorum of guardians opens the sum of   *)
(* the ballots to what the voters chose, whichever guardians they are and  *)
(* in whatever order they present their shares, and any other list of      *)
(* shares is refused: one too short, with a share twice, a wrong share or  *)
(* a stranger's.  The verifier agrees with what the guardians did, and     *)
(* takes no other shares either.                                           *)
EveryQuorumOpensTheSum ==
    choices # <<>> =>
        \A shares \in Lists :
            /\ Combined(shares) = IF Genuine(shares) THEN Yes ELSE Refused
            /\ shares # <<>> =>
                  (Genuine(shares) <=>
                      RecordVerifies([encrypted |-> sum, shares |-> shares, plaintext |-> Yes]))

(* The requirement on a verifier that the combined decryption matches the  *)
(* published result (PACK-16C-INDEPENDENT-VERIFIER-REQUIREMENTS.md:28).    *)
VerifiedResultIsTheDecryption ==
    choices # <<>> =>
        \A shares \in {l \in Lists : Genuine(l)}, n \in 0 .. MaxBallots :
            RecordVerifies([encrypted |-> sum, shares |-> shares, plaintext |-> n])
                => n = Combined(shares)
=============================================================================
