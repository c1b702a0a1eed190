----------------------------- MODULE BoardTrees -----------------------------
(***************************************************************************)
(* The Merkle trees of the reference voting service (crypto/merkle.py) over *)
(* bulletin boards (publication/bulletin_board.py): roots, inclusion and   *)
(* consistency proofs, and their verification by a reader who knows roots  *)
(* only.  Two boards of one election are fed entries independently, as a   *)
(* board and a mirror that may show another history are.  A digest is the  *)
(* term it hashes: hashes are taken to be injective, which is what the     *)
(* labels of the domain separation are for.                                *)
(***************************************************************************)
EXTENDS Integers, Sequences
LOCAL INSTANCE SequencesExt

CONSTANTS
    Boards,        \* boards of the election
    Payloads,      \* contents of entries
    MaxEntries     \* bound: entries of a board

VARIABLE entries   \* [Boards -> payloads of the board's entries, in order]

boardVars == <<entries>>

BoardInit == entries = [b \in Boards |-> <<>>]

(* append; close appends in the same way.                                  *)
AppendEntry(b, x) ==
    /\ Len(entries[b]) < MaxEntries
    /\ entries' = [entries EXCEPT ![b] = Append(@, x)]

BoardNext == \E b \in Boards, x \in Payloads : AppendEntry(b, x)

BoardSpec == BoardInit /\ [][BoardNext]_boardVars

-----------------------------------------------------------------------------
(* Trees *)

(* leaf_hash of BoardEntry.digest, which binds the entry's position, and   *)
(* node_hash.                                                              *)
LeafHash(i, x) == <<"leaf", i, x>>
NodeHash(l, r) == <<"node", l, r>>

Hashes(h) == [i \in DOMAIN h |-> LeafHash(i, h[i])]

Left(s, k) == SubSeq(s, 1, k)
Right(s, k) == SubSeq(s, k + 1, Len(s))

Powers == {1, 2, 4, 8, 16}

(* Mutant of Split: the largest power of two not above half of n.          *)
SplitInHalf(n) == CHOOSE k \in Powers : 2 * k <= n /\ n < 4 * k

(* The largest power of two strictly less than n.                          *)
Split(n) == CHOOSE k \in Powers : k < n /\ n <= 2 * k

RECURSIVE TreeRoot(_)
TreeRoot(s) ==
    IF s = <<>> THEN <<"empty">>
    ELSE IF Len(s) = 1 THEN s[1]
    ELSE LET k == Split(Len(s)) IN NodeHash(TreeRoot(Left(s, k)), TreeRoot(Right(s, k)))

(* The sibling path of the i-th leaf, with the side each sibling is on.    *)
RECURSIVE Path(_, _)
Path(s, i) ==
    IF Len(s) <= 1 THEN <<>>
    ELSE LET k == Split(Len(s))
         IN  IF i <= k
             THEN Append(Path(Left(s, k), i), <<"right", TreeRoot(Right(s, k))>>)
             ELSE Append(Path(Right(s, k), i - k), <<"left", TreeRoot(Left(s, k))>>)

(* _consistency: the subtrees that tell the first m leaves from the rest.  *)
RECURSIVE Subtrees(_, _, _)
Subtrees(s, m, complete) ==
    IF m = Len(s) THEN IF complete THEN <<>> ELSE <<TreeRoot(s)>>
    ELSE LET k == Split(Len(s))
         IN  IF m <= k
             THEN Append(Subtrees(Left(s, k), m, complete), TreeRoot(Right(s, k)))
             ELSE Append(Subtrees(Right(s, k), m - k, FALSE), TreeRoot(Left(s, k)))

Size(b) == Len(entries[b])
Root(b) == TreeRoot(Hashes(entries[b]))
ConsistencyProof(b, m) == Subtrees(Hashes(entries[b]), m, TRUE)
InclusionProof(b, i) == Path(Hashes(entries[b]), i)

-----------------------------------------------------------------------------
(* Verification *)

Climb(node, sibling) ==
    IF sibling[1] = "right" THEN NodeHash(node, sibling[2]) ELSE NodeHash(sibling[2], node)

VerifyInclusion(leaf, path, root) == FoldLeft(Climb, leaf, path) = root

Odd(n) == n % 2 = 1
Halved(w) == [w EXCEPT !.old = @ \div 2, !.new = @ \div 2]

(* The two loops that shift while the old position is odd, and while it is *)
(* even and not zero.                                                      *)
RECURSIVE PastOdd(_), PastEven(_)
PastOdd(w) == IF Odd(w.old) THEN PastOdd(Halved(w)) ELSE w
PastEven(w) == IF w.old # 0 /\ ~ Odd(w.old) THEN PastEven(Halved(w)) ELSE w

(* Mutant of Joins: the last node of the old tree is not looked for.       *)
JoinsIfOdd(w) == Odd(w.old)

(* The sibling belongs to both trees.                                      *)
Joins(w) == Odd(w.old) \/ w.old = w.new

(* One round of the verifier's loop over the proof's nodes: the positions  *)
(* of the last leaves and the two roots computed so far.                   *)
Round(w, sibling) ==
    IF w.new = 0 THEN [w EXCEPT !.failed = TRUE]
    ELSE IF Joins(w)
    THEN Halved(PastEven([w EXCEPT !.oldRoot = NodeHash(sibling, @),
                                   !.newRoot = NodeHash(sibling, @)]))
    ELSE Halved([w EXCEPT !.newRoot = NodeHash(@, sibling)])

(* verify_consistency                                                      *)
VerifyConsistency(oldRoot, m, newRoot, n, proof) ==
    LET nodes == IF m \in Powers THEN <<oldRoot>> \o proof ELSE proof
        start == PastOdd([old |-> m - 1, new |-> n - 1, failed |-> FALSE,
                          oldRoot |-> nodes[1], newRoot |-> nodes[1]])
        end   == FoldLeft(Round, start, Tail(nodes))
    IN  IF m < 1 \/ m > n THEN FALSE
        ELSE IF m = n THEN proof = <<>> /\ oldRoot = newRoot
        ELSE /\ nodes # <<>>
             /\ ~ end.failed /\ end.new = 0
             /\ end.oldRoot = oldRoot /\ end.newRoot = newRoot

-----------------------------------------------------------------------------
(* Properties *)

BoardTypeOK ==
    /\ \A b \in Boards : entries[b] \in Seq(Payloads) /\ Len(entries[b]) <= MaxEntries

(* A reader who holds the root of one board, and gets the root of another  *)
(* as large and that board's proof, accepts exactly if the one's history   *)
(* begins the other's: no honest proof is refused, and no proof of a board *)
(* with another past is accepted.  As every prefix of a history was the    *)
(* history once, this speaks of all earlier sizes too.                     *)
ConsistencyIsExact ==
    \A b, c \in Boards : Size(b) \in 1 .. Size(c) =>
        (VerifyConsistency(Root(b), Size(b), Root(c), Size(c), ConsistencyProof(c, Size(b)))
            <=> IsPrefix(entries[b], entries[c]))

(* A path leads from a leaf to a root exactly if the leaf is the entry at  *)
(* that position of that board.                                            *)
InclusionIsExact ==
    \A b, c \in Boards : \A i \in 1 .. Size(c) :
        i <= Size(b) =>
            (VerifyInclusion(LeafHash(i, entries[b][i]), InclusionProof(c, i), Root(c))
                <=> entries[b][i] = entries[c][i])

(* What a reader who sees only roots and proofs believes of the boards'    *)
(* histories is so.                                                        *)
ProofsTellHistories == ConsistencyIsExact /\ InclusionIsExact
=============================================================================
