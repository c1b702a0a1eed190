------------------------- MODULE MCVotingCredential -------------------------
(* Small instances of VotingCredential for TLC.                            *)
EXTENDS VotingCredential, TLC

CONSTANTS w1, w2, n1, n2, k1, k2

Symmetric == Permutations({w1, w2}) \cup Permutations({n1, n2}) \cup Permutations({k1, k2})
=============================================================================
