--------------------------- MODULE MCPublication ---------------------------
(* Small instances of Publication for TLC.                                 *)
EXTENDS Publication, TLC

CONSTANTS c1, c2, e1, e2, e3, b1, b2, k1, k2, d1

(* e1 and e3 are different envelopes under one ballot id.                  *)
MCBallotIdOf == (e1 :> b1) @@ (e2 :> b2) @@ (e3 :> b1)

Symmetric == Permutations({c1, c2}) \cup Permutations({k1, k2})
=============================================================================
