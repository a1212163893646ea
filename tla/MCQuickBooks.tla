---------------------------- MODULE MCQuickBooks ----------------------------
(* Instance of QuickBooks: two companies whose accounts overlap. *)
EXTENDS QuickBooks, TLC

CONSTANTS acme, beta, s1, s2

MCChart == acme :> {1, 2} @@ beta :> {2, 3}

(* The coroutines are alike, and all properties are invariants. *)
MCSymmetry == Permutations(Sync)
=============================================================================
