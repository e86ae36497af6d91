---------------------------- MODULE MCHybridRetrieval ----------------------------
(* HybridRetrieval for TLC: two chunks of one passage and one of another.       *)
EXTENDS HybridRetrieval

CONSTANTS c1, c2, c3

ThreeChunks == {c1, c2, c3}
Overlaps == c1 :> 1 @@ c2 :> 2 @@ c3 :> 0
Passages == c1 :> "first" @@ c2 :> "second" @@ c3 :> "second"
=============================================================================
