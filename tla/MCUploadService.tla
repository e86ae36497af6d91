---------------------------- MODULE MCUploadService ----------------------------
(* UploadService for TLC: requests that are alike, contents that are alike.  *)
EXTENDS UploadService, TLC

CONSTANTS u1, u2, u3, c1, c2

One == {u3}
Two == {u1, u2}
Three == {u1, u2, u3}
TwoContents == {c1, c2}
PairSymmetry == Permutations(Two) \union Permutations(TwoContents)
=============================================================================
