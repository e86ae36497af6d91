---------------------------- MODULE MCVectorIndex ----------------------------
(* VectorIndex for TLC: uploads that are alike, workers that are alike.     *)
EXTENDS VectorIndex, TLC

CONSTANTS u1, u2, w1, w2

\* Two uploads that may share their first passage; a book of three passages
\* needs two batches of vectors and two of points, and repeats a text.
MCBooks == {<<1>>, <<1, 2, 1>>, <<2, 1>>}
Symmetry == Permutations({u1, u2}) \union Permutations({w1, w2})

=============================================================================
