------------------------- MODULE MCIngestionPipeline -------------------------
(* Instances of IngestionPipeline for TLC. *)
EXTENDS IngestionPipeline, TLC

CONSTANTS w1, w2

OneWorker == {w1}
TwoWorkers == {w1, w2}
WorkerSymmetry == Permutations(Workers)
=============================================================================
