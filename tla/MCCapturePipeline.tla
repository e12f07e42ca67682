------------------------- MODULE MCCapturePipeline -------------------------
(* CapturePipeline with two workers and queues of two elements, so that    *)
(* both queues fill up.  The workers run the same code on the same state,  *)
(* so they may be exchanged where no liveness is checked.                  *)
EXTENDS CapturePipeline, TLC

WorkerSymmetry == Permutations(Workers)
=============================================================================
