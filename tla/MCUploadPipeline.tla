-------------------------- MODULE MCUploadPipeline --------------------------
(* Constants of the runs of UploadPipeline.                                *)
EXTENDS UploadPipeline, TLC

RequestSymmetry == Permutations(Requests)
=============================================================================
