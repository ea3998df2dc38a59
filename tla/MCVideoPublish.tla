--------------------------- MODULE MCVideoPublish ---------------------------
(* Constants of the runs of VideoPublish.                                  *)
EXTENDS VideoPublish, TLC

ProcSymmetry == Permutations(Requests) \cup Permutations(Calls)
=============================================================================
