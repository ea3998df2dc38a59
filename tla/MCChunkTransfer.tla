--------------------------- MODULE MCChunkTransfer ---------------------------
(* ChunkTransfer for TLC: requests are interchangeable, and so are mergers. *)
(* One workload lets the clock run, the other stops it and merges.          *)
EXTENDS ChunkTransfer, TLC

Symmetry == Permutations(Requests) \cup Permutations(Mergers)

LinkWorkload  == [handlers |-> {"init"}, links |-> FALSE,
                  ticks |-> 4, requests |-> 3, puts |-> 0, merges |-> 0]
MergeWorkload == [handlers |-> {"init", "presign", "complete"}, links |-> TRUE,
                  ticks |-> 0, requests |-> 3, puts |-> 3, merges |-> 2]
MCWorkloads   == {LinkWorkload, MergeWorkload}
=============================================================================
