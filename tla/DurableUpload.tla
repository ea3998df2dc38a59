---------------------------- MODULE DurableUpload ----------------------------
(***************************************************************************)
(* What the upload service promises about the bytes a client has sent: an  *)
(* upload is merged only from a complete set of chunks, published only     *)
(* when it is merged, and a chunk leaves the store only once the merged    *)
(* object has taken its place.  Nothing else of the service shows: no      *)
(* rows, no status, no queue, no worker, and no failure.                   *)
(***************************************************************************)
CONSTANTS Uploads, Index

VARIABLES
    stored,     \* per upload, the chunks in the store
    merged,     \* the uploads whose merged object is in the store
    published   \* the uploads that a video was made of

vars == <<stored, merged, published>>

Init ==
    /\ stored = [u \in Uploads |-> {}]
    /\ merged = {}
    /\ published = {}

Put(u, i) ==
    /\ stored' = [stored EXCEPT ![u] = @ \cup {i}]
    /\ UNCHANGED <<merged, published>>

Merge(u) ==
    /\ stored[u] = Index
    /\ merged' = merged \cup {u}
    /\ UNCHANGED <<stored, published>>

Reclaim(u, D) ==
    /\ u \in merged
    /\ stored' = [stored EXCEPT ![u] = @ \ D]
    /\ UNCHANGED <<merged, published>>

Publish(u) ==
    /\ u \in merged
    /\ published' = published \cup {u}
    /\ UNCHANGED <<stored, merged>>

Next ==
    \E u \in Uploads :
        \/ \E i \in Index : Put(u, i)
        \/ \E D \in SUBSET Index : Reclaim(u, D)
        \/ Merge(u)
        \/ Publish(u)

Spec == Init /\ [][Next]_vars
=============================================================================
