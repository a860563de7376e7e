-------------------------- MODULE MCStorageEngine --------------------------
(* Small instances of StorageEngine for TLC. *)
EXTENDS StorageEngine, TLC

CONSTANTS c1, c2, k1, k2, v1, v2

\* Both clients write k1, one of them k2 as well; both write k1; one writes k1.
MixedRows == (c1 :> {k1}) @@ (c2 :> {k1, k2})
SharedRow == (c1 :> {k1}) @@ (c2 :> {k1})
SoleWriter == c1 :> {k1}
=============================================================================
