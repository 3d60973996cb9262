--------------------------- MODULE MCSyncStorage ---------------------------
(* Instances of SyncStorage for TLC. *)
EXTENDS SyncStorage, TLC

CONSTANTS t1, t2, k1, k2

\* The second tab runs a version that has no reducer for k2.
TwoVersions == (t1 :> {k1, k2}) @@ (t2 :> {k1})
=============================================================================
