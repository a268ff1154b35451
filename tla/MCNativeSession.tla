--------------------------- MODULE MCNativeSession ---------------------------
(***************************************************************************)
(* Two Python threads that share a native session: batches of up to two    *)
(* queries, a ring of three events, every fault of the tableau.            *)
(***************************************************************************)
EXTENDS NativeSession

=============================================================================
