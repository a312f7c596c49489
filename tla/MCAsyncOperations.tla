------------------------- MODULE MCAsyncOperations -------------------------
(* AsyncOperations for TLC. *)
EXTENDS AsyncOperations

=============================================================================
