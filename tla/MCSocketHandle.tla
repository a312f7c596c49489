--------------------------- MODULE MCSocketHandle ---------------------------
(* SocketHandle for TLC. *)
EXTENDS SocketHandle, TLC

HandleSymmetry == Permutations(Handles) \cup Permutations(Descriptors)
                  \cup Permutations(Threads)

=============================================================================
