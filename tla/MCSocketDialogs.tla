--------------------------- MODULE MCSocketDialogs --------------------------
(* An instance of SocketDialogs for TLC.                                     *)
EXTENDS SocketDialogs, TLC

CONSTANTS g1, g2, e1, e2, e3, d1, d2, s1, s2, o1, o2

\* A short address; the long one is what make_address gives.
SomeAddresses == {<<7>>}

Symmetry == Permutations(Triggers) \cup Permutations(Executors)
            \cup Permutations(Dialogs) \cup Permutations(Sockets) \cup Permutations(Ops)

=============================================================================
