---------------------------- MODULE MCEchoServer ----------------------------
(* An instance of EchoServer for TLC.                                        *)
EXTENDS EchoServer

CONSTANTS c1, c2

\* One byte, an empty range, an array of one two-byte element and one more byte;
\* nothing.
SomeRanges ==
  [c \in Clients |->
     IF c = c1 THEN <<[data |-> 1, size |-> 1, element |-> 1],
                      [data |-> 2, size |-> 0, element |-> 1],
                      [data |-> 2, size |-> 1, element |-> 2],
                      [data |-> 4, size |-> 1, element |-> 1]>>
               ELSE <<>>]

\* The second buffer lies before the first.
SomeRecvRanges == <<[data |-> 5, size |-> 1, element |-> 1],
                    [data |-> 1, size |-> 2, element |-> 1]>>

=============================================================================
