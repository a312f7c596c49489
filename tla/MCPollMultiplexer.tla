------------------------- MODULE MCPollMultiplexer -------------------------
(* PollMultiplexer for TLC: operations and threads are interchangeable in   *)
(* the run that checks safety only.                                         *)
EXTENDS PollMultiplexerRefinement, TLC

AllSymmetry == Permutations(Ops) \cup Permutations(Threads)

=============================================================================
