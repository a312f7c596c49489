--------------------- MODULE PollMultiplexerRefinement ---------------------
(***************************************************************************)
(* The multiplexer implements OperationQueues, with any number of threads  *)
(* in wait_for: they are the workers, and what they took is in their local *)
(* ready queues.                                                           *)
(***************************************************************************)
EXTENDS PollMultiplexer

Queue(s, g) == IF g = "READ" THEN read_queue[s] ELSE write_queue[s]

Promise == INSTANCE OperationQueues WITH
             Workers <- Threads,
             pending <- [s \in Sockets |-> [g \in {"READ", "WRITE"} |-> Queue(s, g)]],
             taken <- ready

\* Operations of one socket and trigger are taken by one thread together and complete
\* once each in the order in which they were started, whatever the other threads do
\* meanwhile: start's push, prepare_handles' move_back and run_queue keep the line.
\* With one thread in wait_for this is first-in first-out.
FirstInFirstOut == Promise!LineSpec

=============================================================================
