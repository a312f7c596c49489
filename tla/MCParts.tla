------------------------------ MODULE MCParts ------------------------------
(***************************************************************************)
(* The three parts that share no state with the rest of the library, in    *)
(* one run: the intrusive task queue, the wait with a timeout and the      *)
(* small functor.  Each takes every sequence of its steps while the two    *)
(* others rest in their initial states.                                    *)
(***************************************************************************)
EXTENDS IntrusiveTaskQueue, PollTimeout, SmallFunctor

SomeDurations == {-1, 0, 1, 3}

PartsInit == LinkInit /\ PollInit /\ FunctorInit

LinkStep == LinkNext /\ PollInit /\ FunctorInit /\ UNCHANGED <<pollVars, functorVars>>
PollStep == PollNext /\ LinkInit /\ FunctorInit /\ UNCHANGED <<linkVars, functorVars>>
FunctorStep == FunctorNext /\ LinkInit /\ PollInit /\ UNCHANGED <<linkVars, pollVars>>

PartsNext == LinkStep \/ PollStep \/ FunctorStep

PartsSpec ==
  /\ PartsInit /\ [][PartsNext]_<<linkVars, pollVars, functorVars>>
  /\ PollFairness

=============================================================================
