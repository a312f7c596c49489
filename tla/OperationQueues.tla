-------------------------- MODULE OperationQueues --------------------------
(***************************************************************************)
(* What the multiplexer promises its callers, without locks, interest      *)
(* lists or poll events: the operations started on one socket and trigger  *)
(* wait in one line; a worker takes whole lines and answers what it took   *)
(* once each and in the order taken.  An operation may also be answered at *)
(* once, and a worker that fails forgets what it has taken.                *)
(***************************************************************************)
EXTENDS Sequences, SequencesExt

CONSTANTS Sockets, Ops, Workers, Results

VARIABLES
  pending,   \* the line of each socket and trigger
  taken,     \* what each worker has taken and not answered
  delivered  \* what the receiver of each operation was given

lineVars == <<pending, taken, delivered>>
Lines == {"READ", "WRITE"}

LineInit ==
  /\ pending = [s \in Sockets |-> [g \in Lines |-> <<>>]]
  /\ taken = [w \in Workers |-> <<>>]
  /\ delivered = [o \in Ops |-> <<>>]

Fresh(o) == /\ delivered[o] = <<>>
            /\ \A s \in Sockets, g \in Lines : o \notin ToSet(pending[s][g])
            /\ \A w \in Workers : o \notin ToSet(taken[w])

Enter(o, s, g) ==
  /\ Fresh(o)
  /\ pending' = [pending EXCEPT ![s][g] = Append(@, o)]
  /\ UNCHANGED <<taken, delivered>>

AnswerNow(o, r) ==
  /\ Fresh(o)
  /\ delivered' = [delivered EXCEPT ![o] = <<r>>]
  /\ UNCHANGED <<pending, taken>>

\* Either line of a socket, or both; then the writers come first.
Take(w, s, lines) ==
  LET Line(g) == IF g \in lines THEN pending[s][g] ELSE <<>>
  IN /\ taken' = [taken EXCEPT ![w] = @ \o Line("WRITE") \o Line("READ")]
     /\ pending' = [pending EXCEPT ![s] = [g \in Lines |-> IF g \in lines THEN <<>> ELSE @[g]]]
     /\ UNCHANGED delivered

AnswerFirst(w, r) ==
  /\ taken[w] # <<>>
  /\ delivered[Head(taken[w])] = <<>>
  /\ delivered' = [delivered EXCEPT ![Head(taken[w])] = <<r>>]
  /\ taken' = [taken EXCEPT ![w] = Tail(@)]
  /\ UNCHANGED pending

Forget(w) ==
  /\ taken' = [taken EXCEPT ![w] = <<>>]
  /\ UNCHANGED <<pending, delivered>>

LineNext ==
  \/ \E o \in Ops, s \in Sockets, g \in Lines : Enter(o, s, g)
  \/ \E o \in Ops, r \in Results : AnswerNow(o, r)
  \/ \E w \in Workers, s \in Sockets, lines \in SUBSET Lines : Take(w, s, lines)
  \/ \E w \in Workers, r \in Results : AnswerFirst(w, r)
  \/ \E w \in Workers : Forget(w)

LineSpec == LineInit /\ [][LineNext]_lineVars

=============================================================================
