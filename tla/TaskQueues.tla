----------------------------- MODULE TaskQueues -----------------------------
(***************************************************************************)
(* What intrusive_task_queue promises: first-in first-out queues between   *)
(* which whole queues can be moved, each task being on one of them at most.*)
(***************************************************************************)
EXTENDS Sequences, SequencesExt

CONSTANTS Heads, Tasks
VARIABLES queue, popped

queueVars == <<queue, popped>>

Unqueued(k) == \A h \in Heads : k \notin ToSet(queue[h])

QInit == queue = [h \in Heads |-> <<>>] /\ popped \notin Tasks

QPush(h, k) == /\ Unqueued(k)
               /\ queue' = [queue EXCEPT ![h] = Append(@, k)]
               /\ UNCHANGED popped

QMoveBack(h, g) == /\ h # g
                   /\ queue' = [queue EXCEPT ![h] = @ \o queue[g], ![g] = <<>>]
                   /\ UNCHANGED popped

QPop(h) == /\ queue[h] # <<>>
           /\ popped' = Head(queue[h])
           /\ queue' = [queue EXCEPT ![h] = Tail(@)]

QNext == \E h \in Heads : \/ \E k \in Tasks : QPush(h, k)
                          \/ \E g \in Heads : QMoveBack(h, g)
                          \/ QPop(h)

QSpec == QInit /\ [][QNext]_queueVars

=============================================================================
