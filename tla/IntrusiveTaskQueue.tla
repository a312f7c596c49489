------------------------- MODULE IntrusiveTaskQueue -------------------------
(***************************************************************************)
(* intrusive_task_queue at the level of its pointers.  A queue is its head *)
(* node; next links the nodes of a queue in a ring through the head, and   *)
(* the head's tail points to the last task, or to the head itself when the *)
(* queue is empty.  A task is linked by its own next member, so nothing is *)
(* allocated and a popped task keeps the pointer it last had.              *)
(***************************************************************************)
EXTENDS Naturals, Sequences, FiniteSets

CONSTANTS
  Heads,     \* the head_ nodes: read_queue, write_queue, ready_queue
  Tasks,     \* operation states
  None

ASSUME NodesAssumption ==
  /\ Heads \cap Tasks = {} /\ None \notin Heads \cup Tasks
  /\ IsFiniteSet(Heads) /\ IsFiniteSet(Tasks) /\ None \notin Seq(Tasks)

Nodes == Heads \cup Tasks

VARIABLES
  next,      \* task::next
  tail,      \* the task pointer in head_.tail
  popped     \* the task the last pop returned

linkVars == <<next, tail, popped>>

\* Pointers stay inside the queue's own nodes, and no task has a tail pointer.
LinksOK ==
  /\ next \in [Nodes -> Nodes]
  /\ tail \in [Heads -> Nodes]
  /\ popped \in Tasks \cup {None}

LinkInit ==
  /\ next = [n \in Nodes |-> n]
  /\ tail = [h \in Heads |-> h]
  /\ popped = None

-----------------------------------------------------------------------------
(* The tasks of a queue, read by following next from its head. *)

Count == Cardinality(Nodes)

\* The node reached from head h in i steps.
Reached(h) ==
  LET walk[i \in 0 .. Count] == IF i = 0 THEN h ELSE next[walk[i - 1]]
  IN  walk

\* The tasks before the walk is back at the head; None when it never is.
Contents(h) ==
  IF \E i \in 1 .. Count : Reached(h)[i] = h
    THEN LET n == CHOOSE i \in 1 .. Count : /\ Reached(h)[i] = h
                                            /\ \A j \in 1 .. (i - 1) : Reached(h)[j] # h
         IN  [i \in 1 .. (n - 1) |-> Reached(h)[i]]
    ELSE None

OnQueue(k) == \E h \in Heads, i \in 1 .. Count :
                /\ Reached(h)[i] = k
                /\ \A j \in 1 .. i : Reached(h)[j] # h

-----------------------------------------------------------------------------
IsEmpty(h) == tail[h] = h

\* The two writes of push, in order: task->next, then the last node's next.
Push(h, k) ==
  /\ ~OnQueue(k)
  /\ next' = [[next EXCEPT ![k] = h] EXCEPT ![tail[h]] = k]
  /\ tail' = [tail EXCEPT ![h] = k]
  /\ UNCHANGED popped

\* A plausible mistake in move_back: the other queue goes to the front.
SpliceFront(nx, h, g) ==
  LET closed == [nx EXCEPT ![tail[g]] = nx[h]]
      joined == [closed EXCEPT ![h] = closed[g]]
  IN  [joined EXCEPT ![g] = g]

\* The splice: other's last node closes the ring, other's first node follows this
\* queue's last one.
Splice(nx, h, g) ==
  LET closed == [nx EXCEPT ![tail[g]] = nx[tail[h]]]
      joined == [closed EXCEPT ![tail[h]] = closed[g]]
  IN  [joined EXCEPT ![g] = g]

MoveBack(h, g) ==
  /\ h # g
  /\ IF IsEmpty(g)
       THEN UNCHANGED <<next, tail>>
       ELSE /\ next' = Splice(next, h, g)
            /\ tail' = [tail EXCEPT ![h] = tail[g], ![g] = g]
  /\ UNCHANGED popped

\* Plausible mistakes: pop of an empty queue, and a tail that is left behind.
PopUnchecked(h) ==
  /\ popped' = next[h]
  /\ tail' = [tail EXCEPT ![h] = IF tail[h] = next[h] THEN h ELSE @]
  /\ next' = [next EXCEPT ![h] = next[next[h]]]

PopKeepsTail(h) ==
  /\ ~IsEmpty(h)
  /\ popped' = next[h]
  /\ next' = [next EXCEPT ![h] = next[next[h]]]
  /\ UNCHANGED tail

\* run_queue only pops a queue that is_empty() says is not empty.
Pop(h) ==
  /\ ~IsEmpty(h)
  /\ popped' = next[h]
  /\ tail' = [tail EXCEPT ![h] = IF tail[h] = next[h] THEN h ELSE @]
  /\ next' = [next EXCEPT ![h] = next[next[h]]]

LinkNext == \E h \in Heads : \/ \E k \in Tasks : Push(h, k)
                             \/ \E g \in Heads : MoveBack(h, g)
                             \/ Pop(h)

LinkSpec == LinkInit /\ [][LinkNext]_linkVars

-----------------------------------------------------------------------------
Fifo == INSTANCE TaskQueues WITH queue <- [h \in Heads |-> Contents(h)]

\* Following the pointers gives first-in first-out queues: push appends one task,
\* move_back appends the whole other queue and empties it, pop removes and returns
\* the first task, and no operation disturbs a queue it was not called with.
PointersAreQueues == Fifo!QSpec

\* The tail pointer names the last task of the ring, so is_empty(), which looks
\* at tail only, agrees with the ring, also after a pop of the last task and after
\* a move_back to or from an empty queue.
TailIsLast ==
  \A h \in Heads : Contents(h) # None /\ next[tail[h]] = h
                   /\ (IsEmpty(h) <=> Contents(h) = <<>>)
                   /\ (~IsEmpty(h) => tail[h] = Contents(h)[Len(Contents(h))])

=============================================================================
