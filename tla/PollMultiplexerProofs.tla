----------------------- MODULE PollMultiplexerProofs -----------------------
(***************************************************************************)
(* Proofs about PollMultiplexer, for any threads, sockets, operations and  *)
(* kernel events.                                                          *)
(***************************************************************************)
EXTENDS PollMultiplexerRefinement, PollTimeout, SequenceTheorems, TLAPS

-----------------------------------------------------------------------------
(* Type correctness. *)

\* What complete() can deliver is a result, and what its system call consumes
\* are poll conditions.
LEMMA OutcomesType ==
  ASSUME TypeOK, NEW o \in Ops, NEW out \in Outcomes(o)
  PROVE  out.result \in Results /\ out.used \subseteq Events
<1>1. CASE error[sock[o]] = "EFAIL"
  BY <1>1 DEF Outcomes, Results
<1>2. CASE error[sock[o]] # "EFAIL"
  <2> DEFINE k == rdy[sock[o]]
  <2>1. out \in FuncOutcomes(func[o], trig[o], k)
    BY <1>2 DEF Outcomes
  <2>2. func[o] \in {"io", "value", "empty"}
    BY DEF TypeOK
  <2>3. CASE func[o] = "io"
    <3>1. out \in IoOutcomes(trig[o], k)
      BY <2>1, <2>3 DEF FuncOutcomes
    <3>2. \A g : Interest(g) \subseteq Events
      BY DEF Interest, Events
    <3>3. CASE \E u \in SUBSET (k \cap Interest(trig[o])) : out = [result |-> "value", used |-> u]
      BY <3>2, <3>3 DEF Results
    <3>4. CASE out = [result |-> "error", used |-> k \cap {"POLLERR"}]
      BY <3>4 DEF Results, Events
    <3>5. CASE out = [result |-> "would_block", used |-> {}]
      BY <3>5 DEF Results
    <3> QED BY <3>1, <3>3, <3>4, <3>5 DEF IoOutcomes
  <2>4. CASE func[o] = "value"
    BY <2>1, <2>4 DEF FuncOutcomes, Results
  <2>5. CASE func[o] = "empty"
    BY <2>1, <2>5 DEF FuncOutcomes, Results
  <2> QED BY <2>2, <2>3, <2>4, <2>5
<1> QED BY <1>1, <1>2

\* A completion keeps the types of what it changes.
LEMMA CompleteType ==
  ASSUME TypeOK, NEW o \in Ops, Complete(o)
  PROVE  /\ delivered' \in [Ops -> Seq(Results)]
         /\ phase' \in [Ops -> Phases]
         /\ rdy' \in [Sockets -> SUBSET Events]
         /\ fault' \in {"none", "null_demux", "null_socket", "dangling_socket", "empty_functor"}
<1>1. PICK out \in Outcomes(o) :
        /\ delivered' = [delivered EXCEPT ![o] = Append(@, out.result)]
        /\ phase' = [phase EXCEPT ![o] = "done"]
        /\ rdy' = [rdy EXCEPT ![sock[o]] = @ \ out.used]
        /\ fault' = IF out.result = "empty_call" THEN "empty_functor" ELSE fault
  BY DEF Complete
<1>2. out.result \in Results
  BY OutcomesType
<1>3. delivered' \in [Ops -> Seq(Results)]
  BY <1>1, <1>2 DEF TypeOK
<1>4. phase' \in [Ops -> Phases]
  BY <1>1 DEF TypeOK, Phases
<1>5. rdy' \in [Sockets -> SUBSET Events]
  BY <1>1 DEF TypeOK
<1> QED BY <1>1, <1>3, <1>4, <1>5 DEF TypeOK

\* A push keeps the queues of all sockets sequences of operations.
LEMMA PushType ==
  ASSUME NEW q \in [Sockets -> Seq(Ops)], NEW o \in Ops, NEW g
  PROVE  PushIf(q, o, g) \in [Sockets -> Seq(Ops)]
<1>1. CASE trig[o] = g /\ sock[o] \in Sockets
  <2>1. Append(q[sock[o]], o) \in Seq(Ops)
    BY <1>1
  <2> QED BY <1>1, <2>1 DEF PushIf
<1>2. CASE trig[o] = g /\ sock[o] \notin Sockets
  BY <1>2 DEF PushIf
<1>3. CASE trig[o] # g
  BY <1>3 DEF PushIf
<1> QED BY <1>1, <1>2, <1>3

\* What prepare_handles moves is a sequence of operations.
LEMMA MovedType ==
  ASSUME TypeOK, NEW s \in Sockets, NEW rev
  PROVE  AllMoved(s, rev) \in Seq(Ops)
<1>1. /\ Moved(write_queue[s], rev, "WRITE") \in Seq(Ops)
      /\ Moved(read_queue[s], rev, "READ") \in Seq(Ops)
  BY DEF TypeOK, Moved
<1> QED BY <1>1 DEF AllMoved

\* Every step of the multiplexer preserves TypeOK.
LEMMA TypeStep == TypeOK /\ [Next]_vars => TypeOK'
<1> SUFFICES ASSUME TypeOK, [Next]_vars PROVE TypeOK'
  OBVIOUS
<1> USE DEF muxVars, opVars, waitVars, envVars
<1>1. ASSUME NEW t \in Threads, Submit(t) PROVE TypeOK'
  BY <1>1 DEF TypeOK, Submit, Set, Phases, Triggers
<1>2. ASSUME NEW t \in Threads, NEW o \in Ops, ConnectCheck(t, o) PROVE TypeOK'
  BY <1>2 DEF TypeOK, ConnectCheck, Phases
<1>3. ASSUME NEW t \in Threads, NEW o \in Ops, ConnectRegister(t, o) PROVE TypeOK'
  BY <1>3 DEF TypeOK, ConnectRegister, Phases, UpdateOrInsert, Interest
<1>4. ASSUME NEW t \in Threads, NEW o \in Ops, StartInline(t, o) PROVE TypeOK'
  BY <1>4, CompleteType DEF TypeOK, StartInline
<1>5. ASSUME NEW t \in Threads, NEW o \in Ops, StartCheck(t, o) PROVE TypeOK'
  BY <1>5 DEF TypeOK, StartCheck, Phases
<1>6. ASSUME NEW t \in Threads, NEW o \in Ops, StartEnqueue(t, o) PROVE TypeOK'
  BY <1>6, PushType DEF TypeOK, StartEnqueue, Phases
<1>7. ASSUME NEW t \in Threads, NEW o \in Ops, StartNull(t, o) PROVE TypeOK'
  BY <1>7 DEF TypeOK, StartNull
<1>8. ASSUME NEW t \in Threads, NEW ivl \in Intervals, WaitCopy(t, ivl) PROVE TypeOK'
  BY <1>8 DEF TypeOK, WaitCopy, WaitPlaces, Events
<1>9. ASSUME NEW t \in Threads, WaitPoll(t) PROVE TypeOK'
  <2>1. Polled(t) \in [Sockets -> SUBSET Events]
    BY DEF TypeOK, Polled, Revents, Events
  <2> QED BY <1>9, <2>1 DEF TypeOK, WaitPoll, WaitPlaces
<1>10. ASSUME NEW t \in Threads, PollThrow(t) PROVE TypeOK'
  BY <1>10 DEF TypeOK, PollThrow, WaitPlaces, NoEvents
<1>11. ASSUME NEW t \in Threads, WaitLock(t) PROVE TypeOK'
  BY <1>11 DEF TypeOK, WaitLock, WaitPlaces
<1>12. ASSUME NEW t \in Threads, DispatchEvent(t) PROVE TypeOK'
  <2>1. PICK s \in Sockets : DispatchOn(t, s)
    BY <1>12 DEF DispatchEvent
  <2>2. list' \in [Sockets -> SUBSET {"POLLIN", "POLLOUT"}]
    BY <2>1 DEF TypeOK, DispatchOn, ClearEvent
  <2>3. error' \in [Sockets -> {"OK", "EAGAIN", "EFAIL"}]
    BY <2>1 DEF TypeOK, DispatchOn, SocketError
  <2>4. rdy' \in [Sockets -> SUBSET Events]
    BY <2>1 DEF TypeOK, DispatchOn
  <2>5. /\ write_queue' \in [Sockets -> Seq(Ops)]
        /\ read_queue' \in [Sockets -> Seq(Ops)]
    BY <2>1 DEF TypeOK, DispatchOn, Left
  <2>6. ready' \in [Threads -> Seq(Ops)]
    BY <2>1, MovedType DEF TypeOK, DispatchOn
  <2>7. phase' \in [Ops -> Phases]
    BY <2>1 DEF TypeOK, DispatchOn, Phases
  <2>8. snap' \in [Threads -> [Sockets -> SUBSET Events]]
    BY <2>1 DEF TypeOK, DispatchOn
  <2> QED
    BY <2>1, <2>2, <2>3, <2>4, <2>5, <2>6, <2>7, <2>8 DEF TypeOK, DispatchOn
<1>13. ASSUME NEW t \in Threads, DispatchFault(t) PROVE TypeOK'
  BY <1>13 DEF TypeOK, DispatchFault, BadSocket
<1>14. ASSUME NEW t \in Threads, DispatchThrow(t) PROVE TypeOK'
  BY <1>14 DEF TypeOK, DispatchThrow, Phases, WaitPlaces, ClearEvent, NoEvents
<1>15. ASSUME NEW t \in Threads, DispatchEnd(t) PROVE TypeOK'
  BY <1>15 DEF TypeOK, DispatchEnd, WaitPlaces
<1>16. ASSUME NEW t \in Threads, RunTask(t) PROVE TypeOK'
  <2>1. Head(ready[t]) \in Ops /\ Tail(ready[t]) \in Seq(Ops)
    BY <1>16 DEF TypeOK, RunTask
  <2>2. Complete(Head(ready[t]))
    BY <1>16 DEF RunTask
  <2> HIDE DEF Complete
  <2> QED BY <1>16, <2>1, <2>2, CompleteType DEF TypeOK, RunTask, WaitPlaces
<1>17. ASSUME NEW t \in Threads, WaitReturn(t) PROVE TypeOK'
  BY <1>17 DEF TypeOK, WaitReturn, WaitPlaces
<1>18. ASSUME NEW s \in Sockets, NEW e \in KernelEvents, Raise(s, e) PROVE TypeOK'
  BY <1>18, EventsAssumption DEF TypeOK, Raise
<1>19. ASSUME NEW s \in Sockets, Release(s) PROVE TypeOK'
  BY <1>19 DEF TypeOK, Release
<1>20. CASE UNCHANGED vars
  BY <1>20 DEF TypeOK, vars
<1> QED
  BY <1>1, <1>2, <1>3, <1>4, <1>5, <1>6, <1>7, <1>8, <1>9, <1>10, <1>11, <1>12, <1>13,
     <1>14, <1>15, <1>16, <1>17, <1>18, <1>19, <1>20
     DEF Next, ThreadStep, OpStep, WaitStep, Environment, Crashed

\* Every reachable state is well typed, for every set of threads, sockets,
\* operations and kernel events.
THEOREM TypeCorrect == Spec => []TypeOK
<1>1. Init => TypeOK
  BY DEF Init, TypeOK, NoEvents, Phases, WaitPlaces, Events
<1> QED BY <1>1, TypeStep, PTL DEF Spec

-----------------------------------------------------------------------------
(* Sequences without repetition. *)

\* The empty queue repeats nothing and holds nothing.
LEMMA EmptyOnce == IsInjective(<<>>) /\ ToSet(<<>>) = {}
BY DEF IsInjective, ToSet

\* intrusive_task_queue::push of a task that the queue does not hold.
LEMMA AppendOnce ==
  ASSUME NEW S, NEW q \in Seq(S), NEW x \in S, IsInjective(q), x \notin ToSet(q)
  PROVE  IsInjective(Append(q, x)) /\ ToSet(Append(q, x)) = ToSet(q) \cup {x}
<1>1. /\ Len(q) \in Nat /\ DOMAIN q = 1 .. Len(q)
      /\ DOMAIN Append(q, x) = 1 .. (Len(q) + 1)
      /\ \A i \in 1 .. Len(q) : Append(q, x)[i] = q[i]
      /\ Append(q, x)[Len(q) + 1] = x
  OBVIOUS
<1>2. IsInjective(Append(q, x))
  BY <1>1 DEF IsInjective, ToSet
<1>3. ToSet(Append(q, x)) \subseteq ToSet(q) \cup {x}
  BY <1>1 DEF ToSet
<1>4. ToSet(q) \subseteq ToSet(Append(q, x))
  BY <1>1 DEF ToSet
<1>5. x \in ToSet(Append(q, x))
  BY <1>1 DEF ToSet
<1> QED BY <1>2, <1>3, <1>4, <1>5

\* intrusive_task_queue::move_back of a queue that shares no task.
LEMMA ConcatOnce ==
  ASSUME NEW S, NEW q \in Seq(S), NEW r \in Seq(S), IsInjective(q), IsInjective(r),
         ToSet(q) \cap ToSet(r) = {}
  PROVE  IsInjective(q \o r) /\ ToSet(q \o r) = ToSet(q) \cup ToSet(r)
<1>1. /\ Len(q) \in Nat /\ DOMAIN q = 1 .. Len(q)
      /\ Len(r) \in Nat /\ DOMAIN r = 1 .. Len(r)
      /\ DOMAIN (q \o r) = 1 .. (Len(q) + Len(r))
  OBVIOUS
<1>2. \A i \in 1 .. (Len(q) + Len(r)) :
        (q \o r)[i] = IF i <= Len(q) THEN q[i] ELSE r[i - Len(q)]
  OBVIOUS
<1>3. IsInjective(q \o r)
  <2> SUFFICES ASSUME NEW i \in 1 .. (Len(q) + Len(r)), NEW j \in 1 .. (Len(q) + Len(r)),
                      (q \o r)[i] = (q \o r)[j]
               PROVE  i = j
    BY <1>1 DEF IsInjective
  <2>1. \A a \in 1 .. Len(q), b \in 1 .. Len(r) : q[a] # r[b]
    BY <1>1 DEF ToSet
  <2>2. CASE i <= Len(q) /\ j <= Len(q)
    BY <1>1, <1>2, <2>2 DEF IsInjective
  <2>3. CASE i > Len(q) /\ j > Len(q)
    <3>1. i - Len(q) \in 1 .. Len(r) /\ j - Len(q) \in 1 .. Len(r)
      BY <1>1, <2>3
    <3>2. r[i - Len(q)] = r[j - Len(q)]
      BY <1>1, <1>2, <2>3
    <3>3. i - Len(q) = j - Len(q)
      BY <1>1, <3>1, <3>2 DEF IsInjective
    <3> QED BY <1>1, <3>3
  <2>4. CASE i <= Len(q) /\ j > Len(q)
    BY <1>1, <1>2, <2>1, <2>4
  <2>5. CASE i > Len(q) /\ j <= Len(q)
    BY <1>1, <1>2, <2>1, <2>5
  <2> QED BY <1>1, <2>2, <2>3, <2>4, <2>5
<1>4. ToSet(q \o r) \subseteq ToSet(q) \cup ToSet(r)
  BY <1>1, <1>2 DEF ToSet
<1>5. ToSet(q) \subseteq ToSet(q \o r)
  BY <1>1, <1>2 DEF ToSet
<1>6. ASSUME NEW x \in ToSet(r) PROVE x \in ToSet(q \o r)
  <2>1. PICK j \in 1 .. Len(r) : x = r[j]
    BY <1>1 DEF ToSet
  <2>2. Len(q) + j \in DOMAIN (q \o r) /\ (q \o r)[Len(q) + j] = x
    BY <1>1, <1>2, <2>1
  <2> QED BY <2>2 DEF ToSet
<1> QED BY <1>3, <1>4, <1>5, <1>6

\* intrusive_task_queue::pop of a queue that is not empty.
LEMMA TailOnce ==
  ASSUME NEW S, NEW q \in Seq(S), q # <<>>, IsInjective(q)
  PROVE  /\ Head(q) \in ToSet(q)
         /\ IsInjective(Tail(q)) /\ ToSet(Tail(q)) = ToSet(q) \ {Head(q)}
<1>1. /\ Len(q) \in Nat \ {0} /\ DOMAIN q = 1 .. Len(q) /\ Head(q) = q[1]
      /\ DOMAIN Tail(q) = 1 .. (Len(q) - 1)
      /\ \A i \in 1 .. (Len(q) - 1) : Tail(q)[i] = q[i + 1]
  OBVIOUS
<1>2. Head(q) \in ToSet(q)
  BY <1>1 DEF ToSet
<1>3. IsInjective(Tail(q))
  BY <1>1 DEF IsInjective
<1>4. ToSet(Tail(q)) \subseteq ToSet(q) \ {Head(q)}
  BY <1>1 DEF ToSet, IsInjective
<1>5. ASSUME NEW x \in ToSet(q), x # Head(q) PROVE x \in ToSet(Tail(q))
  <2>1. PICK j \in 1 .. Len(q) : x = q[j]
    BY <1>1 DEF ToSet
  <2>2. j - 1 \in DOMAIN Tail(q) /\ Tail(q)[j - 1] = x
    BY <1>1, <1>5, <2>1
  <2> QED BY <2>2 DEF ToSet
<1> QED BY <1>2, <1>3, <1>4, <1>5

-----------------------------------------------------------------------------
(* Every started operation is in one place and is completed once. *)

\* Facts about an operation's life that place it: once it exists it has a socket
\* and a trigger, and only operations that wait for an event reach a queue.
OpShape ==
  \A o \in Ops :
    /\ phase[o] # "new" => sock[o] \in Sockets /\ trig[o] \in Triggers
    /\ phase[o] \in {"connecting", "starting", "queued"} => trig[o] # "EAGER"

\* The inductive invariant: PlacedOnce needs the shape of the operations, to know
\* which queue a started one goes to.
PlaceInv == TypeOK /\ OpShape /\ PlacedOnce

\* The phases in which the place of an operation matters.
Placed == {"queued", "ready", "done"}

\* A step that leaves the queues and the deliveries alone, and moves no
\* operation into or out of a placed phase, preserves PlacedOnce.
LEMMA PlaceFrame ==
  ASSUME PlacedOnce, UNCHANGED <<read_queue, write_queue, ready, delivered>>,
         \A o \in Ops : \/ phase'[o] = phase[o] /\ sock'[o] = sock[o] /\ trig'[o] = trig[o]
                        \/ phase[o] \notin Placed /\ phase'[o] \notin Placed
  PROVE  PlacedOnce'
<1>1. QueuesHold'
  BY DEF PlacedOnce, QueuesHold, HoldsOnce, Placed
<1>2. ReadyHolds'
  BY DEF PlacedOnce, ReadyHolds, Placed
<1>3. DeliveredOnce'
  BY DEF PlacedOnce, DeliveredOnce, Placed
<1> QED BY <1>1, <1>2, <1>3 DEF PlacedOnce

\* What prepare_handles moves was queued on the socket, each operation once.
LEMMA MovedOnce ==
  ASSUME TypeOK, PlacedOnce, NEW s \in Sockets, NEW rev
  PROVE  /\ IsInjective(AllMoved(s, rev))
         /\ ToSet(AllMoved(s, rev)) =
              {o \in Ops : /\ phase[o] = "queued" /\ sock[o] = s
                           /\ \/ trig[o] = "WRITE" /\ rev \cap Wakes("WRITE") # {}
                              \/ trig[o] = "READ" /\ rev \cap Wakes("READ") # {}}
<1> DEFINE w == Moved(write_queue[s], rev, "WRITE")
           r == Moved(read_queue[s], rev, "READ")
<1>1. w \in Seq(Ops) /\ r \in Seq(Ops)
  BY DEF TypeOK, Moved
<1>2. /\ IsInjective(w)
      /\ ToSet(w) = {o \in Ops : /\ phase[o] = "queued" /\ sock[o] = s
                                 /\ trig[o] = "WRITE" /\ rev \cap Wakes("WRITE") # {}}
  BY EmptyOnce DEF PlacedOnce, QueuesHold, HoldsOnce, Moved
<1>3. /\ IsInjective(r)
      /\ ToSet(r) = {o \in Ops : /\ phase[o] = "queued" /\ sock[o] = s
                                 /\ trig[o] = "READ" /\ rev \cap Wakes("READ") # {}}
  BY EmptyOnce DEF PlacedOnce, QueuesHold, HoldsOnce, Moved
<1>4. ToSet(w) \cap ToSet(r) = {}
  BY <1>2, <1>3
<1>5. AllMoved(s, rev) = w \o r
  BY DEF AllMoved
<1> HIDE DEF w, r
<1>6. IsInjective(w \o r) /\ ToSet(w \o r) = ToSet(w) \cup ToSet(r)
  BY <1>1, <1>2, <1>3, <1>4, ConcatOnce
<1> QED BY <1>2, <1>3, <1>5, <1>6

\* Each step keeps OpShape.
LEMMA ShapeStep == TypeOK /\ OpShape /\ PlacedOnce /\ [Next]_vars => OpShape'
<1> SUFFICES ASSUME TypeOK, OpShape, PlacedOnce, [Next]_vars PROVE OpShape'
  OBVIOUS
<1> USE DEF muxVars, opVars, waitVars, envVars, OpShape
<1>1. ASSUME NEW t \in Threads, Submit(t) PROVE OpShape'
  BY <1>1 DEF TypeOK, Submit, Set, Triggers
<1>2. ASSUME NEW t \in Threads, NEW o \in Ops, ConnectCheck(t, o) PROVE OpShape'
  BY <1>2 DEF TypeOK, ConnectCheck, Registers
<1>3. ASSUME NEW t \in Threads, NEW o \in Ops, ConnectRegister(t, o) PROVE OpShape'
  BY <1>3 DEF TypeOK, ConnectRegister
<1>4. ASSUME NEW t \in Threads, NEW o \in Ops, StartInline(t, o) PROVE OpShape'
  BY <1>4 DEF TypeOK, StartInline, Complete
<1>5. ASSUME NEW t \in Threads, NEW o \in Ops, StartCheck(t, o) PROVE OpShape'
  BY <1>5 DEF TypeOK, StartCheck, Registers
<1>6. ASSUME NEW t \in Threads, NEW o \in Ops, StartEnqueue(t, o) PROVE OpShape'
  BY <1>6 DEF TypeOK, StartEnqueue
<1>7. ASSUME NEW t \in Threads, DispatchEvent(t) PROVE OpShape'
  <2>1. PICK s \in Sockets : DispatchOn(t, s)
    BY <1>7 DEF DispatchEvent
  <2>2. \A o \in ToSet(AllMoved(s, snap[t][s])) : phase[o] # "new"
    BY MovedOnce
  <2> QED BY <2>1, <2>2 DEF TypeOK, DispatchOn
<1>8. ASSUME NEW t \in Threads, DispatchThrow(t) PROVE OpShape'
  <2>1. \A o \in ToSet(ready[t]) : phase[o] = "ready"
    BY DEF PlacedOnce, ReadyHolds
  <2> QED BY <1>8, <2>1 DEF TypeOK, DispatchThrow
<1>9. ASSUME NEW t \in Threads, RunTask(t) PROVE OpShape'
  <2>1. Head(ready[t]) \in ToSet(ready[t])
    BY <1>9, TailOnce DEF RunTask, TypeOK, PlacedOnce, ReadyHolds
  <2>2. phase[Head(ready[t])] = "ready"
    BY <2>1 DEF PlacedOnce, ReadyHolds
  <2> QED BY <1>9, <2>2 DEF TypeOK, RunTask, Complete
<1>10. CASE UNCHANGED opVars
  BY <1>10
<1> QED
  BY <1>1, <1>2, <1>3, <1>4, <1>5, <1>6, <1>7, <1>8, <1>9, <1>10
     DEF Next, ThreadStep, OpStep, WaitStep, Environment, Crashed, vars, StartNull, WaitCopy,
         WaitPoll, PollThrow, WaitLock, DispatchFault, DispatchEnd, WaitReturn, Raise, Release

\* Completing an operation that no queue holds delivers to it and to no other.
LEMMA CompleteOnce ==
  ASSUME TypeOK, DeliveredOnce, NEW o \in Ops, phase[o] # "done", Complete(o)
  PROVE  DeliveredOnce'
<1>1. PICK out \in Outcomes(o) :
        /\ delivered' = [delivered EXCEPT ![o] = Append(@, out.result)]
        /\ phase' = [phase EXCEPT ![o] = "done"]
  BY DEF Complete
<1>2. Len(Append(delivered[o], out.result)) = 1
  BY OutcomesType DEF TypeOK, DeliveredOnce
<1> QED BY <1>1, <1>2 DEF TypeOK, DeliveredOnce

\* start() on an operation with an error or an EAGER trigger.
LEMMA PlaceInline ==
  ASSUME PlaceInv, NEW t \in Threads, NEW o \in Ops, StartInline(t, o)
  PROVE  PlacedOnce'
<1>1. phase[o] = "connected" /\ Complete(o) /\ phase' = [phase EXCEPT ![o] = "done"]
  BY DEF StartInline, Complete
<1>2. UNCHANGED <<read_queue, write_queue, ready, sock, trig>>
  BY DEF StartInline, muxVars, waitVars
<1>3. QueuesHold'
  BY <1>1, <1>2 DEF PlaceInv, TypeOK, PlacedOnce, QueuesHold, HoldsOnce
<1>4. ReadyHolds'
  BY <1>1, <1>2 DEF PlaceInv, TypeOK, PlacedOnce, ReadyHolds
<1>5. DeliveredOnce'
  BY <1>1, CompleteOnce DEF PlaceInv, PlacedOnce
<1> QED BY <1>3, <1>4, <1>5 DEF PlacedOnce

\* A push adds the operation to the queue of its own socket and trigger only.
LEMMA PushHolds ==
  ASSUME NEW o \in Ops, NEW s \in Sockets, NEW g, NEW q \in [Sockets -> Seq(Ops)],
         IsInjective(q[s]), o \notin ToSet(q[s])
  PROVE  /\ IsInjective(PushIf(q, o, g)[s])
         /\ \A p : p \in ToSet(PushIf(q, o, g)[s])
                    <=> p \in ToSet(q[s]) \/ (p = o /\ trig[o] = g /\ sock[o] = s)
<1>1. CASE trig[o] = g /\ sock[o] = s
  <2>1. PushIf(q, o, g)[s] = Append(q[s], o)
    BY <1>1 DEF PushIf
  <2>2. IsInjective(Append(q[s], o)) /\ ToSet(Append(q[s], o)) = ToSet(q[s]) \cup {o}
    BY AppendOnce
  <2> QED BY <1>1, <2>1, <2>2
<1>2. CASE ~(trig[o] = g /\ sock[o] = s)
  <2>1. PushIf(q, o, g)[s] = q[s]
    BY <1>2 DEF PushIf
  <2> QED BY <1>2, <2>1
<1> QED BY <1>1, <1>2

\* start() that queues its operation.
LEMMA PlaceEnqueue ==
  ASSUME PlaceInv, NEW t \in Threads, NEW o \in Ops, StartEnqueue(t, o)
  PROVE  PlacedOnce'
<1>1. /\ phase[o] = "starting" /\ phase' = [phase EXCEPT ![o] = "queued"]
      /\ read_queue' = PushIf(read_queue, o, "READ")
      /\ write_queue' = PushIf(write_queue, o, "WRITE")
      /\ UNCHANGED <<sock, trig, ready, delivered>>
  BY DEF StartEnqueue, waitVars
<1>2. QueuesHold'
  <2>1. /\ read_queue \in [Sockets -> Seq(Ops)] /\ write_queue \in [Sockets -> Seq(Ops)]
        /\ \A p \in Ops : phase'[p] = IF p = o THEN "queued" ELSE phase[p]
    BY <1>1 DEF PlaceInv, TypeOK
  <2>2. ASSUME NEW s \in Sockets PROVE HoldsOnce(read_queue[s], s, "READ")'
    <3>0. IsInjective(read_queue[s])
      BY DEF PlaceInv, PlacedOnce, QueuesHold, HoldsOnce
    <3>1. HoldsOnce(read_queue[s], s, "READ") /\ o \notin ToSet(read_queue[s])
      BY <1>1 DEF PlaceInv, PlacedOnce, QueuesHold, HoldsOnce
    <3>2. /\ IsInjective(PushIf(read_queue, o, "READ")[s])
          /\ \A p : p \in ToSet(PushIf(read_queue, o, "READ")[s])
                     <=> p \in ToSet(read_queue[s]) \/ (p = o /\ trig[o] = "READ" /\ sock[o] = s)
      BY <2>1, <3>0, <3>1, PushHolds
    <3> QED BY <1>1, <2>1, <3>1, <3>2 DEF HoldsOnce
  <2>3. ASSUME NEW s \in Sockets PROVE HoldsOnce(write_queue[s], s, "WRITE")'
    <3>0. IsInjective(write_queue[s])
      BY DEF PlaceInv, PlacedOnce, QueuesHold, HoldsOnce
    <3>1. HoldsOnce(write_queue[s], s, "WRITE") /\ o \notin ToSet(write_queue[s])
      BY <1>1 DEF PlaceInv, PlacedOnce, QueuesHold, HoldsOnce
    <3>2. /\ IsInjective(PushIf(write_queue, o, "WRITE")[s])
          /\ \A p : p \in ToSet(PushIf(write_queue, o, "WRITE")[s])
                     <=> p \in ToSet(write_queue[s]) \/ (p = o /\ trig[o] = "WRITE" /\ sock[o] = s)
      BY <2>1, <3>0, <3>1, PushHolds
    <3> QED BY <1>1, <2>1, <3>1, <3>2 DEF HoldsOnce
  <2> QED BY <2>2, <2>3 DEF QueuesHold
<1>3. ReadyHolds'
  BY <1>1 DEF PlaceInv, TypeOK, PlacedOnce, ReadyHolds
<1>4. DeliveredOnce'
  BY <1>1 DEF PlaceInv, TypeOK, PlacedOnce, DeliveredOnce
<1> QED BY <1>2, <1>3, <1>4 DEF PlacedOnce

\* One event dispatched: the moved tasks leave the queues of their socket and
\* join the ready queue of the dispatching thread.
LEMMA PlaceDispatch ==
  ASSUME PlaceInv, NEW t \in Threads, NEW s \in Sockets, DispatchOn(t, s)
  PROVE  PlacedOnce'
<1> DEFINE rev == snap[t][s]
           moved == AllMoved(s, rev)
           M == ToSet(moved)
<1>1. /\ write_queue' = [write_queue EXCEPT ![s] = Left(@, rev, "WRITE")]
      /\ read_queue' = [read_queue EXCEPT ![s] = Left(@, rev, "READ")]
      /\ ready' = [ready EXCEPT ![t] = @ \o moved]
      /\ phase' = [o \in Ops |-> IF o \in M THEN "ready" ELSE phase[o]]
      /\ UNCHANGED <<sock, trig, delivered>>
  BY DEF DispatchOn
<1>2. /\ IsInjective(moved)
      /\ M = {o \in Ops : /\ phase[o] = "queued" /\ sock[o] = s
                          /\ \/ trig[o] = "WRITE" /\ rev \cap Wakes("WRITE") # {}
                             \/ trig[o] = "READ" /\ rev \cap Wakes("READ") # {}}
  BY MovedOnce DEF PlaceInv
<1>3. moved \in Seq(Ops)
  BY MovedType DEF PlaceInv
<1> HIDE DEF moved, M
<1>4. \A u \in Threads : ready[u] \in Seq(Ops) /\ ToSet(ready[u]) \cap M = {}
  <2> TAKE u \in Threads
  <2>1. \A o \in ToSet(ready[u]) : phase[o] = "ready"
    BY DEF PlaceInv, PlacedOnce, ReadyHolds
  <2>2. ready[u] \in Seq(Ops)
    BY DEF PlaceInv, TypeOK
  <2> QED BY <1>2, <2>1, <2>2
<1>5. QueuesHold'
  <2> SUFFICES ASSUME NEW v \in Sockets
               PROVE  HoldsOnce(read_queue[v], v, "READ")' /\ HoldsOnce(write_queue[v], v, "WRITE")'
    BY DEF QueuesHold
  <2>1. CASE v # s
    BY <1>1, <1>2, <2>1 DEF PlaceInv, TypeOK, PlacedOnce, QueuesHold, HoldsOnce
  <2>2. CASE v = s
    <3>1. read_queue'[v] = Left(read_queue[s], rev, "READ")
      BY <1>1, <2>2 DEF PlaceInv, TypeOK
    <3>2. write_queue'[v] = Left(write_queue[s], rev, "WRITE")
      BY <1>1, <2>2 DEF PlaceInv, TypeOK
    <3>3. HoldsOnce(read_queue[v], v, "READ")'
      BY <1>1, <1>2, <2>2, <3>1, EmptyOnce DEF PlaceInv, PlacedOnce, QueuesHold, HoldsOnce, Left
    <3>4. HoldsOnce(write_queue[v], v, "WRITE")'
      BY <1>1, <1>2, <2>2, <3>2, EmptyOnce DEF PlaceInv, PlacedOnce, QueuesHold, HoldsOnce, Left
    <3> QED BY <3>3, <3>4
  <2> QED BY <2>1, <2>2
<1>6. ReadyHolds'
  <2>1. \A u \in Threads : ready'[u] = IF u = t THEN ready[t] \o moved ELSE ready[u]
    BY <1>1 DEF PlaceInv, TypeOK
  <2>2. IsInjective(ready[t] \o moved) /\ ToSet(ready[t] \o moved) = ToSet(ready[t]) \cup M
    BY <1>2, <1>3, <1>4, ConcatOnce DEF PlaceInv, PlacedOnce, ReadyHolds, M
  <2>3. \A u \in Threads : ToSet(ready'[u]) = IF u = t THEN ToSet(ready[t]) \cup M ELSE ToSet(ready[u])
    BY <2>1, <2>2
  <2>4. \A u \in Threads : IsInjective(ready'[u])
    BY <2>1, <2>2 DEF PlaceInv, PlacedOnce, ReadyHolds
  <2>5. \A u, v \in Threads : u # v => ToSet(ready'[u]) \cap ToSet(ready'[v]) = {}
    BY <2>3, <1>4 DEF PlaceInv, PlacedOnce, ReadyHolds
  <2>6. {o \in Ops : phase'[o] = "ready"} = {o \in Ops : phase[o] = "ready"} \cup M
    BY <1>1, <1>2
  <2>7. {o \in Ops : phase'[o] = "ready"} = UNION {ToSet(ready'[u]) : u \in Threads}
    BY <2>3, <2>6 DEF PlaceInv, PlacedOnce, ReadyHolds
  <2> QED BY <2>4, <2>5, <2>7 DEF ReadyHolds
<1>7. DeliveredOnce'
  BY <1>1, <1>2 DEF PlaceInv, PlacedOnce, DeliveredOnce
<1> QED BY <1>5, <1>6, <1>7 DEF PlacedOnce

\* getsockopt throws: the ready queue of the thread is dropped.
LEMMA PlaceThrow ==
  ASSUME PlaceInv, NEW t \in Threads, DispatchThrow(t)
  PROVE  PlacedOnce'
<1>1. /\ phase' = [o \in Ops |-> IF o \in ToSet(ready[t]) THEN "lost" ELSE phase[o]]
      /\ ready' = [ready EXCEPT ![t] = <<>>]
      /\ UNCHANGED <<read_queue, write_queue, sock, trig, delivered>>
  BY DEF DispatchThrow
<1>2. \A o \in ToSet(ready[t]) : phase[o] = "ready"
  BY DEF PlaceInv, PlacedOnce, ReadyHolds
<1>3. QueuesHold'
  BY <1>1, <1>2 DEF PlaceInv, PlacedOnce, QueuesHold, HoldsOnce
<1>4. ReadyHolds'
  <2>1. \A u \in Threads : ready'[u] = IF u = t THEN <<>> ELSE ready[u]
    BY <1>1 DEF PlaceInv, TypeOK
  <2>2. \A u \in Threads : ToSet(ready'[u]) = IF u = t THEN {} ELSE ToSet(ready[u])
    BY <2>1, EmptyOnce
  <2>3. \A u \in Threads : IsInjective(ready'[u])
    BY <2>1, EmptyOnce DEF PlaceInv, PlacedOnce, ReadyHolds
  <2>4. \A u, v \in Threads : u # v => ToSet(ready'[u]) \cap ToSet(ready'[v]) = {}
    BY <2>2 DEF PlaceInv, PlacedOnce, ReadyHolds
  <2>5. {o \in Ops : phase'[o] = "ready"} = {o \in Ops : phase[o] = "ready"} \ ToSet(ready[t])
    BY <1>1
  <2>6. {o \in Ops : phase'[o] = "ready"} = UNION {ToSet(ready'[u]) : u \in Threads}
    BY <2>2, <2>5 DEF PlaceInv, PlacedOnce, ReadyHolds
  <2> QED BY <2>3, <2>4, <2>6 DEF ReadyHolds
<1>5. DeliveredOnce'
  BY <1>1, <1>2 DEF PlaceInv, PlacedOnce, DeliveredOnce
<1> QED BY <1>3, <1>4, <1>5 DEF PlacedOnce

\* run_queue pops a task and completes it.
LEMMA PlaceRun ==
  ASSUME PlaceInv, NEW t \in Threads, RunTask(t)
  PROVE  PlacedOnce'
<1> DEFINE o == Head(ready[t])
<1>1. /\ ready[t] # <<>> /\ Complete(o) /\ phase' = [phase EXCEPT ![o] = "done"]
      /\ ready' = [ready EXCEPT ![t] = Tail(@)]
      /\ UNCHANGED <<read_queue, write_queue, sock, trig>>
  BY DEF RunTask, Complete, muxVars
<1>2. /\ o \in ToSet(ready[t]) /\ IsInjective(Tail(ready[t]))
      /\ ToSet(Tail(ready[t])) = ToSet(ready[t]) \ {o}
  BY <1>1, TailOnce DEF PlaceInv, TypeOK, PlacedOnce, ReadyHolds
<1>3. o \in Ops /\ phase[o] = "ready"
  BY <1>2 DEF PlaceInv, PlacedOnce, ReadyHolds
<1> HIDE DEF o
<1>4. \A p \in Ops : phase'[p] = IF p = o THEN "done" ELSE phase[p]
  BY <1>1 DEF PlaceInv, TypeOK
<1>5. QueuesHold'
  BY <1>1, <1>3, <1>4 DEF PlaceInv, PlacedOnce, QueuesHold, HoldsOnce
<1>6. ReadyHolds'
  <2>1. \A u \in Threads : ready'[u] = IF u = t THEN Tail(ready[t]) ELSE ready[u]
    BY <1>1 DEF PlaceInv, TypeOK
  <2>2. \A u \in Threads : ToSet(ready'[u]) = ToSet(ready[u]) \ {o}
    BY <1>2, <2>1 DEF PlaceInv, PlacedOnce, ReadyHolds
  <2>3. \A u \in Threads : IsInjective(ready'[u])
    BY <1>2, <2>1 DEF PlaceInv, PlacedOnce, ReadyHolds
  <2>4. \A u, v \in Threads : u # v => ToSet(ready'[u]) \cap ToSet(ready'[v]) = {}
    BY <2>2 DEF PlaceInv, PlacedOnce, ReadyHolds
  <2>5. {p \in Ops : phase'[p] = "ready"} = {p \in Ops : phase[p] = "ready"} \ {o}
    BY <1>4
  <2>6. {p \in Ops : phase'[p] = "ready"} = UNION {ToSet(ready'[u]) : u \in Threads}
    BY <2>2, <2>5 DEF PlaceInv, PlacedOnce, ReadyHolds
  <2> QED BY <2>3, <2>4, <2>6 DEF ReadyHolds
<1>7. DeliveredOnce'
  BY <1>1, <1>3, CompleteOnce DEF PlaceInv, PlacedOnce
<1> QED BY <1>5, <1>6, <1>7 DEF PlacedOnce

\* Every step preserves PlacedOnce.
LEMMA PlaceStep == PlaceInv /\ [Next]_vars => PlacedOnce'
<1> SUFFICES ASSUME PlaceInv, [Next]_vars PROVE PlacedOnce'
  OBVIOUS
<1>0. PlacedOnce
  BY DEF PlaceInv
<1> USE DEF muxVars, opVars, waitVars, envVars
<1>1. ASSUME NEW t \in Threads, Submit(t) PROVE PlacedOnce'
  BY <1>0, <1>1, PlaceFrame DEF PlaceInv, TypeOK, Submit, Set, Placed
<1>2. ASSUME NEW t \in Threads, NEW o \in Ops, ConnectCheck(t, o) PROVE PlacedOnce'
  BY <1>0, <1>2, PlaceFrame DEF PlaceInv, TypeOK, ConnectCheck, Placed
<1>3. ASSUME NEW t \in Threads, NEW o \in Ops, ConnectRegister(t, o) PROVE PlacedOnce'
  BY <1>0, <1>3, PlaceFrame DEF PlaceInv, TypeOK, ConnectRegister, Placed
<1>4. ASSUME NEW t \in Threads, NEW o \in Ops, StartCheck(t, o) PROVE PlacedOnce'
  BY <1>0, <1>4, PlaceFrame DEF PlaceInv, TypeOK, StartCheck, Placed
<1>5. CASE UNCHANGED <<opVars, read_queue, write_queue, ready>>
  BY <1>0, <1>5, PlaceFrame
<1> QED
  BY <1>1, <1>2, <1>3, <1>4, <1>5, PlaceInline, PlaceEnqueue, PlaceDispatch, PlaceThrow, PlaceRun
     DEF Next, ThreadStep, OpStep, WaitStep, Environment, Crashed, vars, StartNull, WaitCopy,
         WaitPoll, PollThrow, WaitLock, DispatchEvent, DispatchFault, DispatchEnd, WaitReturn,
         Raise, Release

\* At the start no operation exists and every queue is empty.
LEMMA PlaceInit == Init => PlaceInv
<1> SUFFICES ASSUME Init PROVE PlaceInv
  OBVIOUS
<1>1. TypeOK /\ OpShape
  BY DEF Init, TypeOK, OpShape, NoEvents, Phases, WaitPlaces, Events
<1>2. QueuesHold /\ DeliveredOnce
  BY EmptyOnce DEF Init, QueuesHold, HoldsOnce, DeliveredOnce
<1>3. ReadyHolds
  BY EmptyOnce DEF Init, ReadyHolds
<1> QED BY <1>1, <1>2, <1>3 DEF PlaceInv, PlacedOnce

\* Over any number of threads, sockets and operations, and whatever the kernel
\* reports, an operation is never on two queues, never run twice and never
\* forgotten by the queues except when wait_for throws.
THEOREM PlacementCorrect == Spec => []PlacedOnce
<1>1. Init => PlaceInv
  BY PlaceInit
<1>2. PlaceInv /\ [Next]_vars => PlaceInv'
  BY TypeStep, ShapeStep, PlaceStep DEF PlaceInv
<1>3. PlaceInv => PlacedOnce
  BY DEF PlaceInv
<1> QED BY <1>1, <1>2, <1>3, PTL DEF Spec

-----------------------------------------------------------------------------
(* The multiplexer implements OperationQueues. *)

\* The lines that the multiplexer's queues stand for.
PendingLines == [s \in Sockets |-> [g \in {"READ", "WRITE"} |-> Queue(s, g)]]

\* An operation that is on no queue and was not run has not entered a line.
LEMMA FreshOp ==
  ASSUME PlaceInv, NEW o \in Ops, phase[o] \notin Placed
  PROVE  Promise!Fresh(o)
<1>1. delivered[o] = <<>>
  BY DEF PlaceInv, TypeOK, PlacedOnce, DeliveredOnce, Placed
<1>2. ASSUME NEW s \in Sockets, NEW g \in {"READ", "WRITE"} PROVE o \notin ToSet(PendingLines[s][g])
  BY DEF PlaceInv, PlacedOnce, QueuesHold, HoldsOnce, Placed, PendingLines, Queue
<1>3. ASSUME NEW t \in Threads PROVE o \notin ToSet(ready[t])
  BY DEF PlaceInv, PlacedOnce, ReadyHolds, Placed
<1> QED BY <1>1, <1>2, <1>3 DEF Promise!Fresh, Promise!Lines, Promise!ToSet, ToSet, PendingLines

\* complete() gives an operation that was not answered its first and only result.
LEMMA FirstAnswer ==
  ASSUME PlaceInv, NEW o \in Ops, phase[o] # "done", Complete(o)
  PROVE  /\ delivered[o] = <<>>
         /\ \E r \in Results : delivered' = [delivered EXCEPT ![o] = <<r>>]
<1>1. PICK out \in Outcomes(o) : delivered' = [delivered EXCEPT ![o] = Append(@, out.result)]
  BY DEF Complete
<1>2. out.result \in Results
  BY OutcomesType DEF PlaceInv
<1>3. delivered[o] = <<>>
  BY DEF PlaceInv, TypeOK, PlacedOnce, DeliveredOnce
<1>4. Append(delivered[o], out.result) = <<out.result>>
  BY <1>3
<1> QED BY <1>1, <1>2, <1>3, <1>4

\* start() that completes at once answers without entering a line.
LEMMA LineInline ==
  ASSUME PlaceInv, NEW t \in Threads, NEW o \in Ops, StartInline(t, o)
  PROVE  Promise!LineNext
<1>1. phase[o] = "connected" /\ Complete(o) /\ UNCHANGED <<read_queue, write_queue, ready>>
  BY DEF StartInline, muxVars, waitVars
<1>2. PICK r \in Results : delivered' = [delivered EXCEPT ![o] = <<r>>]
  BY <1>1, FirstAnswer
<1>3. Promise!Fresh(o)
  BY <1>1, FreshOp DEF Placed
<1>4. UNCHANGED PendingLines
  BY <1>1 DEF PendingLines, Queue
<1>5. Promise!AnswerNow(o, r)
  BY <1>1, <1>2, <1>3, <1>4 DEF Promise!AnswerNow, PendingLines
<1> QED BY <1>5 DEF Promise!LineNext

\* start() that queues its operation puts it at the end of its line.
LEMMA LineEnqueue ==
  ASSUME PlaceInv, NEW t \in Threads, NEW o \in Ops, StartEnqueue(t, o)
  PROVE  Promise!LineNext
<1>1. /\ phase[o] = "starting"
      /\ read_queue' = PushIf(read_queue, o, "READ")
      /\ write_queue' = PushIf(write_queue, o, "WRITE")
      /\ UNCHANGED <<ready, delivered>>
  BY DEF StartEnqueue, waitVars
<1>2. sock[o] \in Sockets /\ trig[o] \in {"READ", "WRITE"}
  BY <1>1 DEF PlaceInv, OpShape, Triggers
<1>3. Promise!Fresh(o)
  BY <1>1, FreshOp DEF Placed
<1>4. PendingLines' = [PendingLines EXCEPT ![sock[o]][trig[o]] = Append(@, o)]
  <2>1. \A s \in Sockets : /\ read_queue'[s] = IF trig[o] = "READ" /\ sock[o] = s
                                                 THEN Append(read_queue[s], o) ELSE read_queue[s]
                           /\ write_queue'[s] = IF trig[o] = "WRITE" /\ sock[o] = s
                                                  THEN Append(write_queue[s], o) ELSE write_queue[s]
    BY <1>1, <1>2 DEF PushIf, PlaceInv, TypeOK
  <2>2. \A s \in Sockets, g \in {"READ", "WRITE"} :
          Queue(s, g)' = IF s = sock[o] /\ g = trig[o] THEN Append(Queue(s, g), o) ELSE Queue(s, g)
    BY <1>2, <2>1 DEF Queue
  <2> DEFINE Line(s) == [g \in {"READ", "WRITE"} |-> Queue(s, g)]
  <2>3. \A s \in Sockets : Line(s)' = IF s = sock[o]
                                        THEN [Line(s) EXCEPT ![trig[o]] = Append(@, o)] ELSE Line(s)
    BY <1>2, <2>2
  <2>4. PendingLines' = [s \in Sockets |-> Line(s)'] /\ PendingLines = [s \in Sockets |-> Line(s)]
    BY DEF PendingLines
  <2> HIDE DEF Line
  <2> QED BY <1>2, <2>3, <2>4
<1>5. Promise!Enter(o, sock[o], trig[o])
  BY <1>1, <1>3, <1>4 DEF Promise!Enter, PendingLines
<1> QED BY <1>2, <1>5 DEF Promise!LineNext, Promise!Lines

\* Appending two queues one after the other or joined first is the same.
LEMMA ConcatAssociates ==
  ASSUME NEW S, NEW p \in Seq(S), NEW q \in Seq(S), NEW r \in Seq(S)
  PROVE  p \o (q \o r) = (p \o q) \o r
<1> DEFINE left == p \o (q \o r)
           right == (p \o q) \o r
<1>1. left \in Seq(S) /\ right \in Seq(S)
  OBVIOUS
<1>2. Len(left) = Len(right)
  OBVIOUS
<1>3. ASSUME NEW i \in 1 .. Len(left) PROVE left[i] = right[i]
  OBVIOUS
<1> HIDE DEF left, right
<1>4. left = right
  BY <1>1, <1>2, <1>3, SeqEqual
<1> QED BY <1>4 DEF left, right

\* One event dispatched takes the lines that the event wakes, writers first.
LEMMA LineDispatch ==
  ASSUME PlaceInv, NEW t \in Threads, NEW s \in Sockets, DispatchOn(t, s)
  PROVE  Promise!LineNext
<1> DEFINE rev == snap[t][s]
           lines == {g \in {"READ", "WRITE"} : rev \cap Wakes(g) # {}}
           w == Moved(write_queue[s], rev, "WRITE")
           r == Moved(read_queue[s], rev, "READ")
<1>1. /\ write_queue' = [write_queue EXCEPT ![s] = Left(@, rev, "WRITE")]
      /\ read_queue' = [read_queue EXCEPT ![s] = Left(@, rev, "READ")]
      /\ ready' = [ready EXCEPT ![t] = @ \o (w \o r)]
      /\ UNCHANGED delivered
  BY DEF DispatchOn, AllMoved
<1>2. /\ ready[t] \in Seq(Ops) /\ w \in Seq(Ops) /\ r \in Seq(Ops)
      /\ ready \in [Threads -> Seq(Ops)]
  BY DEF PlaceInv, TypeOK, Moved
<1>3. /\ w = IF "WRITE" \in lines THEN PendingLines[s]["WRITE"] ELSE <<>>
      /\ r = IF "READ" \in lines THEN PendingLines[s]["READ"] ELSE <<>>
  BY DEF Moved, PendingLines, Queue
<1>4. PendingLines' = [PendingLines EXCEPT ![s] =
                         [g \in {"READ", "WRITE"} |-> IF g \in lines THEN <<>> ELSE @[g]]]
  <2>1. \A v \in Sockets :
          /\ read_queue'[v] = IF v = s /\ "READ" \in lines THEN <<>> ELSE read_queue[v]
          /\ write_queue'[v] = IF v = s /\ "WRITE" \in lines THEN <<>> ELSE write_queue[v]
    BY <1>1 DEF Left, PlaceInv, TypeOK
  <2> HIDE DEF lines
  <2> QED BY <2>1 DEF PendingLines, Queue
<1> HIDE DEF lines, w, r
<1>5. ready' = [ready EXCEPT ![t] = @ \o w \o r]
  <2>1. ready[t] \o (w \o r) = (ready[t] \o w) \o r
    BY <1>2, ConcatAssociates
  <2> QED BY <1>1, <2>1
<1>6. Promise!Take(t, s, lines)
  BY <1>1, <1>3, <1>4, <1>5 DEF Promise!Take, Promise!Lines, PendingLines
<1>7. lines \in SUBSET {"READ", "WRITE"}
  BY DEF lines
<1> QED BY <1>6, <1>7 DEF Promise!LineNext, Promise!Lines

\* run_queue answers the first of what its thread took.
LEMMA LineRun ==
  ASSUME PlaceInv, NEW t \in Threads, RunTask(t)
  PROVE  Promise!LineNext
<1> DEFINE o == Head(ready[t])
<1>1. /\ ready[t] # <<>> /\ Complete(o)
      /\ ready' = [ready EXCEPT ![t] = Tail(@)]
      /\ UNCHANGED <<read_queue, write_queue>>
  BY DEF RunTask, muxVars
<1>2. o \in ToSet(ready[t])
  BY <1>1, TailOnce DEF PlaceInv, TypeOK, PlacedOnce, ReadyHolds
<1>3. o \in Ops /\ phase[o] = "ready"
  BY <1>2 DEF PlaceInv, PlacedOnce, ReadyHolds
<1>4. /\ delivered[o] = <<>>
      /\ \E r \in Results : delivered' = [delivered EXCEPT ![o] = <<r>>]
  BY <1>1, <1>3, FirstAnswer
<1>5. UNCHANGED PendingLines
  BY <1>1 DEF PendingLines, Queue
<1>6. PICK r \in Results : Promise!AnswerFirst(t, r)
  BY <1>1, <1>4, <1>5 DEF Promise!AnswerFirst, PendingLines
<1> QED BY <1>6 DEF Promise!LineNext

\* A step of the multiplexer is a step of the lines or does not touch them.
LEMMA LineStep == PlaceInv /\ [Next]_vars => [Promise!LineNext]_(Promise!lineVars)
<1> SUFFICES ASSUME PlaceInv, [Next]_vars PROVE [Promise!LineNext]_(Promise!lineVars)
  OBVIOUS
<1>1. ASSUME NEW t \in Threads, DispatchThrow(t) PROVE Promise!LineNext
  <2>1. ready' = [ready EXCEPT ![t] = <<>>] /\ UNCHANGED <<read_queue, write_queue, delivered>>
    BY <1>1 DEF DispatchThrow
  <2>2. UNCHANGED PendingLines
    BY <2>1 DEF PendingLines, Queue
  <2>3. Promise!Forget(t)
    BY <2>1, <2>2 DEF Promise!Forget, PendingLines
  <2> QED BY <2>3 DEF Promise!LineNext
<1>2. CASE UNCHANGED <<read_queue, write_queue, ready, delivered>>
  <2>1. UNCHANGED PendingLines
    BY <1>2 DEF PendingLines, Queue
  <2> QED BY <1>2, <2>1 DEF Promise!lineVars, PendingLines
<1> USE DEF muxVars, opVars, waitVars
<1> QED
  BY <1>1, <1>2, LineInline, LineEnqueue, LineDispatch, LineRun
     DEF Next, Submit, Set, ThreadStep, OpStep, ConnectCheck, ConnectRegister, StartCheck,
         WaitStep, Environment, Crashed, vars, StartNull, WaitCopy, WaitPoll, PollThrow,
         WaitLock, DispatchEvent, DispatchFault, DispatchEnd, WaitReturn, Raise, Release

\* The initial states and the steps of the multiplexer, with any number of threads in
\* wait_for, are those of one line per socket and trigger: started operations wait in
\* order, are taken together and are answered once each in the order taken.
THEOREM LinesKept == Spec => FirstInFirstOut
<1>1. Init => Promise!LineInit
  BY DEF Init, Promise!LineInit, Promise!Lines, Queue
<1>2. Init => PlaceInv
  BY PlaceInit
<1>3. PlaceInv /\ [Next]_vars => PlaceInv'
  BY TypeStep, ShapeStep, PlaceStep DEF PlaceInv
<1> QED BY <1>1, <1>2, <1>3, LineStep, PTL DEF Spec, FirstInFirstOut, Promise!LineSpec

-----------------------------------------------------------------------------
(* The bounds on the time poll_ waits. *)

\* A signal never turns a finite wait into an endless one, nor an endless one into
\* a finite one: duration reaches -1 only when it was -1.
KeepsKind == (asked = -1) <=> (duration = -1)

\* What is left of the current system call's timeout never ends before the caller's
\* interval, and each counted signal has moved its end by the slack at most; the
\* clock passes it by the lateness only.
DeadlineInv ==
  /\ PollTypeOK
  /\ KeepsKind
  /\ duration > -1 =>
       /\ elapsed <= Deadline + Late
       /\ waited < Horizon => asked * Tick <= waited + (Deadline - elapsed)
       /\ interrupts < MaxInterrupts =>
            waited + (Deadline - elapsed) <= asked * Tick + interrupts * Slack
  /\ outcome = "timeout" => duration > -1 /\ elapsed >= Deadline
  /\ pc # "done" => outcome = "none"

\* Truncating division: e ticks hold q whole milliseconds and less than one more.
LEMMA WholeMilliseconds ==
  ASSUME NEW e \in Nat
  PROVE  LET q == e \div Tick
         IN  q \in Nat /\ q * Tick <= e /\ e <= q * Tick + (Tick - 1)
BY TickAssumption

\* The products of the argument, for integers.
LEMMA Products ==
  ASSUME NEW d \in Int, NEW q \in Int, NEW k \in Nat
  PROVE  /\ (d - q) * k = d * k - q * k
         /\ d <= q => d * k <= q * k
         /\ d * k \in Int
         /\ 0 <= d => 0 <= d * k
OBVIOUS

\* The slack covers both of its causes.
LEMMA SlackBounds == Slack \in Nat /\ Tick - 1 <= Slack /\ Late <= Slack
BY TickAssumption, BoundsAssumption DEF Slack

\* A signal keeps the invariant: this is what remaining_duration computes.
LEMMA InterruptedStep == DeadlineInv /\ Interrupted => DeadlineInv'
<1> SUFFICES ASSUME DeadlineInv, Interrupted PROVE DeadlineInv'
  OBVIOUS
<1> USE TickAssumption, DurationsAssumption, BoundsAssumption
<1>0. /\ pc = "poll" /\ outcome = "none" /\ UNCHANGED <<pc, asked, waited, outcome>>
      /\ interrupts' = CountTo(interrupts, MaxInterrupts) /\ interrupts' \in 0 .. MaxInterrupts
  BY DEF DeadlineInv, PollTypeOK, Interrupted, CountTo
<1>1. CASE duration = -1
  <2>1. UNCHANGED <<duration, elapsed>>
    BY <1>1 DEF Interrupted
  <2> QED BY <1>0, <1>1, <2>1 DEF DeadlineInv, PollTypeOK, KeepsKind
<1>2. CASE duration > -1
  <2> DEFINE q == elapsed \div Tick
  <2>1. /\ elapsed \in Nat /\ duration \in Nat /\ asked \in Nat /\ Tick \in Nat
        /\ waited \in Nat /\ interrupts \in Nat
    BY <1>2 DEF DeadlineInv, PollTypeOK, KeepsKind
  <2>2. q \in Nat /\ q * Tick <= elapsed /\ elapsed <= q * Tick + (Tick - 1)
    BY <2>1, WholeMilliseconds
  <2>3. /\ duration' = IF duration - q < 0 THEN 0 ELSE duration - q
        /\ elapsed' = 0
    BY <1>2 DEF Interrupted, Remaining
  <2>4. /\ elapsed <= duration * Tick + Late
        /\ waited < Horizon => asked * Tick <= waited + (duration * Tick - elapsed)
        /\ interrupts < MaxInterrupts =>
             waited + (duration * Tick - elapsed) <= asked * Tick + interrupts * Slack
    BY <1>2 DEF DeadlineInv, Deadline
  <2>5. (interrupts + 1) * Slack = interrupts * Slack + Slack
    BY <2>1, SlackBounds
  <2>6. /\ (duration - q) * Tick = duration * Tick - q * Tick
        /\ duration <= q => duration * Tick <= q * Tick
        /\ duration * Tick \in Int /\ q * Tick \in Int /\ asked * Tick \in Int
    BY <2>1, <2>2, Products
  <2>7. interrupts * Slack \in Int /\ Slack \in Nat /\ Tick - 1 <= Slack /\ Late <= Slack
    BY <2>1, SlackBounds
  <2>8. interrupts' < MaxInterrupts => interrupts < MaxInterrupts /\ interrupts' = interrupts + 1
    BY <1>0, <2>1 DEF CountTo
  <2> DEFINE dT == duration * Tick
             qT == q * Tick
             aT == asked * Tick
             iT == interrupts * Slack
             left == Deadline'
  <2> HIDE DEF q
  <2>9. /\ duration' \in Nat /\ left \in Int /\ 0 <= left
        /\ waited < Horizon => aT <= waited + left
        /\ interrupts < MaxInterrupts => waited + left <= aT + (iT + Slack)
    <3>1. CASE duration - q < 0
      <4>1. duration' = 0 /\ left = 0
        BY <2>1, <2>3, <3>1 DEF Deadline
      <4>2. duration <= q
        BY <2>1, <2>2, <3>1
      <4> HIDE DEF dT, qT, aT, iT, left
      <4> QED BY <2>1, <2>2, <2>4, <2>6, <2>7, <4>1, <4>2 DEF dT, qT, aT, iT
    <3>2. CASE duration - q >= 0
      <4>1. duration' = duration - q /\ duration' \in Nat
        BY <2>1, <2>2, <2>3, <3>2
      <4>2. left = dT - qT
        BY <2>6, <4>1 DEF Deadline
      <4>3. 0 <= (duration - q) * Tick
        <5>1. duration - q \in Int /\ 0 <= duration - q
          BY <2>1, <2>2, <3>2
        <5> QED BY <2>1, <5>1, Products
      <4>4. 0 <= dT - qT /\ dT \in Int /\ qT \in Int
        BY <2>6, <4>3
      <4> HIDE DEF dT, qT, aT, iT, left
      <4> QED BY <2>1, <2>2, <2>4, <2>6, <2>7, <4>1, <4>2, <4>4 DEF dT, qT, aT, iT
    <3> QED BY <2>1, <2>2, <3>1, <3>2
  <2>10. /\ asked' * Tick = aT /\ waited' = waited /\ elapsed' = 0 /\ aT \in Int
         /\ interrupts' < MaxInterrupts => interrupts' * Slack = iT + Slack
    BY <1>0, <2>3, <2>5, <2>6, <2>8
  <2>11. /\ elapsed' <= left + Late
         /\ waited' < Horizon => asked' * Tick <= waited' + (left - elapsed')
         /\ interrupts' < MaxInterrupts =>
              waited' + (left - elapsed') <= asked' * Tick + interrupts' * Slack
    <3> HIDE DEF aT, iT, left
    <3>1. left - 0 = left
      BY <2>9
    <3> QED BY <2>1, <2>8, <2>9, <2>10, <3>1
  <2>12. PollTypeOK' /\ KeepsKind'
    BY <1>0, <2>1, <2>3, <2>9 DEF DeadlineInv, PollTypeOK, KeepsKind
  <2> QED BY <1>0, <2>11, <2>12 DEF DeadlineInv
<1> QED BY <1>1, <1>2 DEF DeadlineInv, PollTypeOK

\* The clock keeps the invariant: the times grow together until waited is full.
LEMMA AdvanceStep == DeadlineInv /\ Advance => DeadlineInv'
<1> SUFFICES ASSUME DeadlineInv, Advance PROVE DeadlineInv'
  OBVIOUS
<1> USE TickAssumption, DurationsAssumption, BoundsAssumption
<1>1. /\ UNCHANGED <<pc, asked, duration, interrupts, outcome>> /\ outcome = "none"
      /\ waited' = CountTo(waited, Horizon) /\ waited \in 0 .. Horizon /\ waited' \in 0 .. Horizon
  BY DEF DeadlineInv, PollTypeOK, Advance, CountTo
<1>2. CASE duration = -1
  BY <1>1, <1>2 DEF DeadlineInv, PollTypeOK, KeepsKind, Advance, CountTo
<1>3. CASE duration > -1
  <2>1. /\ elapsed \in Nat /\ duration \in Nat /\ asked \in Nat /\ interrupts \in Nat
        /\ elapsed' = elapsed + 1 /\ elapsed < Deadline + Late /\ Deadline' = Deadline
    BY <1>1, <1>3 DEF DeadlineInv, PollTypeOK, KeepsKind, Advance, Deadline
  <2>2. Deadline \in Int /\ asked * Tick \in Int /\ interrupts * Slack \in Int
    BY <2>1, Products, SlackBounds DEF Deadline
  <2>3. /\ waited < Horizon => asked * Tick <= waited + (Deadline - elapsed)
        /\ interrupts < MaxInterrupts =>
             waited + (Deadline - elapsed) <= asked * Tick + interrupts * Slack
    BY <1>3 DEF DeadlineInv
  <2>4. /\ waited' < Horizon => waited < Horizon /\ waited' = waited + 1
        /\ waited' <= waited + 1
    BY <1>1 DEF CountTo
  <2> DEFINE aT == asked * Tick
             iT == interrupts * Slack
             D == Deadline
  <2>5. /\ elapsed + 1 <= D + Late
        /\ waited' < Horizon => aT <= waited' + (D - (elapsed + 1))
        /\ interrupts < MaxInterrupts => waited' + (D - (elapsed + 1)) <= aT + iT
    <3> HIDE DEF aT, iT, D
    <3> QED BY <1>1, <2>1, <2>2, <2>3, <2>4 DEF aT, iT, D
  <2> QED
    BY <1>1, <2>1, <2>5 DEF DeadlineInv, PollTypeOK, KeepsKind
<1> QED BY <1>2, <1>3 DEF DeadlineInv, PollTypeOK

\* Every step keeps the invariant.
LEMMA DeadlineStep == DeadlineInv /\ [PollNext]_pollVars => DeadlineInv'
<1> SUFFICES ASSUME DeadlineInv, [PollNext]_pollVars PROVE DeadlineInv'
  OBVIOUS
<1> USE TickAssumption, DurationsAssumption, BoundsAssumption
<1>1. ASSUME NEW d \in Durations, EnterPoll(d) PROVE DeadlineInv'
  <2>1. d \in Int /\ Tick \in Nat /\ d * Tick \in Int /\ (d > -1 => 0 <= d * Tick)
    BY Products
  <2>2. Deadline' = d * Tick /\ asked' = d /\ elapsed' = 0 /\ waited' = 0 /\ interrupts' = 0
    BY <1>1, <2>1 DEF EnterPoll, Deadline
  <2>3. 0 * Slack = 0
    BY SlackBounds
  <2> QED BY <1>1, <2>1, <2>2, <2>3 DEF DeadlineInv, PollTypeOK, KeepsKind, EnterPoll
<1>2. CASE Advance
  BY <1>2, AdvanceStep
<1>3. CASE Interrupted
  BY <1>3, InterruptedStep
<1>4. CASE Expire \/ HasEvents \/ PollFails
  BY <1>4 DEF DeadlineInv, PollTypeOK, KeepsKind, Expire, HasEvents, PollFails, End, Deadline
<1>5. CASE UNCHANGED pollVars
  BY <1>5 DEF DeadlineInv, PollTypeOK, KeepsKind, pollVars, Deadline
<1> QED BY <1>1, <1>2, <1>3, <1>4, <1>5 DEF PollNext

\* The invariant holds throughout.
LEMMA DeadlineCorrect == PollSpec => []DeadlineInv
<1>1. PollInit => DeadlineInv
  BY DurationsAssumption, BoundsAssumption DEF PollInit, DeadlineInv, PollTypeOK, KeepsKind
<1> QED BY <1>1, DeadlineStep, PTL DEF PollSpec

\* The type invariant, for every clock resolution and however many signals arrive:
\* the duration that is passed on is the one asked for, or not negative.
THEOREM PollTypeCorrect == PollSpec => []PollTypeOK
<1>1. DeadlineInv => PollTypeOK
  BY DEF DeadlineInv
<1> QED BY <1>1, DeadlineCorrect, PTL

\* For every clock resolution and however many signals arrive, poll_ never reports
\* a timeout early.
THEOREM TimeoutNotEarly == PollSpec => []NotEarly
<1>1. DeadlineInv => NotEarly
  <2> SUFFICES ASSUME DeadlineInv, outcome = "timeout" PROVE waited >= asked * Tick
    BY DEF NotEarly
  <2>1. /\ duration > -1 /\ elapsed >= Deadline /\ waited \in 0 .. Horizon /\ elapsed \in Nat
        /\ duration \in Nat /\ asked \in Nat /\ asked \in Durations /\ Tick \in Nat
    BY TickAssumption, DurationsAssumption DEF DeadlineInv, PollTypeOK, KeepsKind
  <2>2. asked * Tick \in Int /\ Deadline \in Int
    BY <2>1, Products DEF Deadline
  <2>3. CASE waited < Horizon
    BY <2>1, <2>2, <2>3 DEF DeadlineInv
  <2>4. CASE waited = Horizon
    BY <2>1, <2>2, <2>4, BoundsAssumption
  <2> QED BY <2>1, <2>3, <2>4, BoundsAssumption
<1> QED BY <1>1, DeadlineCorrect, PTL

\* For every clock resolution and every number of counted signals, poll_ waits at
\* most its interval, one slack for each signal and the lateness of the last wake-up.
THEOREM TimeoutOvershoot == PollSpec => []BoundedOvershoot
<1>1. DeadlineInv => BoundedOvershoot
  <2> SUFFICES ASSUME DeadlineInv, asked > -1, interrupts < MaxInterrupts
               PROVE  waited <= asked * Tick + interrupts * Slack + Late
    BY DEF BoundedOvershoot
  <2>1. duration > -1 /\ duration \in Nat /\ asked \in Nat /\ interrupts \in Nat
    BY DurationsAssumption, BoundsAssumption DEF DeadlineInv, PollTypeOK, KeepsKind
  <2>2. /\ asked * Tick \in Int /\ interrupts * Slack \in Int /\ Late \in Int
        /\ elapsed \in Int /\ Deadline \in Int /\ waited \in Int
    BY <2>1, TickAssumption, BoundsAssumption, SlackBounds, Products
       DEF DeadlineInv, PollTypeOK, Deadline
  <2>3. /\ elapsed <= Deadline + Late
        /\ waited + (Deadline - elapsed) <= asked * Tick + interrupts * Slack
    BY <2>1 DEF DeadlineInv
  <2> QED BY <2>2, <2>3
<1> QED BY <1>1, DeadlineCorrect, PTL

=============================================================================
