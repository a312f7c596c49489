----------------------- MODULE AsyncOperationsProofs -----------------------
(***************************************************************************)
(* Proofs about AsyncOperations.  What holds for any number of threads     *)
(* comes first; then what holds for a program whose only thread both       *)
(* issues the operations and runs the event loop.                          *)
(***************************************************************************)
EXTENDS AsyncOperations, PollMultiplexerProofs

-----------------------------------------------------------------------------
(* Any number of threads. *)

\* A step of the asynchronous operations issues an operation, looks at the error of a
\* failed attempt, or is a step of the multiplexer.
LEMMA AsyncCases ==
  ASSUME [AsyncNext]_asyncVars
  PROVE  \/ \E t \in Threads, o \in Ops, s \in Sockets :
              \/ \E g \in {"READ", "WRITE"} : Defer(t, o, s, g) \/ Attempt(t, o, s, g)
              \/ ConnectSocket(t, o, s)
         \/ \E t \in Threads, o \in Ops : AfterFailure(t, o)
         \/ [Next]_vars /\ UNCHANGED counter
BY DEF AsyncNext, Issue, Accept, Recvmsg, Sendmsg, AsyncThreadStep, Next, asyncVars

\* The outcome of a system call is a result that is not an empty call, and consumes
\* poll conditions.
LEMMA IoOutcomesType ==
  ASSUME NEW g, NEW k, NEW out \in IoOutcomes(g, k)
  PROVE  out.result \in {"value", "error", "would_block"} /\ out.used \subseteq k
<1>1. CASE \E u \in SUBSET (k \cap Interest(g)) : out = [result |-> "value", used |-> u]
  BY <1>1
<1>2. CASE out = [result |-> "error", used |-> k \cap {"POLLERR"}]
  BY <1>2
<1>3. CASE out = [result |-> "would_block", used |-> {}]
  BY <1>3
<1> QED BY <1>1, <1>2, <1>3 DEF IoOutcomes

\* What an attempt does, apart from the counter: a value makes an eager operation, a
\* failure leaves its errno on the handle.
LEMMA AttemptCases ==
  ASSUME NEW t, NEW o, NEW s, NEW g, Attempt(t, o, s, g)
  PROVE  /\ CanIssue(t, o, s)
         /\ UNCHANGED <<muxVars, mtx, demux, delivered, waitVars, held, fault>>
         /\ \E out \in IoOutcomes(g, rdy[s]) :
              /\ rdy' = [rdy EXCEPT ![s] = @ \ out.used]
              /\ \/ /\ out.result = "value" /\ UNCHANGED error
                    /\ Become(o, t, s, "EAGER", "value", "sender")
                 \/ /\ out.result = "error"
                    /\ error' = [error EXCEPT ![s] = "EFAIL"]
                    /\ Become(o, t, s, g, "io", "attempted")
                 \/ /\ out.result = "would_block"
                    /\ error' = [error EXCEPT ![s] = "EAGAIN"]
                    /\ Become(o, t, s, g, "io", "attempted")
<1>1. PICK out \in IoOutcomes(g, rdy[s]) :
        /\ rdy' = [rdy EXCEPT ![s] = @ \ out.used]
        /\ IF out.result = "value"
             THEN Become(o, t, s, "EAGER", "value", "sender") /\ UNCHANGED error
             ELSE /\ error' = [error EXCEPT ![s] = Errno(out.result)]
                  /\ Become(o, t, s, g, "io", "attempted")
  BY DEF Attempt
<1>2. out.result \in {"value", "error", "would_block"}
  BY IoOutcomesType
<1>3. CanIssue(t, o, s) /\ UNCHANGED <<muxVars, mtx, demux, delivered, waitVars, held, fault>>
  BY DEF Attempt
<1> HIDE DEF Become
<1>4. CASE out.result = "value"
  BY <1>1, <1>3, <1>4
<1>5. CASE out.result = "error"
  BY <1>1, <1>3, <1>5 DEF Errno
<1>6. CASE out.result = "would_block"
  BY <1>1, <1>3, <1>6 DEF Errno
<1> QED BY <1>2, <1>4, <1>5, <1>6

\* Making an operation keeps the types.
LEMMA BecomeType ==
  ASSUME TypeOK, NEW o \in Ops, NEW t \in Threads, NEW s \in Sockets, NEW g \in Triggers,
         NEW f \in {"io", "value", "empty"}, NEW place \in Phases, Become(o, t, s, g, f, place)
  PROVE  /\ phase' \in [Ops -> Phases] /\ sock' \in [Ops -> Sockets \cup {Nil}]
         /\ trig' \in [Ops -> Triggers \cup {Nil}] /\ func' \in [Ops -> {"io", "value", "empty"}]
         /\ owner' \in [Ops -> Threads \cup {Nil}]
BY DEF TypeOK, Become

\* Every step preserves AsyncTypeOK; the types of an attempted operation need its shape.
LEMMA AsyncTypeStep == AsyncTypeOK /\ OpShape /\ [AsyncNext]_asyncVars => AsyncTypeOK'
<1> SUFFICES ASSUME AsyncTypeOK, OpShape, [AsyncNext]_asyncVars PROVE AsyncTypeOK'
  OBVIOUS
<1>0. /\ TypeOK /\ counter \in 0 .. (Wrap - 1)
      /\ Wrap \in Nat \ {0, 1} /\ NextCount \in 0 .. (Wrap - 1)
  BY WrapAssumption DEF AsyncTypeOK, NextCount
<1> USE DEF muxVars, waitVars, envVars
<1>1. ASSUME NEW t \in Threads, NEW o \in Ops, NEW s \in Sockets, NEW g \in {"READ", "WRITE"},
             Defer(t, o, s, g)
      PROVE  AsyncTypeOK'
  <2>1. /\ Become(o, t, s, g, "io", "sender") /\ g \in Triggers /\ "sender" \in Phases
        /\ counter' = 0
        /\ UNCHANGED <<error, muxVars, mtx, demux, delivered, waitVars, envVars, fault>>
    BY <1>1 DEF Defer, Triggers, Phases
  <2>2. TypeOK'
    BY <1>0, <2>1, BecomeType DEF TypeOK
  <2> QED BY <1>0, <2>1, <2>2 DEF AsyncTypeOK
<1>2. ASSUME NEW t \in Threads, NEW o \in Ops, NEW s \in Sockets, NEW g \in {"READ", "WRITE"},
             Attempt(t, o, s, g)
      PROVE  AsyncTypeOK'
  <2>0. Become(o, t, s, "EAGER", "value", "sender") \/ Become(o, t, s, g, "io", "attempted")
    BY <1>2, AttemptCases
  <2>1. PICK f \in {"io", "value"}, h \in Triggers, place \in {"sender", "attempted"} :
          Become(o, t, s, h, f, place)
    <3>1. {"EAGER", g} \subseteq Triggers
      BY DEF Triggers
    <3> QED BY <2>0, <3>1
  <2>2. error' \in [Sockets -> {"OK", "EAGAIN", "EFAIL"}]
    BY <1>0, <1>2, AttemptCases DEF TypeOK
  <2>3. rdy' \in [Sockets -> SUBSET Events]
    <3>1. PICK out \in IoOutcomes(g, rdy[s]) : rdy' = [rdy EXCEPT ![s] = @ \ out.used]
      BY <1>2, AttemptCases
    <3> QED BY <1>0, <3>1 DEF TypeOK
  <2>4. UNCHANGED <<muxVars, mtx, demux, delivered, waitVars, held, fault>>
    BY <1>2, AttemptCases
  <2>5. TypeOK'
    BY <1>0, <2>1, <2>2, <2>3, <2>4, BecomeType DEF TypeOK, Phases
  <2>6. counter' = NextCount
    BY <1>2 DEF Attempt
  <2> QED BY <1>0, <2>5, <2>6 DEF AsyncTypeOK
<1>3. ASSUME NEW t \in Threads, NEW o \in Ops, NEW s \in Sockets, ConnectSocket(t, o, s)
      PROVE  AsyncTypeOK'
  <2>1. /\ Become(o, t, s, "WRITE", "value", "sender")
        /\ "WRITE" \in Triggers /\ "sender" \in Phases
        /\ error' \in {error, [error EXCEPT ![s] = "EFAIL"]}
        /\ UNCHANGED <<muxVars, mtx, demux, delivered, waitVars, envVars, fault, counter>>
    BY <1>3 DEF ConnectSocket, Triggers, Phases
  <2>2. error' \in [Sockets -> {"OK", "EAGAIN", "EFAIL"}]
    BY <1>0, <2>1 DEF TypeOK
  <2>3. TypeOK'
    BY <1>0, <2>1, <2>2, BecomeType DEF TypeOK
  <2> QED BY <1>0, <2>1, <2>3 DEF AsyncTypeOK
<1>4. ASSUME NEW t \in Threads, NEW o \in Ops, AfterFailure(t, o) PROVE AsyncTypeOK'
  <2>1. /\ phase[o] = "attempted"
        /\ UNCHANGED <<error, muxVars, mtx, demux, delivered, waitVars, envVars, fault, counter>>
    BY <1>4 DEF AfterFailure
  <2>2. sock[o] \in Sockets /\ trig[o] \in Triggers
    BY <2>1 DEF OpShape
  <2>3. PICK g \in Triggers, f \in {"io", "empty"} : Become(o, t, sock[o], g, f, "sender")
    BY <1>4, <2>2 DEF AfterFailure, Triggers
  <2>4. TypeOK'
    BY <1>0, <2>1, <2>2, <2>3, BecomeType DEF TypeOK, Phases
  <2> QED BY <1>0, <2>1, <2>4 DEF AsyncTypeOK
<1>5. CASE [Next]_vars /\ UNCHANGED counter
  BY <1>0, <1>5, TypeStep DEF AsyncTypeOK
<1> QED BY <1>1, <1>2, <1>3, <1>4, <1>5, AsyncCases

\* Issuing an operation or looking at its failed attempt moves none between queues.
LEMMA IssuePlaces ==
  ASSUME PlaceInv, NEW o \in Ops, NEW t \in Threads, NEW s \in Sockets, NEW g \in Triggers, NEW f,
         NEW place \in {"sender", "attempted"}, Become(o, t, s, g, f, place),
         phase[o] \in {"new", "attempted"},
         UNCHANGED <<read_queue, write_queue, ready, delivered>>
  PROVE  OpShape' /\ PlacedOnce'
<1>1. \A p \in Ops : p # o => phase'[p] = phase[p] /\ sock'[p] = sock[p] /\ trig'[p] = trig[p]
  BY DEF Become, PlaceInv, TypeOK
<1>2. phase'[o] = place /\ sock'[o] = s /\ trig'[o] = g
  BY DEF Become, PlaceInv, TypeOK
<1>3. OpShape'
  BY <1>1, <1>2 DEF OpShape, PlaceInv
<1>4. PlacedOnce'
  BY <1>1, <1>2, PlaceFrame DEF Placed, PlaceInv
<1> QED BY <1>3, <1>4

\* The inductive invariant for any number of threads.
AsyncInv == AsyncTypeOK /\ OpShape /\ PlacedOnce

\* A step that is none of the multiplexer's leaves the queues alone.
LEMMA IssueFrame ==
  ASSUME AsyncInv, [AsyncNext]_asyncVars
  PROVE  \/ [Next]_vars
         \/ /\ OpShape' /\ PlacedOnce'
            /\ UNCHANGED <<read_queue, write_queue, ready, delivered>>
<1>0. PlaceInv
  BY DEF AsyncInv, AsyncTypeOK, PlaceInv
<1> USE DEF muxVars, waitVars
<1>1. ASSUME NEW t \in Threads, NEW o \in Ops, NEW s \in Sockets, NEW g \in {"READ", "WRITE"},
             Defer(t, o, s, g)
      PROVE  OpShape' /\ PlacedOnce' /\ UNCHANGED <<read_queue, write_queue, ready, delivered>>
  BY <1>0, <1>1, IssuePlaces DEF Defer, CanIssue, Triggers
<1>2. ASSUME NEW t \in Threads, NEW o \in Ops, NEW s \in Sockets, NEW g \in {"READ", "WRITE"},
             Attempt(t, o, s, g)
      PROVE  OpShape' /\ PlacedOnce' /\ UNCHANGED <<read_queue, write_queue, ready, delivered>>
  <2>0. Become(o, t, s, "EAGER", "value", "sender") \/ Become(o, t, s, g, "io", "attempted")
    BY <1>2, AttemptCases
  <2>1. PICK f \in {"io", "value"}, h \in Triggers, place \in {"sender", "attempted"} :
          Become(o, t, s, h, f, place)
    BY <2>0 DEF Triggers
  <2>2. phase[o] = "new" /\ UNCHANGED <<read_queue, write_queue, ready, delivered>>
    BY <1>2, AttemptCases DEF CanIssue
  <2> QED BY <1>0, <2>1, <2>2, IssuePlaces
<1>3. ASSUME NEW t \in Threads, NEW o \in Ops, NEW s \in Sockets, ConnectSocket(t, o, s)
      PROVE  OpShape' /\ PlacedOnce' /\ UNCHANGED <<read_queue, write_queue, ready, delivered>>
  BY <1>0, <1>3, IssuePlaces DEF ConnectSocket, CanIssue, Triggers
<1>4. ASSUME NEW t \in Threads, NEW o \in Ops, AfterFailure(t, o)
      PROVE  OpShape' /\ PlacedOnce' /\ UNCHANGED <<read_queue, write_queue, ready, delivered>>
  <2>1. phase[o] = "attempted" /\ UNCHANGED <<read_queue, write_queue, ready, delivered>>
    BY <1>4 DEF AfterFailure
  <2>2. sock[o] \in Sockets /\ trig[o] \in Triggers
    BY <2>1 DEF AsyncInv, OpShape
  <2>3. PICK f \in {"io", "empty"}, g \in Triggers : Become(o, t, sock[o], g, f, "sender")
    BY <1>4, <2>2 DEF AfterFailure, Triggers
  <2> QED BY <1>0, <2>1, <2>2, <2>3, IssuePlaces
<1> QED BY <1>1, <1>2, <1>3, <1>4, AsyncCases

\* AsyncInv holds initially and is preserved by every step.
LEMMA AsyncInductive == /\ AsyncInit => AsyncInv
                        /\ AsyncInv /\ [AsyncNext]_asyncVars => AsyncInv'
<1>1. AsyncInit => AsyncInv
  BY PlaceInit, WrapAssumption DEF AsyncInit, AsyncInv, AsyncTypeOK, PlaceInv
<1>2. AsyncInv /\ [AsyncNext]_asyncVars => OpShape' /\ PlacedOnce'
  BY IssueFrame, ShapeStep, PlaceStep DEF AsyncInv, AsyncTypeOK, PlaceInv
<1>3. AsyncInv /\ [AsyncNext]_asyncVars => AsyncTypeOK'
  BY AsyncTypeStep DEF AsyncInv
<1> QED BY <1>1, <1>2, <1>3 DEF AsyncInv

\* Every reachable state of the asynchronous operations is well typed: in particular
\* the fairness counter keeps its width.
THEOREM AsyncTypeCorrect == AsyncSpec => []AsyncTypeOK
<1>1. AsyncInv => AsyncTypeOK
  BY DEF AsyncInv
<1> QED BY <1>1, AsyncInductive, PTL DEF AsyncSpec

\* Operations issued by accept, connect, recvmsg and sendmsg, by any number of threads,
\* are each in one place and complete once.
THEOREM AsyncPlacement == AsyncSpec => []PlacedOnce
<1>1. AsyncInv => PlacedOnce
  BY DEF AsyncInv
<1> QED BY <1>1, AsyncInductive, PTL DEF AsyncSpec

\* The operations issued by accept, connect, recvmsg and sendmsg wait in one line per
\* socket and trigger and complete in the order in which a thread took them.
THEOREM AsyncLinesKept == AsyncSpec => FirstInFirstOut
<1>1. AsyncInit => Promise!LineInit
  BY DEF AsyncInit, Init, Promise!LineInit, Promise!Lines, Queue
<1>2. AsyncInv /\ [AsyncNext]_asyncVars => [Promise!LineNext]_(Promise!lineVars)
  <2> SUFFICES ASSUME AsyncInv, [AsyncNext]_asyncVars
               PROVE  [Promise!LineNext]_(Promise!lineVars)
    OBVIOUS
  <2>1. CASE [Next]_vars
    BY <2>1, LineStep DEF AsyncInv, AsyncTypeOK, PlaceInv
  <2>2. CASE UNCHANGED <<read_queue, write_queue, ready, delivered>>
    BY <2>2 DEF Promise!lineVars, Queue
  <2> QED BY <2>1, <2>2, IssueFrame
<1> QED BY <1>1, <1>2, AsyncInductive, PTL DEF AsyncSpec, FirstInFirstOut, Promise!LineSpec

-----------------------------------------------------------------------------
(* Invariants of a program with one thread. *)

\* From the copy of the interest list to the end of the dispatch loop.
Polling == {"poll", "block", "lock", "dispatch"}

\* The operation exists and has not been started.
Unstarted == {"attempted", "sender", "connecting", "connected", "starting"}

\* Every operation belongs to a thread, and gets its demultiplexer from connect().
Owned ==
  \A o \in Ops :
    /\ phase[o] # "new" => owner[o] \in Threads
    /\ phase[o] \in {"new", "attempted", "sender", "connecting"} => ~demux[o]

\* While the thread is in poll() or dispatches, it has started all it made.
Idle == \A t \in Threads : wpc[t] \in Polling => \A o \in Ops : phase[o] \notin Unstarted

\* A registered operation has its event in the list until its queue is moved.
Registered ==
  \A o \in Ops :
    /\ phase[o] = "queued" => demux[o]
    /\ demux[o] /\ phase[o] \in {"connected", "starting", "queued"} =>
         Interest(trig[o]) \subseteq list[sock[o]]

\* connect() and start() of an operation see the same error on the handle.
Firm ==
  \A o \in Ops :
    /\ \/ phase[o] = "connecting"
       \/ phase[o] \in {"connected", "starting"} /\ demux[o]
       => trig[o] # "EAGER" /\ error[sock[o]] # "EFAIL"
    /\ phase[o] = "connected" /\ ~demux[o] => ~Registers(o)
    /\ phase[o] = "starting" => demux[o]

\* The handle holds the error that an empty functor stands for until it is delivered.
Excused ==
  \A o \in Ops :
    func[o] = "empty" =>
      /\ trig[o] = "EAGER" /\ phase[o] \in {"sender", "connected", "done"}
      /\ phase[o] # "done" => error[sock[o]] = "EFAIL"
      /\ phase[o] = "done" => delivered[o] = <<"error">>

\* Whatever is in the list was registered by an operation that still waits for it.
Wanted ==
  \A s \in Sockets, g \in {"READ", "WRITE"} :
    Interest(g) \subseteq list[s] =>
      \E o \in Ops : /\ sock[o] = s /\ trig[o] = g /\ demux[o]
                     /\ phase[o] \in {"connected", "starting", "queued"}

\* Without POLLHUP from the kernel there is none in what poll() reports.
NoHangUp == /\ \A s \in Sockets : "POLLHUP" \notin rdy[s]
            /\ \A t \in Threads, s \in Sockets : "POLLHUP" \notin snap[t][s]

\* The sockets polled and reported are those of queued operations, whose
\* demultiplexer has the pointer to the handle.
Reported ==
  /\ \A t \in Threads, s \in Sockets : wpc[t] \in Polling /\ snap[t][s] # {} =>
       \E o \in Ops : phase[o] = "queued" /\ sock[o] = s
  /\ \A o \in Ops : phase[o] = "queued" => demux_socket[sock[o]] # Nil

\* An eager operation is not a system call, one that was attempted is.
EagerShape == \A o \in Ops : /\ trig[o] = "EAGER" => func[o] # "io"
                             /\ phase[o] = "attempted" => func[o] = "io"

\* What was reported of a socket with queued operations is still so.
StillTrue ==
  \A t \in Threads : wpc[t] \in {"lock", "dispatch"} =>
    \A o \in Ops : phase[o] = "queued" => snap[t][sock[o]] \subseteq rdy[sock[o]]

\* Operations are ready from their dispatch until the thread leaves wait_for.
ReadyTime ==
  \A o \in Ops, t \in Threads : phase[o] = "ready" =>
    /\ wpc[t] \in {"dispatch", "run", "cont"}
    /\ wpc[t] = "dispatch" => snap[t][sock[o]] = {}

\* Another operation contended with o; an attempt that failed did not.
Rival(o) == \E p \in Ops : /\ Contends(p, o) /\ phase[p] # "new"
                           /\ ~(phase[p] = "attempted" /\ error[sock[p]] = "EFAIL")

\* A task that is about to run finds an error, something to do, or had a rival.
Served ==
  \A o \in Ops :
    /\ phase[o] = "ready" =>
         /\ trig[o] # "EAGER"
         /\ \/ error[sock[o]] = "EFAIL" \/ func[o] # "io"
            \/ rdy[sock[o]] \cap (Serves(trig[o]) \cup Fails(trig[o])) # {}
            \/ Rival(o)
    /\ "would_block" \in ToSet(delivered[o]) => Rival(o)

-----------------------------------------------------------------------------
(* Steps of a program with one thread. *)

\* The steps that change no operation, interest list or error: between the locks of
\* wait_for, in the kernel, and into undefined behaviour.
Passive(t) ==
  \/ \E o \in Ops : StartNull(t, o)
  \/ \E ivl \in Intervals : WaitCopy(t, ivl)
  \/ WaitPoll(t) \/ PollThrow(t) \/ WaitLock(t) \/ DispatchFault(t) \/ DispatchEnd(t)
  \/ WaitReturn(t) \/ Environment \/ UNCHANGED vars

\* What the only thread, or the kernel, can do next.
LEMMA LoopCases ==
  ASSUME NEW t, Threads = {t}, [AsyncNext]_asyncVars
  PROVE  \/ \E o \in Ops, s \in Sockets, g \in {"READ", "WRITE"} :
              Defer(t, o, s, g) \/ Attempt(t, o, s, g)
         \/ \E o \in Ops, s \in Sockets : ConnectSocket(t, o, s)
         \/ \E o \in Ops : \/ AfterFailure(t, o) \/ ConnectCheck(t, o) \/ ConnectRegister(t, o)
                           \/ StartInline(t, o) \/ StartCheck(t, o) \/ StartEnqueue(t, o)
         \/ \E s \in Sockets : DispatchOn(t, s)
         \/ DispatchThrow(t) \/ RunTask(t)
         \/ Passive(t)
BY DEF AsyncNext, Issue, Accept, Recvmsg, Sendmsg, AsyncThreadStep, ThreadStep, OpStep, WaitStep,
       DispatchEvent, Passive, asyncVars

\* What a passive step leaves alone.
LEMMA PassiveFrame ==
  ASSUME NEW t, Passive(t)
  PROVE  UNCHANGED <<error, muxVars, opVars, ready>>
BY DEF Passive, StartNull, WaitCopy, WaitPoll, PollThrow, WaitLock, DispatchFault, DispatchEnd,
       WaitReturn, Environment, Raise, Release, vars, waitVars

\* The tasks that a dispatch moves and a throw drops are past their start.
LEMMA MovedPhases ==
  ASSUME AsyncInv, NEW t \in Threads
  PROVE  /\ \A s \in Sockets : \A o \in ToSet(AllMoved(s, snap[t][s])) :
              /\ o \in Ops /\ phase[o] = "queued" /\ sock[o] = s
              /\ snap[t][s] \cap Wakes(trig[o]) # {} /\ trig[o] \in {"READ", "WRITE"}
         /\ \A o \in ToSet(ready[t]) : o \in Ops /\ phase[o] = "ready"
         /\ ready[t] # <<>> => Head(ready[t]) \in ToSet(ready[t])
<1>1. TypeOK /\ PlacedOnce
  BY DEF AsyncInv, AsyncTypeOK
<1>2. \A s \in Sockets : \A o \in ToSet(AllMoved(s, snap[t][s])) :
        /\ o \in Ops /\ phase[o] = "queued" /\ sock[o] = s
        /\ snap[t][s] \cap Wakes(trig[o]) # {} /\ trig[o] \in {"READ", "WRITE"}
  BY <1>1, MovedOnce
<1>3. \A o \in ToSet(ready[t]) : o \in Ops /\ phase[o] = "ready"
  BY <1>1 DEF PlacedOnce, ReadyHolds
<1>4. ready[t] # <<>> => Head(ready[t]) \in ToSet(ready[t])
  BY <1>1, TailOnce DEF TypeOK, PlacedOnce, ReadyHolds
<1> QED BY <1>2, <1>3, <1>4

\* The single ready queue holds all ready operations.
LEMMA ReadyAlone ==
  ASSUME NEW t, Threads = {t}, AsyncInv, NEW o \in Ops, phase[o] = "ready"
  PROVE  o \in ToSet(ready[t]) /\ ready[t] # <<>>
<1>1. o \in ToSet(ready[t])
  BY DEF AsyncInv, PlacedOnce, ReadyHolds
<1> QED BY <1>1, EmptyOnce

\* The thread polls and dispatches only when it has started all it made.
LEMMA IdleStep ==
  ASSUME NEW t, Threads = {t}, AsyncInv, Owned, Idle, [AsyncNext]_asyncVars
  PROVE  Owned' /\ Idle'
<1>0. TypeOK
  BY DEF AsyncInv, AsyncTypeOK
<1> USE DEF Owned, Idle, Polling, Unstarted, TypeOK, muxVars, opVars, waitVars, envVars
<1>1. ASSUME NEW o \in Ops, NEW s \in Sockets, NEW g, NEW f, NEW place, CanIssue(t, o, s),
             Become(o, t, s, g, f, place), UNCHANGED <<wpc, demux>>,
             place \in {"sender", "attempted"}
      PROVE  Owned' /\ Idle'
  BY <1>0, <1>1 DEF CanIssue, InProgram, Become
<1>2. ASSUME NEW o \in Ops, NEW s \in Sockets, NEW g \in {"READ", "WRITE"},
             Defer(t, o, s, g) \/ Attempt(t, o, s, g)
      PROVE  Owned' /\ Idle'
  <2>1. CASE Defer(t, o, s, g)
    BY <1>1, <2>1 DEF Defer
  <2>2. CASE Attempt(t, o, s, g)
    BY <1>1, <2>2, AttemptCases
  <2> QED BY <1>2, <2>1, <2>2
<1>3. ASSUME NEW o \in Ops, NEW s \in Sockets, ConnectSocket(t, o, s) PROVE Owned' /\ Idle'
  BY <1>1, <1>3 DEF ConnectSocket
<1>4. ASSUME NEW o \in Ops, AfterFailure(t, o) PROVE Owned' /\ Idle'
  BY <1>0, <1>4 DEF AfterFailure, Become
<1>5. ASSUME NEW o \in Ops, ConnectCheck(t, o) PROVE Owned' /\ Idle'
  BY <1>0, <1>5 DEF ConnectCheck
<1>6. ASSUME NEW o \in Ops, ConnectRegister(t, o) PROVE Owned' /\ Idle'
  BY <1>0, <1>6 DEF ConnectRegister
<1>7. ASSUME NEW o \in Ops, StartInline(t, o) PROVE Owned' /\ Idle'
  BY <1>0, <1>7 DEF StartInline, Complete
<1>8. ASSUME NEW o \in Ops, StartCheck(t, o) PROVE Owned' /\ Idle'
  BY <1>0, <1>8 DEF StartCheck
<1>9. ASSUME NEW o \in Ops, StartEnqueue(t, o) PROVE Owned' /\ Idle'
  BY <1>0, <1>9 DEF StartEnqueue
<1>10. ASSUME NEW s \in Sockets, DispatchOn(t, s) PROVE Owned' /\ Idle'
  BY <1>0, <1>10, MovedPhases DEF DispatchOn
<1>11. ASSUME DispatchThrow(t) PROVE Owned' /\ Idle'
  BY <1>0, <1>11, MovedPhases DEF DispatchThrow
<1>12. ASSUME RunTask(t) PROVE Owned' /\ Idle'
  <2>1. Head(ready[t]) \in Ops /\ phase[Head(ready[t])] = "ready"
    BY <1>12, MovedPhases DEF RunTask
  <2> QED BY <1>0, <1>12, <2>1 DEF RunTask, Complete
<1>13. ASSUME Passive(t) PROVE Owned' /\ Idle'
  <2>1. UNCHANGED <<phase, owner, demux>>
    BY <1>13, PassiveFrame
  <2>2. ASSUME NEW ivl \in Intervals, WaitCopy(t, ivl) PROVE Idle'
    BY <1>0, <2>1, <2>2 DEF WaitCopy, Busy, Ours
  <2>3. CASE wpc'[t] \in Polling => wpc[t] \in Polling
    BY <2>1, <2>3
  <2> QED BY <1>0, <1>13, <2>1, <2>2, <2>3
         DEF Passive, StartNull, WaitPoll, PollThrow, WaitLock, DispatchFault, DispatchEnd,
             WaitReturn, Environment, Raise, Release, vars
<1> QED BY <1>2, <1>3, <1>4, <1>5, <1>6, <1>7, <1>8, <1>9, <1>10, <1>11, <1>12, <1>13, LoopCases

\* A registered operation keeps its event in the list until a dispatch moves it, unless
\* getsockopt throws after the list was cleared.
LEMMA RegisteredStep ==
  ASSUME NEW t, Threads = {t}, "getsockopt" \notin Throws, AsyncInv, Owned, Idle, Registered,
         [AsyncNext]_asyncVars
  PROVE  Registered'
<1>0. TypeOK /\ OpShape
  BY DEF AsyncInv, AsyncTypeOK
<1> USE DEF Registered, Owned, TypeOK, muxVars, opVars, waitVars
<1>1. ASSUME NEW o \in Ops, NEW s \in Sockets, NEW g, NEW f, NEW place \in {"sender", "attempted"},
             phase[o] \in {"new", "attempted"}, Become(o, t, s, g, f, place), UNCHANGED <<demux, list>>
      PROVE  Registered'
  BY <1>0, <1>1 DEF Become
<1>2. ASSUME NEW o \in Ops, NEW s \in Sockets, NEW g \in {"READ", "WRITE"},
             Defer(t, o, s, g) \/ Attempt(t, o, s, g)
      PROVE  Registered'
  <2>1. CASE Defer(t, o, s, g)
    BY <1>1, <2>1 DEF Defer, CanIssue
  <2>2. CASE Attempt(t, o, s, g)
    BY <1>1, <2>2, AttemptCases DEF CanIssue
  <2> QED BY <1>2, <2>1, <2>2
<1>3. ASSUME NEW o \in Ops, NEW s \in Sockets, ConnectSocket(t, o, s) PROVE Registered'
  <2>1. /\ phase[o] = "new" /\ Become(o, t, s, "WRITE", "value", "sender")
        /\ UNCHANGED <<demux, list>>
    BY <1>3 DEF ConnectSocket, CanIssue
  <2> QED BY <1>1, <2>1
<1>4. ASSUME NEW o \in Ops, AfterFailure(t, o) PROVE Registered'
  <2>1. phase[o] = "attempted" /\ sock[o] \in Sockets /\ UNCHANGED <<demux, list>>
    BY <1>0, <1>4 DEF AfterFailure, OpShape
  <2>2. \/ Become(o, t, sock[o], "EAGER", "empty", "sender")
        \/ Become(o, t, sock[o], trig[o], "io", "sender")
    BY <1>4 DEF AfterFailure
  <2> QED BY <1>1, <2>1, <2>2
<1>5. ASSUME NEW o \in Ops, ConnectCheck(t, o) PROVE Registered'
  BY <1>0, <1>5 DEF ConnectCheck
<1>6. ASSUME NEW o \in Ops, ConnectRegister(t, o) PROVE Registered'
  BY <1>0, <1>6 DEF ConnectRegister, UpdateOrInsert, OpShape
<1>7. ASSUME NEW o \in Ops, StartInline(t, o) PROVE Registered'
  BY <1>0, <1>7 DEF StartInline, Complete
<1>8. ASSUME NEW o \in Ops, StartCheck(t, o) PROVE Registered'
  BY <1>0, <1>8 DEF StartCheck
<1>9. ASSUME NEW o \in Ops, StartEnqueue(t, o) PROVE Registered'
  BY <1>0, <1>9 DEF StartEnqueue
<1>10. ASSUME NEW s \in Sockets, DispatchOn(t, s) PROVE Registered'
  <2> DEFINE rev == snap[t][s]
  <2>1. /\ list' = [list EXCEPT ![s] = ClearEvent(@, rev)]
        /\ phase' = [o \in Ops |-> IF o \in ToSet(AllMoved(s, rev)) THEN "ready" ELSE phase[o]]
        /\ wpc[t] = "dispatch" /\ UNCHANGED <<demux, sock, trig>>
    BY <1>10 DEF DispatchOn
  <2>2. \A o \in Ops : phase[o] \notin Unstarted
    BY <2>1 DEF Idle, Polling
  <2>3. ASSUME NEW o \in Ops, phase[o] = "queued", o \notin ToSet(AllMoved(s, rev))
        PROVE  Interest(trig[o]) \subseteq list'[sock[o]]
    <3>1. Interest(trig[o]) \subseteq list[sock[o]] /\ sock[o] \in Sockets
      BY <2>3 DEF AsyncInv, OpShape
    <3>2. CASE sock[o] # s
      BY <1>0, <2>1, <3>1, <3>2
    <3>3. CASE sock[o] = s
      <4>1. trig[o] \in {"READ", "WRITE"}
        BY <2>3 DEF AsyncInv, OpShape, Triggers
      <4>2. rev \cap Wakes(trig[o]) = {}
        BY <1>0, <2>3, <3>3, <4>1, MovedOnce DEF AsyncInv
      <4>3. rev \cap Faulty = {} /\ rev \cap Interest(trig[o]) = {}
        BY <4>1, <4>2 DEF Wakes, Interest
      <4>4. list'[s] = list[s] \ rev
        BY <1>0, <2>1, <4>3 DEF ClearEvent
      <4> QED BY <3>1, <3>3, <4>3, <4>4
    <3> QED BY <3>2, <3>3
  <2> HIDE DEF rev
  <2> QED BY <1>0, <2>1, <2>2, <2>3, MovedPhases DEF Unstarted, rev
<1>11. ASSUME DispatchThrow(t) PROVE Registered'
  BY <1>11 DEF DispatchThrow
<1>12. ASSUME RunTask(t) PROVE Registered'
  <2>1. Head(ready[t]) \in Ops /\ phase[Head(ready[t])] = "ready"
    BY <1>12, MovedPhases DEF RunTask
  <2> QED BY <1>0, <1>12, <2>1 DEF RunTask, Complete
<1>13. ASSUME Passive(t) PROVE Registered'
  BY <1>13, PassiveFrame
<1> HIDE DEF Registered, Owned, TypeOK, muxVars, opVars, waitVars
<1> QED BY <1>2, <1>3, <1>4, <1>5, <1>6, <1>7, <1>8, <1>9, <1>10, <1>11, <1>12, <1>13, LoopCases

\* A program that starts each sender before it makes the next has started all of them
\* when it issues an operation.
LEMMA SequentialIdle ==
  ASSUME NEW t, Threads = {t}, Sequential, Owned, NEW o \in Ops, NEW s, CanIssue(t, o, s)
  PROVE  \A p \in Ops : phase[p] \notin Unstarted
BY DEF CanIssue, Owned, Busy, Ours, Unstarted

\* No step changes the error on a handle between the connect and the start of an
\* operation, so both take the same branch.
LEMMA FirmStep ==
  ASSUME NEW t, Threads = {t}, Sequential, AsyncInv, Owned, Idle, Firm,
         [AsyncNext]_asyncVars
  PROVE  Firm'
<1>0. TypeOK /\ OpShape
  BY DEF AsyncInv, AsyncTypeOK
<1> USE DEF Firm, Owned, Registers, TypeOK, muxVars, opVars, waitVars
<1>1. ASSUME NEW o \in Ops, NEW s \in Sockets, NEW g, NEW f, NEW place \in {"sender", "attempted"},
             CanIssue(t, o, s), Become(o, t, s, g, f, place), UNCHANGED demux
      PROVE  Firm'
  <2>1. \A p \in Ops : phase[p] \notin Unstarted
    BY <1>1, SequentialIdle
  <2> QED BY <1>0, <1>1, <2>1 DEF Become, Unstarted
<1>2. ASSUME NEW o \in Ops, NEW s \in Sockets, NEW g \in {"READ", "WRITE"},
             Defer(t, o, s, g) \/ Attempt(t, o, s, g)
      PROVE  Firm'
  <2>1. CASE Defer(t, o, s, g)
    BY <1>1, <2>1 DEF Defer
  <2>2. CASE Attempt(t, o, s, g)
    BY <1>1, <2>2, AttemptCases
  <2> QED BY <1>2, <2>1, <2>2
<1>3. ASSUME NEW o \in Ops, NEW s \in Sockets, ConnectSocket(t, o, s) PROVE Firm'
  BY <1>1, <1>3 DEF ConnectSocket
<1>4. ASSUME NEW o \in Ops, AfterFailure(t, o) PROVE Firm'
  BY <1>0, <1>4 DEF AfterFailure, Become
<1>5. ASSUME NEW o \in Ops, ConnectCheck(t, o) PROVE Firm'
  BY <1>0, <1>5 DEF ConnectCheck
<1>6. ASSUME NEW o \in Ops, ConnectRegister(t, o) PROVE Firm'
  BY <1>0, <1>6 DEF ConnectRegister
<1>7. ASSUME NEW o \in Ops, StartInline(t, o) PROVE Firm'
  BY <1>0, <1>7 DEF StartInline, Complete
<1>8. ASSUME NEW o \in Ops, StartCheck(t, o) PROVE Firm'
  BY <1>0, <1>8 DEF StartCheck
<1>9. ASSUME NEW o \in Ops, StartEnqueue(t, o) PROVE Firm'
  BY <1>0, <1>9 DEF StartEnqueue
<1>10. ASSUME NEW s \in Sockets, DispatchOn(t, s) PROVE Firm'
  <2>1. \A o \in Ops : phase[o] \notin Unstarted
    BY <1>10 DEF DispatchOn, Idle, Polling
  <2>2. \A o \in Ops : phase'[o] \in {phase[o], "ready"}
    BY <1>10 DEF DispatchOn
  <2> QED BY <2>1, <2>2 DEF Unstarted
<1>11. ASSUME DispatchThrow(t) PROVE Firm'
  BY <1>0, <1>11 DEF DispatchThrow
<1>12. ASSUME RunTask(t) PROVE Firm'
  <2>1. Head(ready[t]) \in Ops /\ phase[Head(ready[t])] = "ready"
    BY <1>12, MovedPhases DEF RunTask
  <2> QED BY <1>0, <1>12, <2>1 DEF RunTask, Complete
<1>13. ASSUME Passive(t) PROVE Firm'
  BY <1>13, PassiveFrame
<1> QED BY <1>2, <1>3, <1>4, <1>5, <1>6, <1>7, <1>8, <1>9, <1>10, <1>11, <1>12, <1>13, LoopCases

\* An empty functor is never called while the error it stands for is on the handle.
LEMMA NoEmptyCall ==
  ASSUME TypeOK, NEW o \in Ops, func[o] # "empty" \/ error[sock[o]] = "EFAIL",
         NEW out \in Outcomes(o)
  PROVE  /\ out.result # "empty_call"
         /\ error[sock[o]] = "EFAIL" => out.result = "error" /\ out.used = {}
         /\ func[o] # "io" => out.used = {}
         /\ out.result = "would_block" =>
              /\ func[o] = "io" /\ error[sock[o]] # "EFAIL"
              /\ rdy[sock[o]] \cap (Serves(trig[o]) \cup Fails(trig[o])) = {}
<1>1. CASE error[sock[o]] = "EFAIL"
  BY <1>1 DEF Outcomes
<1>2. CASE error[sock[o]] # "EFAIL" /\ func[o] = "io"
  <2> DEFINE k == rdy[sock[o]]
             g == trig[o]
  <2>1. out \in IoOutcomes(g, k)
    BY <1>2 DEF Outcomes, FuncOutcomes
  <2>2. out.result \in {"value", "error", "would_block"}
    BY <2>1, IoOutcomesType
  <2>3. CASE k \cap (Serves(g) \cup Fails(g)) = {}
    BY <1>2, <2>2, <2>3
  <2>4. CASE k \cap (Serves(g) \cup Fails(g)) # {}
    <3>1. \/ \E u \in SUBSET (k \cap Interest(g)) : out = [result |-> "value", used |-> u]
          \/ out = [result |-> "error", used |-> k \cap {"POLLERR"}]
      BY <2>1, <2>4 DEF IoOutcomes
    <3>2. out.result # "would_block"
      BY <3>1
    <3> QED BY <1>2, <2>2, <3>2
  <2> QED BY <2>3, <2>4
<1>3. CASE error[sock[o]] # "EFAIL" /\ func[o] # "io"
  <2>1. func[o] = "value"
    BY <1>3 DEF TypeOK
  <2>2. out = [result |-> "value", used |-> {}]
    BY <1>3, <2>1 DEF Outcomes, FuncOutcomes
  <2> QED BY <1>3, <2>2
<1> QED BY <1>1, <1>2, <1>3

\* The error of a failed attempt stays on the handle until it is delivered.
LEMMA ExcusedStep ==
  ASSUME NEW t, Threads = {t}, Sequential, AsyncInv, Owned, Idle, Excused, [AsyncNext]_asyncVars
  PROVE  Excused'
<1>0. TypeOK
  BY DEF AsyncInv, AsyncTypeOK
<1> USE DEF Excused, TypeOK, muxVars, opVars, waitVars
<1>1. ASSUME NEW o \in Ops, NEW s \in Sockets, NEW g, NEW f \in {"io", "value"},
             NEW place \in {"sender", "attempted"}, CanIssue(t, o, s),
             Become(o, t, s, g, f, place), UNCHANGED delivered
      PROVE  Excused'
  <2>1. \A p \in Ops : phase[p] \notin Unstarted
    BY <1>1, SequentialIdle
  <2>2. \A p \in Ops : func[p] = "empty" => phase[p] = "done"
    BY <2>1 DEF Unstarted
  <2>3. phase[o] = "new"
    BY <1>1 DEF CanIssue
  <2> QED BY <1>0, <1>1, <2>2, <2>3 DEF Become
<1>2. ASSUME NEW o \in Ops, NEW s \in Sockets, NEW g \in {"READ", "WRITE"},
             Defer(t, o, s, g) \/ Attempt(t, o, s, g)
      PROVE  Excused'
  <2>1. CASE Defer(t, o, s, g)
    BY <1>1, <2>1 DEF Defer
  <2>2. CASE Attempt(t, o, s, g)
    BY <1>1, <2>2, AttemptCases
  <2> QED BY <1>2, <2>1, <2>2
<1>3. ASSUME NEW o \in Ops, NEW s \in Sockets, ConnectSocket(t, o, s) PROVE Excused'
  BY <1>1, <1>3 DEF ConnectSocket
<1>4. ASSUME NEW o \in Ops, AfterFailure(t, o) PROVE Excused'
  <2>1. phase[o] = "attempted" /\ UNCHANGED <<error, delivered>>
    BY <1>4 DEF AfterFailure
  <2>2. CASE error[sock[o]] = "EFAIL"
    <3>1. Become(o, t, sock[o], "EAGER", "empty", "sender")
      BY <1>4, <2>2 DEF AfterFailure
    <3> QED BY <1>0, <2>1, <2>2, <3>1 DEF Become
  <2>3. CASE error[sock[o]] # "EFAIL"
    <3>1. Become(o, t, sock[o], trig[o], "io", "sender")
      BY <1>4, <2>3 DEF AfterFailure
    <3> QED BY <1>0, <2>1, <3>1 DEF Become
  <2> QED BY <2>2, <2>3
<1>5. ASSUME NEW o \in Ops, ConnectCheck(t, o) PROVE Excused'
  BY <1>0, <1>5 DEF ConnectCheck, Registers
<1>6. ASSUME NEW o \in Ops, ConnectRegister(t, o) PROVE Excused'
  BY <1>0, <1>6 DEF ConnectRegister
<1>7. ASSUME NEW o \in Ops, StartInline(t, o) PROVE Excused'
  <2>1. /\ phase[o] = "connected" /\ phase' = [phase EXCEPT ![o] = "done"]
        /\ UNCHANGED <<error, sock, trig, func>>
    BY <1>7 DEF StartInline, Complete
  <2>2. PICK out \in Outcomes(o) : delivered' = [delivered EXCEPT ![o] = Append(@, out.result)]
    BY <1>7 DEF StartInline, Complete
  <2>3. CASE func[o] = "empty"
    <3>1. out.result = "error"
      BY <1>0, <2>1, <2>3, NoEmptyCall
    <3>2. delivered[o] = <<>>
      BY <1>0, <2>1 DEF AsyncInv, PlacedOnce, DeliveredOnce
    <3>3. delivered'[o] = <<"error">>
      BY <1>0, <2>2, <3>1, <3>2
    <3> QED BY <1>0, <2>1, <2>2, <2>3, <3>3
  <2>4. CASE func[o] # "empty"
    BY <1>0, <2>1, <2>2, <2>4
  <2> QED BY <2>3, <2>4
<1>8. ASSUME NEW o \in Ops, StartCheck(t, o) PROVE Excused'
  BY <1>0, <1>8 DEF StartCheck, Registers
<1>9. ASSUME NEW o \in Ops, StartEnqueue(t, o) PROVE Excused'
  BY <1>0, <1>9 DEF StartEnqueue
<1>10. ASSUME NEW s \in Sockets, DispatchOn(t, s) PROVE Excused'
  <2>1. \A o \in Ops : phase[o] \notin Unstarted
    BY <1>10 DEF DispatchOn, Idle, Polling
  <2>2. \A o \in Ops : phase'[o] = phase[o] \/ phase[o] = "queued"
    BY <1>10, MovedPhases DEF DispatchOn
  <2> QED BY <1>10, <2>1, <2>2 DEF DispatchOn, Unstarted
<1>11. ASSUME DispatchThrow(t) PROVE Excused'
  <2>1. \A o \in Ops : phase'[o] = phase[o] \/ phase[o] = "ready"
    BY <1>11, MovedPhases DEF DispatchThrow
  <2> QED BY <1>11, <2>1 DEF DispatchThrow
<1>12. ASSUME RunTask(t) PROVE Excused'
  <2>1. Head(ready[t]) \in Ops /\ phase[Head(ready[t])] = "ready"
    BY <1>12, MovedPhases DEF RunTask
  <2> QED BY <1>0, <1>12, <2>1 DEF RunTask, Complete
<1>13. ASSUME Passive(t) PROVE Excused'
  BY <1>13, PassiveFrame
<1> HIDE DEF Excused, TypeOK, muxVars, opVars, waitVars
<1> QED BY <1>2, <1>3, <1>4, <1>5, <1>6, <1>7, <1>8, <1>9, <1>10, <1>11, <1>12, <1>13, LoopCases

\* Without POLLHUP from the kernel, no step puts it into what poll() reports.
LEMMA NoHangUpStep ==
  ASSUME NEW t, Threads = {t}, "POLLHUP" \notin KernelEvents, AsyncInv, NoHangUp,
         [AsyncNext]_asyncVars
  PROVE  NoHangUp'
<1>0. TypeOK
  BY DEF AsyncInv, AsyncTypeOK
<1> USE DEF NoHangUp, TypeOK, waitVars, envVars
<1>1. CASE UNCHANGED <<rdy, snap>>
  BY <1>1
<1>2. ASSUME NEW o, NEW out, rdy' = [rdy EXCEPT ![o] = @ \ out], UNCHANGED snap PROVE NoHangUp'
  BY <1>0, <1>2
<1>3. ASSUME NEW o \in Ops, NEW s \in Sockets, NEW g \in {"READ", "WRITE"}, Attempt(t, o, s, g)
      PROVE  NoHangUp'
  BY <1>2, <1>3, AttemptCases
<1>4. ASSUME NEW o \in Ops, StartInline(t, o) PROVE NoHangUp'
  BY <1>2, <1>4 DEF StartInline, Complete
<1>5. ASSUME RunTask(t) PROVE NoHangUp'
  BY <1>2, <1>5 DEF RunTask, Complete
<1>6. ASSUME NEW s \in Sockets, DispatchOn(t, s) PROVE NoHangUp'
  BY <1>0, <1>6 DEF DispatchOn
<1>7. ASSUME DispatchThrow(t) PROVE NoHangUp'
  BY <1>0, <1>7 DEF DispatchThrow, NoEvents
<1>8. ASSUME NEW ivl \in Intervals, WaitCopy(t, ivl) PROVE NoHangUp'
  <2>1. snap' = [snap EXCEPT ![t] = list] /\ UNCHANGED rdy
    BY <1>8 DEF WaitCopy
  <2>2. list \in [Sockets -> SUBSET {"POLLIN", "POLLOUT"}]
    BY <1>0
  <2>3. \A s \in Sockets : "POLLHUP" \notin list[s]
    BY <2>2
  <2> QED BY <1>0, <2>1, <2>3
<1>9. ASSUME WaitPoll(t) PROVE NoHangUp'
  BY <1>0, <1>9 DEF WaitPoll, Polled, Revents
<1>10. ASSUME PollThrow(t) PROVE NoHangUp'
  BY <1>0, <1>10 DEF PollThrow, NoEvents
<1>11. ASSUME NEW s \in Sockets, NEW e \in KernelEvents, Raise(s, e) PROVE NoHangUp'
  BY <1>0, <1>11 DEF Raise
<1> HIDE DEF NoHangUp, TypeOK
<1> QED
  BY <1>1, <1>3, <1>4, <1>5, <1>6, <1>7, <1>8, <1>9, <1>10, <1>11, LoopCases
     DEF Defer, ConnectSocket, AfterFailure, ConnectCheck, ConnectRegister, StartCheck, StartEnqueue,
         Passive, StartNull, WaitLock, DispatchFault, DispatchEnd, WaitReturn, Environment, Release,
         vars

\* Every entry of the interest list has an operation that waits for it: a dispatch
\* clears what it moves, and an operation that registered does not complete inline.
LEMMA WantedStep ==
  ASSUME NEW t, Threads = {t}, AsyncInv, Owned, Idle, Firm, Wanted, NoHangUp, [AsyncNext]_asyncVars
  PROVE  Wanted'
<1>0. TypeOK
  BY DEF AsyncInv, AsyncTypeOK
<1> USE DEF TypeOK, muxVars, opVars, waitVars
<1> DEFINE Waits(o) == demux[o] /\ phase[o] \in {"connected", "starting", "queued"}
<1>1. ASSUME UNCHANGED list,
             \A o \in Ops : Waits(o) => Waits(o)' /\ sock'[o] = sock[o] /\ trig'[o] = trig[o]
      PROVE  Wanted'
  BY <1>1 DEF Wanted
<1>2. ASSUME NEW o \in Ops, NEW s \in Sockets, NEW g, NEW f, NEW place, CanIssue(t, o, s),
             Become(o, t, s, g, f, place), UNCHANGED <<demux, list>>
      PROVE  Wanted'
  <2>1. ~Waits(o)
    BY <1>2 DEF CanIssue
  <2> QED BY <1>0, <1>1, <1>2, <2>1 DEF Become
<1>3. ASSUME NEW o \in Ops, NEW s \in Sockets, NEW g \in {"READ", "WRITE"},
             Defer(t, o, s, g) \/ Attempt(t, o, s, g)
      PROVE  Wanted'
  <2>1. CASE Defer(t, o, s, g)
    BY <1>2, <2>1 DEF Defer
  <2>2. CASE Attempt(t, o, s, g)
    BY <1>2, <2>2, AttemptCases
  <2> QED BY <1>3, <2>1, <2>2
<1>4. ASSUME NEW o \in Ops, NEW s \in Sockets, ConnectSocket(t, o, s) PROVE Wanted'
  BY <1>2, <1>4 DEF ConnectSocket
<1>5. ASSUME NEW o \in Ops, AfterFailure(t, o) PROVE Wanted'
  <2>1. phase[o] = "attempted" /\ UNCHANGED <<demux, list>>
    BY <1>5 DEF AfterFailure
  <2>2. \A p \in Ops : p # o => phase'[p] = phase[p] /\ sock'[p] = sock[p] /\ trig'[p] = trig[p]
    BY <1>0, <1>5 DEF AfterFailure, Become
  <2> QED BY <1>1, <2>1, <2>2
<1>6. ASSUME NEW o \in Ops, ConnectCheck(t, o) PROVE Wanted'
  BY <1>0, <1>1, <1>6 DEF ConnectCheck
<1>7. ASSUME NEW o \in Ops, ConnectRegister(t, o) PROVE Wanted'
  <2>1. /\ phase[o] = "connecting" /\ demux' = [demux EXCEPT ![o] = TRUE]
        /\ list' = UpdateOrInsert(list, sock[o], trig[o])
        /\ phase' = [phase EXCEPT ![o] = "connected"] /\ UNCHANGED <<sock, trig>>
    BY <1>7 DEF ConnectRegister
  <2>2. \A p \in Ops : Waits(p) => Waits(p)'
    BY <1>0, <2>1
  <2>3. Waits(o)'
    BY <1>0, <2>1
  <2>4. sock[o] \in Sockets
    BY <2>1 DEF AsyncInv, OpShape
  <2>5. ASSUME NEW s \in Sockets, NEW g \in {"READ", "WRITE"}, Interest(g) \subseteq list'[s],
               ~(Interest(g) \subseteq list[s])
        PROVE  s = sock[o] /\ g = trig[o]
    BY <1>0, <2>1, <2>4, <2>5 DEF UpdateOrInsert, Interest
  <2> QED BY <2>1, <2>2, <2>3, <2>5 DEF Wanted
<1>8. ASSUME NEW o \in Ops, StartInline(t, o) PROVE Wanted'
  <2>1. ~Waits(o)
    BY <1>8 DEF StartInline, Firm, Registers
  <2> QED BY <1>0, <1>1, <1>8, <2>1 DEF StartInline, Complete
<1>9. ASSUME NEW o \in Ops, StartCheck(t, o) PROVE Wanted'
  BY <1>0, <1>1, <1>9 DEF StartCheck
<1>10. ASSUME NEW o \in Ops, StartEnqueue(t, o) PROVE Wanted'
  BY <1>0, <1>1, <1>10 DEF StartEnqueue
<1>11. ASSUME NEW s \in Sockets, DispatchOn(t, s) PROVE Wanted'
  <2> DEFINE rev == snap[t][s]
  <2>1. /\ list' = [list EXCEPT ![s] = ClearEvent(@, rev)]
        /\ phase' = [o \in Ops |-> IF o \in ToSet(AllMoved(s, rev)) THEN "ready" ELSE phase[o]]
        /\ UNCHANGED <<demux, sock, trig>>
    BY <1>11 DEF DispatchOn
  <2>2. "POLLHUP" \notin rev
    BY DEF NoHangUp
  <2> SUFFICES ASSUME NEW u \in Sockets, NEW g \in {"READ", "WRITE"}, Interest(g) \subseteq list'[u]
               PROVE  \E o \in Ops : sock'[o] = u /\ trig'[o] = g /\ Waits(o)'
    BY DEF Wanted
  <2>3. Interest(g) \subseteq list[u] /\ (u = s => rev \cap Wakes(g) = {})
    <3>1. CASE u # s
      BY <1>0, <2>1, <3>1
    <3>2. CASE u = s
      <4>1. list'[s] = ClearEvent(list[s], rev)
        BY <1>0, <2>1
      <4>2. Interest(g) # {}
        BY DEF Interest
      <4>3. rev \cap Faulty = {} /\ list'[s] = list[s] \ rev
        BY <3>2, <4>1, <4>2 DEF ClearEvent
      <4>4. rev \cap Interest(g) = {} /\ Interest(g) \subseteq list[s]
        BY <3>2, <4>3
      <4>5. rev \cap Wakes(g) = {}
        BY <2>2, <4>3, <4>4 DEF Interest, Wakes
      <4> QED BY <3>2, <4>4, <4>5
    <3> QED BY <3>1, <3>2
  <2>4. PICK o \in Ops : sock[o] = u /\ trig[o] = g /\ Waits(o)
    BY <2>3 DEF Wanted
  <2>5. o \notin ToSet(AllMoved(s, rev))
    BY <2>3, <2>4, MovedPhases
  <2> QED BY <2>1, <2>4, <2>5
<1>12. ASSUME DispatchThrow(t) PROVE Wanted'
  <2>1. PICK s \in Sockets : /\ snap[t][s] \cap Faulty # {}
                             /\ list' = [list EXCEPT ![s] = ClearEvent(@, snap[t][s])]
    BY <1>12 DEF DispatchThrow
  <2>2. \A u \in Sockets : list'[u] \subseteq list[u]
    BY <1>0, <2>1 DEF ClearEvent
  <2>3. \A o \in Ops : Waits(o) => Waits(o)' /\ sock'[o] = sock[o] /\ trig'[o] = trig[o]
    <3>1. \A o \in ToSet(ready[t]) : phase[o] = "ready"
      BY MovedPhases
    <3> QED BY <1>12, <3>1 DEF DispatchThrow
  <2> QED BY <2>2, <2>3 DEF Wanted
<1>13. ASSUME RunTask(t) PROVE Wanted'
  <2>1. Head(ready[t]) \in Ops /\ phase[Head(ready[t])] = "ready"
    BY <1>13, MovedPhases DEF RunTask
  <2> QED BY <1>0, <1>1, <1>13, <2>1 DEF RunTask, Complete
<1>14. ASSUME Passive(t) PROVE Wanted'
  BY <1>1, <1>14, PassiveFrame
<1> HIDE DEF TypeOK, muxVars, opVars, waitVars
<1> QED BY <1>3, <1>4, <1>5, <1>6, <1>7, <1>8, <1>9, <1>10, <1>11, <1>12, <1>13, <1>14, LoopCases

\* Between the copy of the list and its dispatch, every socket polled keeps a queued
\* operation, hence an open descriptor and a valid pointer to its handle.
LEMMA ReportedStep ==
  ASSUME NEW t, Threads = {t}, AsyncInv, Owned, Idle, Wanted, Reported, [AsyncNext]_asyncVars
  PROVE  Reported'
<1>0. TypeOK /\ OpShape
  BY DEF AsyncInv, AsyncTypeOK
<1> USE DEF TypeOK, muxVars, opVars, waitVars, envVars
<1>1. ASSUME UNCHANGED <<snap, demux_socket>>,
             wpc'[t] \in Polling => wpc[t] \in Polling,
             \A o \in Ops : phase[o] = "queued" <=> phase'[o] = "queued",
             \A o \in Ops : phase[o] = "queued" => sock'[o] = sock[o]
      PROVE  Reported'
  BY <1>1 DEF Reported
<1>2. ASSUME NEW o \in Ops, NEW s \in Sockets, NEW g, NEW f, NEW place \in {"sender", "attempted"},
             CanIssue(t, o, s), Become(o, t, s, g, f, place), UNCHANGED <<snap, wpc, demux_socket>>
      PROVE  Reported'
  <2>1. phase[o] = "new"
    BY <1>2 DEF CanIssue
  <2> QED BY <1>0, <1>1, <1>2, <2>1 DEF Become
<1>3. ASSUME NEW o \in Ops, NEW s \in Sockets, NEW g \in {"READ", "WRITE"},
             Defer(t, o, s, g) \/ Attempt(t, o, s, g)
      PROVE  Reported'
  <2>1. CASE Defer(t, o, s, g)
    BY <1>2, <2>1 DEF Defer
  <2>2. CASE Attempt(t, o, s, g)
    BY <1>2, <2>2, AttemptCases
  <2> QED BY <1>3, <2>1, <2>2
<1>4. ASSUME NEW o \in Ops, NEW s \in Sockets, ConnectSocket(t, o, s) PROVE Reported'
  BY <1>2, <1>4 DEF ConnectSocket
<1>5. ASSUME NEW o \in Ops, AfterFailure(t, o) PROVE Reported'
  <2>1. phase[o] = "attempted" /\ UNCHANGED <<snap, wpc, demux_socket>> /\ phase'[o] = "sender"
    BY <1>0, <1>5 DEF AfterFailure, Become
  <2>2. \A p \in Ops : p # o => phase'[p] = phase[p] /\ sock'[p] = sock[p]
    BY <1>0, <1>5 DEF AfterFailure, Become
  <2> QED BY <1>1, <2>1, <2>2
<1>6. ASSUME NEW o \in Ops, ConnectCheck(t, o) PROVE Reported'
  BY <1>0, <1>1, <1>6 DEF ConnectCheck
<1>7. ASSUME NEW o \in Ops, ConnectRegister(t, o) PROVE Reported'
  BY <1>0, <1>1, <1>7 DEF ConnectRegister
<1>8. ASSUME NEW o \in Ops, StartInline(t, o) PROVE Reported'
  BY <1>0, <1>1, <1>8 DEF StartInline, Complete
<1>9. ASSUME NEW o \in Ops, StartCheck(t, o) PROVE Reported'
  BY <1>0, <1>1, <1>9 DEF StartCheck
<1>10. ASSUME NEW o \in Ops, StartEnqueue(t, o) PROVE Reported'
  <2>1. /\ phase[o] = "starting" /\ phase' = [phase EXCEPT ![o] = "queued"]
        /\ demux_socket' = [demux_socket EXCEPT ![sock[o]] = sock[o]]
        /\ UNCHANGED <<sock, wpc, snap>>
    BY <1>10 DEF StartEnqueue
  <2>2. wpc[t] \notin Polling
    BY <2>1 DEF Idle, Unstarted
  <2>3. sock[o] \in Sockets /\ sock[o] # Nil
    BY <1>0, <2>1, NilAssumption DEF OpShape
  <2> QED BY <1>0, <2>1, <2>2, <2>3 DEF Reported, OpShape
<1>11. ASSUME NEW s \in Sockets, DispatchOn(t, s) PROVE Reported'
  <2>1. /\ wpc[t] = "dispatch" /\ snap' = [snap EXCEPT ![t][s] = {}]
        /\ phase' = [o \in Ops |-> IF o \in ToSet(AllMoved(s, snap[t][s])) THEN "ready" ELSE phase[o]]
        /\ UNCHANGED <<demux_socket, sock, wpc>>
    BY <1>11 DEF DispatchOn
  <2>2. \A o \in ToSet(AllMoved(s, snap[t][s])) : sock[o] = s
    BY MovedPhases
  <2>3. \A u \in Sockets : snap'[t][u] = IF u = s THEN {} ELSE snap[t][u]
    BY <1>0, <2>1
  <2>4. \A o \in Ops : phase[o] = "queued" /\ sock[o] # s => phase'[o] = "queued"
    BY <2>1, <2>2
  <2>5. \A o \in Ops : phase'[o] = "queued" => phase[o] = "queued"
    BY <2>1
  <2> QED BY <2>1, <2>3, <2>4, <2>5 DEF Reported, Polling
<1>12. ASSUME DispatchThrow(t) PROVE Reported'
  <2>1. \A o \in ToSet(ready[t]) : phase[o] = "ready"
    BY MovedPhases
  <2> QED BY <1>0, <1>12, <2>1 DEF DispatchThrow, Reported, Polling
<1>13. ASSUME RunTask(t) PROVE Reported'
  <2>1. Head(ready[t]) \in Ops /\ phase[Head(ready[t])] = "ready"
    BY <1>13, MovedPhases DEF RunTask
  <2> QED BY <1>0, <1>1, <1>13, <2>1 DEF RunTask, Complete, Polling
<1>14. ASSUME Passive(t) PROVE Reported'
  <2>1. UNCHANGED <<phase, sock, owner, demux_socket>>
    BY <1>14, PassiveFrame
  <2>2. ASSUME NEW ivl \in Intervals, WaitCopy(t, ivl) PROVE Reported'
    <3>1. snap' = [snap EXCEPT ![t] = list] /\ ~Busy(t)
      BY <2>2 DEF WaitCopy
    <3>2. ASSUME NEW s \in Sockets, list[s] # {}
          PROVE  \E o \in Ops : phase[o] = "queued" /\ sock[o] = s
      <4>1. PICK g \in {"READ", "WRITE"} : Interest(g) \subseteq list[s]
        <5>1. "POLLIN" \in list[s] \/ "POLLOUT" \in list[s]
          BY <1>0, <3>2
        <5>2. Interest("READ") = {"POLLIN"} /\ Interest("WRITE") = {"POLLOUT"}
          BY DEF Interest
        <5> QED BY <5>1, <5>2
      <4>2. PICK o \in Ops : sock[o] = s /\ phase[o] \in {"connected", "starting", "queued"}
        BY <4>1 DEF Wanted
      <4>3. phase[o] \notin {"connected", "starting"}
        BY <3>1, <4>2 DEF Owned, Busy, Ours
      <4> QED BY <4>2, <4>3
    <3> QED BY <1>0, <2>1, <3>1, <3>2 DEF Reported
  <2>3. ASSUME WaitPoll(t) PROVE Reported'
    <3>1. snap' = [snap EXCEPT ![t] = Polled(t)] /\ wpc[t] \in Polling
      BY <2>3 DEF WaitPoll, Polling
    <3>2. \A s \in Sockets : Polled(t)[s] # {} => snap[t][s] # {}
      BY DEF Polled, Revents
    <3> QED BY <1>0, <2>1, <3>1, <3>2 DEF Reported
  <2>4. ASSUME PollThrow(t) PROVE Reported'
    BY <1>0, <2>1, <2>4 DEF PollThrow, Reported, Polling
  <2>5. CASE UNCHANGED snap /\ (wpc'[t] \in Polling => wpc[t] \in Polling)
    BY <1>1, <2>1, <2>5
  <2> QED
    BY <1>0, <1>14, <2>2, <2>3, <2>4, <2>5
       DEF Passive, StartNull, WaitLock, DispatchFault, DispatchEnd, WaitReturn, Environment, Raise,
           Release, vars, Polling
<1> HIDE DEF TypeOK, muxVars, opVars, waitVars
<1> QED BY <1>3, <1>4, <1>5, <1>6, <1>7, <1>8, <1>9, <1>10, <1>11, <1>12, <1>13, <1>14, LoopCases

\* No step dereferences a null or dangling pointer or calls an empty functor.
LEMMA FaultStep ==
  ASSUME NEW t, Threads = {t}, AsyncInv, Firm, Excused, Reported, NoFault, [AsyncNext]_asyncVars
  PROVE  NoFault'
<1>0. TypeOK /\ OpShape
  BY DEF AsyncInv, AsyncTypeOK
<1> USE DEF NoFault, envVars
<1>1. CASE UNCHANGED fault
  BY <1>1
<1>2. ASSUME NEW o \in Ops, func[o] # "empty" \/ error[sock[o]] = "EFAIL", Complete(o)
      PROVE  NoFault'
  BY <1>0, <1>2, NoEmptyCall DEF Complete
<1>3. ASSUME NEW o \in Ops, StartInline(t, o) PROVE NoFault'
  <2>1. phase[o] = "connected" /\ Complete(o)
    BY <1>3 DEF StartInline
  <2> QED BY <1>2, <2>1 DEF Excused
<1>4. ASSUME RunTask(t) PROVE NoFault'
  <2>1. Head(ready[t]) \in Ops /\ phase[Head(ready[t])] = "ready" /\ Complete(Head(ready[t]))
    BY <1>4, MovedPhases DEF RunTask
  <2> QED BY <1>2, <2>1 DEF Excused
<1>5. ASSUME NEW o \in Ops, StartNull(t, o) PROVE FALSE
  BY <1>5 DEF StartNull, Firm
<1>6. ASSUME DispatchFault(t) PROVE FALSE
  <2>1. PICK s \in Sockets : wpc[t] = "dispatch" /\ snap[t][s] # {} /\ BadSocket(s) # "none"
    BY <1>6 DEF DispatchFault, IsNext
  <2>2. PICK o \in Ops : phase[o] = "queued" /\ sock[o] = s
    BY <2>1 DEF Reported, Polling
  <2>3. demux_socket[s] # Nil
    BY <2>2 DEF Reported
  <2>4. Alive(s)
    BY <2>2 DEF Alive
  <2> QED BY <2>1, <2>3, <2>4 DEF BadSocket
<1> QED
  BY <1>1, <1>3, <1>4, <1>5, <1>6, LoopCases, AttemptCases
     DEF Defer, ConnectSocket, AfterFailure, ConnectCheck, ConnectRegister, StartCheck, StartEnqueue,
         DispatchOn, DispatchThrow, Passive, WaitCopy, WaitPoll, PollThrow, WaitLock, DispatchEnd,
         WaitReturn, Environment, Raise, Release, vars

\* No step makes an eager operation that is a system call.
LEMMA EagerStep ==
  ASSUME AsyncInv, EagerShape, [AsyncNext]_asyncVars, NEW t, Threads = {t}
  PROVE  EagerShape'
<1>0. TypeOK
  BY DEF AsyncInv, AsyncTypeOK
<1>1. ASSUME UNCHANGED <<trig, func>>, \A o \in Ops : phase'[o] = "attempted" => phase[o] = "attempted"
      PROVE  EagerShape'
  BY <1>1 DEF EagerShape
<1>2. ASSUME NEW o \in Ops, NEW s, NEW g, NEW f, NEW place, Become(o, t, s, g, f, place),
             g = "EAGER" => f # "io", place = "attempted" => f = "io"
      PROVE  EagerShape'
  BY <1>0, <1>2 DEF EagerShape, Become, TypeOK
<1>3. ASSUME NEW o \in Ops, NEW s \in Sockets, NEW g \in {"READ", "WRITE"}, Defer(t, o, s, g)
      PROVE  EagerShape'
  BY <1>2, <1>3 DEF Defer
<1>4. ASSUME NEW o \in Ops, NEW s \in Sockets, NEW g \in {"READ", "WRITE"}, Attempt(t, o, s, g)
      PROVE  EagerShape'
  BY <1>2, <1>4, AttemptCases
<1>5. ASSUME NEW o \in Ops, NEW s \in Sockets, ConnectSocket(t, o, s) PROVE EagerShape'
  BY <1>2, <1>5 DEF ConnectSocket
<1>6. ASSUME NEW o \in Ops, AfterFailure(t, o) PROVE EagerShape'
  <2>1. CASE error[sock[o]] = "EFAIL"
    BY <1>2, <1>6, <2>1 DEF AfterFailure
  <2>2. CASE error[sock[o]] # "EFAIL"
    <3>1. Become(o, t, sock[o], trig[o], "io", "sender") /\ phase[o] = "attempted"
      BY <1>6, <2>2 DEF AfterFailure
    <3>2. CASE trig[o] # "EAGER"
      BY <1>2, <3>1, <3>2
    <3> QED BY <3>1, <3>2 DEF EagerShape
  <2> QED BY <2>1, <2>2
<1>7. ASSUME NEW o \in Ops, \/ ConnectCheck(t, o) \/ ConnectRegister(t, o) \/ StartInline(t, o)
                            \/ StartCheck(t, o) \/ StartEnqueue(t, o)
      PROVE  EagerShape'
  BY <1>0, <1>1, <1>7 DEF ConnectCheck, ConnectRegister, StartInline, Complete, StartCheck,
                          StartEnqueue, TypeOK
<1>8. ASSUME NEW s \in Sockets, DispatchOn(t, s) PROVE EagerShape'
  BY <1>1, <1>8 DEF DispatchOn
<1>9. ASSUME DispatchThrow(t) PROVE EagerShape'
  BY <1>1, <1>9 DEF DispatchThrow
<1>10. ASSUME RunTask(t) PROVE EagerShape'
  BY <1>0, <1>1, <1>10 DEF RunTask, Complete, TypeOK
<1>11. ASSUME Passive(t) PROVE EagerShape'
  BY <1>1, <1>11, PassiveFrame DEF opVars
<1> QED BY <1>3, <1>4, <1>5, <1>6, <1>7, <1>8, <1>9, <1>10, <1>11, LoopCases

\* Operations are ready only from their dispatch until the thread leaves wait_for.
LEMMA ReadyTimeStep ==
  ASSUME NEW t, Threads = {t}, AsyncInv, Idle, ReadyTime, [AsyncNext]_asyncVars
  PROVE  ReadyTime'
<1>0. TypeOK /\ OpShape
  BY DEF AsyncInv, AsyncTypeOK
<1> USE DEF TypeOK, muxVars, opVars, waitVars, envVars
<1>1. ASSUME UNCHANGED <<wpc, snap>>,
             \A o \in Ops : phase'[o] = "ready" => phase[o] = "ready" /\ sock'[o] = sock[o]
      PROVE  ReadyTime'
  BY <1>1 DEF ReadyTime
<1>2. ASSUME NEW o \in Ops, NEW s, NEW g, NEW f, NEW place \in {"sender", "attempted"},
             Become(o, t, s, g, f, place), UNCHANGED <<snap, wpc>>
      PROVE  ReadyTime'
  BY <1>0, <1>1, <1>2 DEF Become
<1>3. ASSUME NEW o \in Ops, NEW s \in Sockets, NEW g \in {"READ", "WRITE"},
             Defer(t, o, s, g) \/ Attempt(t, o, s, g)
      PROVE  ReadyTime'
  <2>1. CASE Defer(t, o, s, g)
    BY <1>2, <2>1 DEF Defer
  <2>2. CASE Attempt(t, o, s, g)
    BY <1>2, <2>2, AttemptCases
  <2> QED BY <1>3, <2>1, <2>2
<1>4. ASSUME NEW o \in Ops, NEW s \in Sockets, ConnectSocket(t, o, s) PROVE ReadyTime'
  BY <1>2, <1>4 DEF ConnectSocket
<1>5. ASSUME NEW o \in Ops, AfterFailure(t, o) PROVE ReadyTime'
  BY <1>2, <1>5 DEF AfterFailure
<1>6. ASSUME NEW o \in Ops, \/ ConnectCheck(t, o) \/ ConnectRegister(t, o) \/ StartInline(t, o)
                            \/ StartCheck(t, o) \/ StartEnqueue(t, o)
      PROVE  ReadyTime'
  BY <1>0, <1>1, <1>6 DEF ConnectCheck, ConnectRegister, StartInline, Complete, StartCheck,
                          StartEnqueue
<1>7. ASSUME NEW s \in Sockets, DispatchOn(t, s) PROVE ReadyTime'
  <2>1. /\ wpc[t] = "dispatch" /\ snap' = [snap EXCEPT ![t][s] = {}]
        /\ phase' = [o \in Ops |-> IF o \in ToSet(AllMoved(s, snap[t][s])) THEN "ready" ELSE phase[o]]
        /\ UNCHANGED <<sock, wpc>>
    BY <1>7 DEF DispatchOn
  <2>2. \A o \in ToSet(AllMoved(s, snap[t][s])) : sock[o] = s
    BY MovedPhases
  <2>3. \A u : u = s \/ snap[t][u] = {} => snap'[t][u] = {}
    BY <1>0, <2>1
  <2> QED BY <2>1, <2>2, <2>3 DEF ReadyTime
<1>8. ASSUME DispatchThrow(t) PROVE ReadyTime'
  <2>1. \A o \in Ops : phase'[o] # "ready"
    BY <1>8, ReadyAlone DEF DispatchThrow
  <2> QED BY <2>1 DEF ReadyTime
<1>9. ASSUME RunTask(t) PROVE ReadyTime'
  BY <1>0, <1>9 DEF RunTask, Complete, ReadyTime
<1>10. ASSUME Passive(t) PROVE ReadyTime'
  <2>1. UNCHANGED <<phase, sock>>
    BY <1>10, PassiveFrame
  <2>2. CASE \A o \in Ops : phase[o] # "ready"
    BY <2>1, <2>2 DEF ReadyTime
  <2>3. CASE \E o \in Ops : phase[o] = "ready"
    <3>1. wpc[t] \in {"dispatch", "run", "cont"} /\ ready[t] # <<>>
      BY <2>3, ReadyAlone DEF ReadyTime
    <3>2. UNCHANGED snap /\ (wpc'[t] = wpc[t] \/ wpc'[t] = "run")
      BY <1>0, <1>10, <3>1
         DEF Passive, StartNull, WaitCopy, WaitPoll, PollThrow, WaitLock, DispatchFault, DispatchEnd,
             WaitReturn, Environment, Raise, Release, vars
    <3> QED BY <2>1, <3>2 DEF ReadyTime
  <2> QED BY <2>2, <2>3
<1> HIDE DEF TypeOK, muxVars, opVars, waitVars
<1> QED BY <1>3, <1>4, <1>5, <1>6, <1>7, <1>8, <1>9, <1>10, LoopCases

\* What was reported of the sockets of queued operations stays true until it is
\* dispatched: nothing takes it meanwhile.
LEMMA StillTrueStep ==
  ASSUME NEW t, Threads = {t}, AsyncInv, Idle, StillTrue, [AsyncNext]_asyncVars
  PROVE  StillTrue'
<1>0. TypeOK /\ OpShape
  BY DEF AsyncInv, AsyncTypeOK
<1> USE DEF TypeOK, muxVars, opVars, waitVars, envVars
<1>1. CASE wpc'[t] \notin {"lock", "dispatch"}
  BY <1>1 DEF StillTrue
<1>2. ASSUME NEW o \in Ops, phase[o] \in Unstarted, UNCHANGED wpc PROVE StillTrue'
  BY <1>1, <1>2 DEF Idle, Polling
<1>3. ASSUME NEW o \in Ops, NEW s \in Sockets, CanIssue(t, o, s), UNCHANGED wpc PROVE StillTrue'
  BY <1>1, <1>3 DEF CanIssue, InProgram
<1>4. ASSUME NEW o \in Ops, NEW s \in Sockets, NEW g \in {"READ", "WRITE"},
             Defer(t, o, s, g) \/ Attempt(t, o, s, g)
      PROVE  StillTrue'
  <2>1. CASE Defer(t, o, s, g)
    BY <1>3, <2>1 DEF Defer
  <2>2. CASE Attempt(t, o, s, g)
    BY <1>3, <2>2, AttemptCases
  <2> QED BY <1>4, <2>1, <2>2
<1>5. ASSUME NEW o \in Ops, NEW s \in Sockets, ConnectSocket(t, o, s) PROVE StillTrue'
  BY <1>3, <1>5 DEF ConnectSocket
<1>6. ASSUME NEW o \in Ops, \/ AfterFailure(t, o) \/ ConnectCheck(t, o) \/ ConnectRegister(t, o)
                            \/ StartInline(t, o) \/ StartCheck(t, o) \/ StartEnqueue(t, o)
      PROVE  StillTrue'
  BY <1>2, <1>6 DEF AfterFailure, ConnectCheck, ConnectRegister, StartInline, StartCheck,
                    StartEnqueue, Unstarted
<1>7. ASSUME NEW s \in Sockets, DispatchOn(t, s) PROVE StillTrue'
  <2>1. /\ wpc[t] = "dispatch" /\ snap' = [snap EXCEPT ![t][s] = {}] /\ UNCHANGED sock
        /\ rdy' = rdy \/ rdy' = [rdy EXCEPT ![s] = @ \ {"POLLERR"}]
    BY <1>7 DEF DispatchOn
  <2>2. \A o \in Ops : phase'[o] = "queued" => phase[o] = "queued"
    BY <1>7 DEF DispatchOn
  <2>3. \A u \in Sockets : IF u = s THEN snap'[t][u] = {}
                           ELSE snap'[t][u] = snap[t][u] /\ rdy'[u] = rdy[u]
    BY <1>0, <2>1
  <2>4. \A o \in Ops : phase[o] = "queued" => sock[o] \in Sockets
    BY <1>0 DEF OpShape
  <2> QED BY <2>1, <2>2, <2>3, <2>4 DEF StillTrue
<1>8. ASSUME DispatchThrow(t) PROVE StillTrue'
  BY <1>0, <1>1, <1>8 DEF DispatchThrow
<1>9. ASSUME RunTask(t) PROVE StillTrue'
  BY <1>0, <1>1, <1>9 DEF RunTask
<1>10. ASSUME Passive(t) PROVE StillTrue'
  <2>1. UNCHANGED <<phase, sock>>
    BY <1>10, PassiveFrame
  <2>2. ASSUME WaitPoll(t) PROVE StillTrue'
    <3>1. snap' = [snap EXCEPT ![t] = Polled(t)] /\ UNCHANGED rdy
      BY <2>2 DEF WaitPoll
    <3>2. ASSUME NEW o \in Ops, phase[o] = "queued" PROVE Polled(t)[sock[o]] \subseteq rdy[sock[o]]
      <4>1. sock[o] \in Sockets
        BY <1>0, <3>2 DEF OpShape
      <4>2. Alive(sock[o])
        BY <3>2 DEF Alive
      <4> QED BY <4>1, <4>2 DEF Polled, Revents
    <3> QED BY <1>0, <2>1, <3>1, <3>2 DEF StillTrue
  <2>3. ASSUME NEW s \in Sockets, NEW e \in KernelEvents, Raise(s, e) PROVE StillTrue'
    <3>1. \A u \in Sockets : rdy[u] \subseteq rdy'[u]
      BY <1>0, <2>3 DEF Raise
    <3>2. \A o \in Ops : phase[o] = "queued" => sock[o] \in Sockets
      BY <1>0 DEF OpShape
    <3> QED BY <2>1, <2>3, <3>1, <3>2 DEF StillTrue, Raise
  <2>4. CASE UNCHANGED <<snap, rdy>> /\ (wpc'[t] \in {"lock", "dispatch"} => wpc[t] \in {"lock", "dispatch"})
    BY <2>1, <2>4 DEF StillTrue
  <2>5. ASSUME NEW ivl \in Intervals, WaitCopy(t, ivl) PROVE StillTrue'
    BY <1>0, <1>1, <2>5 DEF WaitCopy
  <2>6. ASSUME PollThrow(t) PROVE StillTrue'
    BY <1>0, <1>1, <2>6 DEF PollThrow
  <2> QED
    BY <1>0, <1>10, <2>2, <2>3, <2>4, <2>5, <2>6
       DEF Passive, StartNull, WaitLock, DispatchFault, DispatchEnd, WaitReturn, Environment,
           Release, vars
<1> HIDE DEF TypeOK, muxVars, opVars, waitVars
<1> QED BY <1>4, <1>5, <1>6, <1>7, <1>8, <1>9, <1>10, LoopCases

\* An operation that had a rival has had one for ever.
LEMMA RivalStep ==
  ASSUME NEW t, Threads = {t}, AsyncInv, Owned, Idle, EagerShape, [AsyncNext]_asyncVars,
         NEW o \in Ops, phase[o] # "new", Rival(o)
  PROVE  Rival(o)'
<1>0. TypeOK
  BY DEF AsyncInv, AsyncTypeOK
<1>1. PICK p \in Ops : /\ Contends(p, o) /\ phase[p] # "new"
                       /\ ~(phase[p] = "attempted" /\ error[sock[p]] = "EFAIL")
  BY DEF Rival
<1> USE DEF TypeOK, muxVars, opVars, waitVars
<1>2. ASSUME sock'[o] = sock[o], sock'[p] = sock[p], trig'[p] = trig[p], func'[p] = func[p],
             phase'[p] # "new", phase'[p] # "attempted" \/ (phase'[p] = phase[p] /\ UNCHANGED error)
      PROVE  Rival(o)'
  BY <1>1, <1>2 DEF Rival, Contends
<1>3. ASSUME NEW q \in Ops, NEW s, NEW g, NEW f, NEW place, CanIssue(t, q, s),
             Become(q, t, s, g, f, place)
      PROVE  Rival(o)'
  <2>1. q # o /\ q # p
    BY <1>1, <1>3 DEF CanIssue
  <2>2. phase[p] # "attempted"
    BY <1>1, <1>3 DEF CanIssue, InProgram, InCall, Ours, Owned
  <2> QED BY <1>0, <1>1, <1>2, <1>3, <2>1, <2>2 DEF Become
<1>4. ASSUME NEW q \in Ops, NEW s \in Sockets, NEW g \in {"READ", "WRITE"},
             Defer(t, q, s, g) \/ Attempt(t, q, s, g)
      PROVE  Rival(o)'
  <2>1. CASE Defer(t, q, s, g)
    BY <1>3, <2>1 DEF Defer
  <2>2. CASE Attempt(t, q, s, g)
    BY <1>3, <2>2, AttemptCases
  <2> QED BY <1>4, <2>1, <2>2
<1>5. ASSUME NEW q \in Ops, NEW s \in Sockets, ConnectSocket(t, q, s) PROVE Rival(o)'
  BY <1>3, <1>5 DEF ConnectSocket
<1>6. ASSUME NEW q \in Ops, AfterFailure(t, q) PROVE Rival(o)'
  <2>1. phase[q] = "attempted" /\ UNCHANGED error
    BY <1>6 DEF AfterFailure
  <2>2. \A r \in Ops : sock'[r] = sock[r]
    BY <1>0, <1>6 DEF AfterFailure, Become
  <2>3. CASE p = q
    <3>1. error[sock[q]] # "EFAIL"
      BY <1>1, <2>1, <2>3
    <3>2. Become(q, t, sock[q], trig[q], "io", "sender")
      BY <1>6, <3>1 DEF AfterFailure
    <3>3. phase'[q] = "sender" /\ trig'[q] = trig[q] /\ func'[q] = "io"
      BY <1>0, <3>2 DEF Become
    <3>4. func[q] = "io"
      BY <2>1 DEF EagerShape
    <3> QED BY <1>2, <2>2, <2>3, <3>3, <3>4
  <2>4. CASE p # q
    <3>1. phase'[p] = phase[p] /\ trig'[p] = trig[p] /\ func'[p] = func[p]
      BY <1>0, <1>6, <2>4 DEF AfterFailure, Become
    <3> QED BY <1>1, <1>2, <2>1, <2>2, <3>1
  <2> QED BY <2>3, <2>4
<1>7. ASSUME NEW q \in Ops, \/ ConnectCheck(t, q) \/ ConnectRegister(t, q) \/ StartInline(t, q)
                            \/ StartCheck(t, q) \/ StartEnqueue(t, q)
      PROVE  Rival(o)'
  BY <1>0, <1>1, <1>2, <1>7 DEF ConnectCheck, ConnectRegister, StartInline, Complete, StartCheck,
                                StartEnqueue
<1>8. ASSUME NEW s \in Sockets, DispatchOn(t, s) PROVE Rival(o)'
  <2>1. phase[p] # "attempted"
    BY <1>8 DEF DispatchOn, Idle, Polling, Unstarted
  <2> QED BY <1>1, <1>2, <1>8, <2>1 DEF DispatchOn
<1>9. ASSUME DispatchThrow(t) PROVE Rival(o)'
  BY <1>1, <1>2, <1>9 DEF DispatchThrow
<1>10. ASSUME RunTask(t) PROVE Rival(o)'
  BY <1>0, <1>1, <1>2, <1>10 DEF RunTask, Complete
<1>11. ASSUME Passive(t) PROVE Rival(o)'
  BY <1>1, <1>2, <1>11, PassiveFrame
<1> HIDE DEF TypeOK, muxVars, opVars, waitVars
<1> QED BY <1>4, <1>5, <1>6, <1>7, <1>8, <1>9, <1>10, <1>11, LoopCases

\* A task is run when there is something for it to do, unless it had a rival.
LEMMA ServedStep ==
  ASSUME NEW t, Threads = {t}, AsyncInv, Owned, Idle, EagerShape, StillTrue, ReadyTime, Served,
         [AsyncNext]_asyncVars
  PROVE  Served'
<1>0. TypeOK /\ OpShape /\ PlacedOnce
  BY DEF AsyncInv, AsyncTypeOK
<1>1. \A o \in Ops : phase[o] # "new" /\ Rival(o) => Rival(o)'
  BY RivalStep
<1>2. \A o \in Ops : delivered[o] # <<>> => phase[o] = "done"
  BY <1>0 DEF PlacedOnce, DeliveredOnce, TypeOK
<1>3. \A o \in Ops : "would_block" \in ToSet(delivered[o]) => Rival(o)'
  <2>1. \A o \in Ops : "would_block" \in ToSet(delivered[o]) => phase[o] = "done"
    BY <1>2, EmptyOnce
  <2> QED BY <1>1, <2>1 DEF Served
<1> DEFINE Works(o) == \/ error[sock[o]] = "EFAIL" \/ func[o] # "io"
                       \/ rdy[sock[o]] \cap (Serves(trig[o]) \cup Fails(trig[o])) # {}
                       \/ Rival(o)
<1> USE DEF muxVars, opVars, waitVars, envVars
\* The operations that were ready stay served, and no receiver is called.
<1>4. ASSUME UNCHANGED delivered,
             \A o \in Ops : phase'[o] = "ready" /\ phase[o] = "ready" =>
               trig'[o] = trig[o] /\ (Works(o) => Works(o)'),
             \A o \in Ops : phase'[o] = "ready" /\ phase[o] # "ready" => trig'[o] # "EAGER" /\ Works(o)'
      PROVE  Served'
  BY <1>3, <1>4 DEF Served
<1>5. ASSUME UNCHANGED <<delivered, error, rdy>>,
             \A o \in Ops : phase'[o] = "ready" =>
               phase[o] = "ready" /\ trig'[o] = trig[o] /\ func'[o] = func[o] /\ sock'[o] = sock[o]
      PROVE  Served'
  <2>1. ASSUME NEW o \in Ops, phase'[o] = "ready", Works(o) PROVE Works(o)'
    BY <1>1, <1>5, <2>1
  <2> QED BY <1>4, <1>5, <2>1
\* A new operation takes something, or changes the error, on the socket s only.
<1>6. ASSUME NEW q \in Ops, NEW s \in Sockets, NEW g, NEW f, NEW place \in {"sender", "attempted"},
             CanIssue(t, q, s), Become(q, t, s, g, f, place), UNCHANGED delivered,
             \A u \in Sockets : u # s => error'[u] = error[u] /\ rdy'[u] = rdy[u],
             \/ error'[s] = "EFAIL" \/ (error'[s] = error[s] /\ rdy'[s] = rdy[s])
             \/ /\ f = IF g = "EAGER" THEN "value" ELSE "io"
                /\ ~(place = "attempted" /\ error'[s] = "EFAIL")
      PROVE  Served'
  <2>1. phase[q] = "new" /\ sock'[q] = s /\ trig'[q] = g /\ func'[q] = f /\ phase'[q] = place
    BY <1>0, <1>6 DEF CanIssue, Become, TypeOK
  <2>2. \A o \in Ops : o # q => /\ phase'[o] = phase[o] /\ sock'[o] = sock[o] /\ trig'[o] = trig[o]
                                /\ func'[o] = func[o]
    BY <1>0, <1>6 DEF Become, TypeOK
  <2>3. ASSUME NEW o \in Ops, phase[o] = "ready", Works(o) PROVE Works(o)'
    <3>1. o # q /\ sock[o] \in Sockets
      BY <1>0, <2>1, <2>3 DEF OpShape
    <3>2. CASE sock[o] # s
      BY <1>1, <1>6, <2>2, <2>3, <3>1, <3>2
    <3>3. CASE sock[o] = s /\ error'[s] = "EFAIL"
      BY <2>2, <3>1, <3>3
    <3>4. CASE sock[o] = s /\ error'[s] = error[s] /\ rdy'[s] = rdy[s]
      BY <1>1, <2>2, <2>3, <3>1, <3>4
    <3>5. CASE /\ sock[o] = s /\ f = IF g = "EAGER" THEN "value" ELSE "io"
               /\ ~(place = "attempted" /\ error'[s] = "EFAIL")
      <4>1. Rival(o)'
        BY <2>1, <2>2, <3>1, <3>5 DEF Rival, Contends
      <4> QED BY <4>1
    <3> QED BY <1>6, <3>2, <3>3, <3>4, <3>5
  <2>4. \A o \in Ops : phase'[o] = "ready" => phase[o] = "ready" /\ trig'[o] = trig[o]
    BY <2>1, <2>2
  <2> HIDE DEF Works
  <2> QED BY <1>4, <1>6, <2>3, <2>4
<1>7. ASSUME NEW q \in Ops, NEW s \in Sockets, NEW g \in {"READ", "WRITE"}, Defer(t, q, s, g)
      PROVE  Served'
  BY <1>6, <1>7 DEF Defer
<1>8. ASSUME NEW q \in Ops, NEW s \in Sockets, NEW g \in {"READ", "WRITE"}, Attempt(t, q, s, g)
      PROVE  Served'
  <2>1. CanIssue(t, q, s) /\ UNCHANGED delivered
    BY <1>8, AttemptCases
  <2>2. \A u \in Sockets : u # s => error'[u] = error[u] /\ rdy'[u] = rdy[u]
    <3>1. PICK used, e : /\ rdy' = [rdy EXCEPT ![s] = used]
                         /\ error' = error \/ error' = [error EXCEPT ![s] = e]
      BY <1>8, AttemptCases
    <3> QED BY <1>0, <3>1 DEF TypeOK
  <2>3. CASE Become(q, t, s, "EAGER", "value", "sender")
    BY <1>6, <2>1, <2>2, <2>3
  <2>4. CASE Become(q, t, s, g, "io", "attempted")
    BY <1>6, <2>1, <2>2, <2>4
  <2> QED BY <1>8, <2>3, <2>4, AttemptCases
<1>9. ASSUME NEW q \in Ops, NEW s \in Sockets, ConnectSocket(t, q, s) PROVE Served'
  <2>1. /\ CanIssue(t, q, s) /\ Become(q, t, s, "WRITE", "value", "sender")
        /\ UNCHANGED <<delivered, rdy>> /\ error' \in {error, [error EXCEPT ![s] = "EFAIL"]}
    BY <1>9 DEF ConnectSocket
  <2>2. /\ \A u \in Sockets : u # s => error'[u] = error[u]
        /\ error'[s] = "EFAIL" \/ error'[s] = error[s]
    BY <1>0, <2>1 DEF TypeOK
  <2> QED BY <1>6, <2>1, <2>2
<1>10. ASSUME NEW q \in Ops, AfterFailure(t, q) PROVE Served'
  <2>1. phase'[q] = "sender" /\ UNCHANGED <<delivered, error, rdy>>
    BY <1>0, <1>10 DEF AfterFailure, Become, TypeOK
  <2>2. \A o \in Ops : o # q => /\ phase'[o] = phase[o] /\ sock'[o] = sock[o] /\ trig'[o] = trig[o]
                                /\ func'[o] = func[o]
    BY <1>0, <1>10 DEF AfterFailure, Become, TypeOK
  <2> QED BY <1>5, <2>1, <2>2
<1>11. ASSUME NEW q \in Ops, \/ ConnectCheck(t, q) \/ ConnectRegister(t, q)
                             \/ StartCheck(t, q) \/ StartEnqueue(t, q)
       PROVE  Served'
  <2>1. /\ UNCHANGED <<delivered, error, rdy, trig, func, sock>>
        /\ \A o \in Ops : phase'[o] = "ready" => phase[o] = "ready"
    BY <1>0, <1>11 DEF ConnectCheck, ConnectRegister, StartCheck, StartEnqueue, TypeOK
  <2> QED BY <1>5, <2>1
<1>12. ASSUME DispatchThrow(t) PROVE Served'
  <2>1. /\ UNCHANGED <<delivered, error, rdy, trig, func, sock>>
        /\ \A o \in Ops : phase'[o] = "ready" => phase[o] = "ready"
    BY <1>12 DEF DispatchThrow
  <2> QED BY <1>5, <2>1
<1>13. ASSUME NEW s \in Sockets, DispatchOn(t, s) PROVE Served'
  <2> DEFINE rev == snap[t][s]
  <2>1. /\ wpc[t] = "dispatch" /\ rev # {}
        /\ phase' = [o \in Ops |-> IF o \in ToSet(AllMoved(s, rev)) THEN "ready" ELSE phase[o]]
        /\ error' = IF rev \cap Faulty # {} THEN [error EXCEPT ![s] = SocketError(s)] ELSE error
        /\ rdy' = IF rev \cap Faulty # {} THEN [rdy EXCEPT ![s] = @ \ {"POLLERR"}] ELSE rdy
        /\ UNCHANGED <<delivered, sock, trig, func>>
    BY <1>13 DEF DispatchOn, IsNext
  <2>2. ASSUME NEW o \in Ops, phase[o] = "ready", Works(o) PROVE Works(o)'
    <3>1. sock[o] # s /\ sock[o] \in Sockets
      BY <1>0, <2>1, <2>2 DEF ReadyTime, OpShape
    <3>2. error'[sock[o]] = error[sock[o]] /\ rdy'[sock[o]] = rdy[sock[o]]
      BY <1>0, <2>1, <3>1 DEF TypeOK
    <3> QED BY <1>1, <2>1, <2>2, <3>2
  <2>3. ASSUME NEW o \in Ops, phase'[o] = "ready", phase[o] # "ready"
        PROVE  trig'[o] # "EAGER" /\ Works(o)'
    <3>1. /\ phase[o] = "queued" /\ sock[o] = s /\ rev \cap Wakes(trig[o]) # {}
          /\ trig[o] \in {"READ", "WRITE"}
      BY <2>1, <2>3, MovedPhases
    <3>2. rev \subseteq rdy[s]
      BY <2>1, <3>1 DEF StillTrue
    <3>3. CASE rev \cap Faulty # {}
      <4>1. SocketError(s) = "EFAIL"
        BY <3>2, <3>3 DEF SocketError
      <4>2. error'[s] = "EFAIL"
        BY <1>0, <2>1, <3>3, <4>1 DEF TypeOK
      <4> QED BY <2>1, <3>1, <4>2
    <3>4. CASE rev \cap Faulty = {}
      <4>1. rev \cap Serves(trig[o]) # {}
        BY <3>1, <3>4 DEF Wakes, Serves
      <4>2. rdy' = rdy
        BY <2>1, <3>4
      <4> QED BY <2>1, <3>1, <3>2, <4>1, <4>2
    <3> QED BY <3>3, <3>4
  <2> HIDE DEF rev, Works
  <2> QED BY <1>4, <2>1, <2>2, <2>3
\* A completion: the receiver of q gets EAGAIN only if q was not served, and what q
\* consumes makes it a rival of the others.
<1>14. ASSUME NEW q \in Ops, Complete(q), UNCHANGED <<error, sock, trig, func>>,
              phase[q] # "new", phase[q] # "done",
              \A out \in Outcomes(q) : out.result = "would_block" => Rival(q),
              \A out \in Outcomes(q) : out.used # {} => func[q] = "io" /\ trig[q] # "EAGER"
       PROVE  Served'
  <2>1. PICK out \in Outcomes(q) :
          /\ delivered' = [delivered EXCEPT ![q] = Append(@, out.result)]
          /\ phase' = [phase EXCEPT ![q] = "done"]
          /\ rdy' = [rdy EXCEPT ![sock[q]] = @ \ out.used]
    BY <1>14 DEF Complete
  <2>2. sock[q] \in Sockets /\ delivered[q] = <<>>
    BY <1>0, <1>2, <1>14 DEF OpShape
  <2>3. ASSUME NEW o \in Ops, "would_block" \in ToSet(delivered'[o]) PROVE Rival(o)'
    <3>1. CASE o = q
      <4>1. delivered'[q] = <<out.result>>
        BY <1>0, <2>1, <2>2 DEF TypeOK
      <4>2. out.result = "would_block"
        BY <2>3, <3>1, <4>1 DEF ToSet
      <4> QED BY <1>1, <1>14, <3>1, <4>2
    <3>2. CASE o # q
      <4>1. delivered'[o] = delivered[o]
        BY <1>0, <2>1, <3>2 DEF TypeOK
      <4> QED BY <1>3, <2>3, <4>1
    <3> QED BY <3>1, <3>2
  <2>4. ASSUME NEW o \in Ops, phase'[o] = "ready" PROVE trig'[o] # "EAGER" /\ Works(o)'
    <3>1. o # q /\ phase[o] = "ready" /\ phase'[q] = "done"
      BY <1>0, <2>1, <2>4 DEF TypeOK
    <3>2. trig[o] # "EAGER" /\ Works(o)
      BY <3>1 DEF Served
    <3>3. CASE out.used = {} \/ sock[o] # sock[q]
      <4>1. rdy'[sock[o]] = rdy[sock[o]]
        <5>1. rdy \in [Sockets -> SUBSET Events] /\ sock[o] \in Sockets
          BY <1>0, <3>1 DEF TypeOK, OpShape
        <5>2. CASE out.used = {}
          BY <2>1, <2>2, <5>1, <5>2
        <5>3. CASE sock[o] # sock[q]
          BY <2>1, <2>2, <5>1, <5>3
        <5> QED BY <3>3, <5>2, <5>3
      <4> QED BY <1>1, <1>14, <3>1, <3>2, <4>1
    <3>4. CASE out.used # {} /\ sock[o] = sock[q]
      <4>1. Contends(q, o)'
        BY <1>14, <3>1, <3>4 DEF Contends
      <4>2. Rival(o)'
        BY <3>1, <4>1 DEF Rival
      <4> QED BY <1>14, <3>2, <4>2
    <3> QED BY <3>3, <3>4
  <2> QED BY <2>3, <2>4 DEF Served
<1>15. ASSUME NEW q \in Ops, StartInline(t, q) PROVE Served'
  <2>1. /\ phase[q] = "connected" /\ Complete(q) /\ UNCHANGED <<error, sock, trig, func>>
        /\ ~Registers(q)
    BY <1>15 DEF StartInline
  <2>2. ASSUME NEW out \in Outcomes(q) PROVE out.used = {} /\ out.result # "would_block"
    <3>1. CASE error[sock[q]] = "EFAIL"
      BY <1>0, <3>1, NoEmptyCall
    <3>2. CASE error[sock[q]] # "EFAIL"
      <4>1. func[q] # "io"
        BY <2>1, <3>2 DEF Registers, EagerShape
      <4> QED BY <3>2, <4>1 DEF Outcomes, FuncOutcomes
    <3> QED BY <3>1, <3>2
  <2> QED BY <1>14, <2>1, <2>2
<1>16. ASSUME RunTask(t) PROVE Served'
  <2> DEFINE q == Head(ready[t])
  <2>1. /\ q \in Ops /\ phase[q] = "ready" /\ Complete(q) /\ UNCHANGED <<error, sock, trig, func>>
    BY <1>16, MovedPhases DEF RunTask
  <2> HIDE DEF q
  <2>2. trig[q] # "EAGER" /\ Works(q)
    BY <2>1 DEF Served
  <2>3. ASSUME NEW out \in Outcomes(q)
        PROVE  /\ out.result = "would_block" => Rival(q)
               /\ out.used # {} => func[q] = "io"
    <3>1. CASE func[q] # "empty" \/ error[sock[q]] = "EFAIL"
      BY <1>0, <2>1, <2>2, <3>1, NoEmptyCall
    <3>2. CASE func[q] = "empty" /\ error[sock[q]] # "EFAIL"
      BY <3>2 DEF Outcomes, FuncOutcomes
    <3> QED BY <3>1, <3>2
  <2> QED BY <1>14, <2>1, <2>2, <2>3
<1>17. ASSUME Passive(t) PROVE Served'
  <2>1. UNCHANGED <<delivered, error, trig, func, sock, phase>>
    BY <1>17, PassiveFrame
  <2>2. \A u \in Sockets : rdy[u] \subseteq rdy'[u]
    BY <1>0, <1>17
       DEF Passive, StartNull, WaitCopy, WaitPoll, PollThrow, WaitLock, DispatchFault, DispatchEnd,
           WaitReturn, Environment, Raise, Release, vars, TypeOK
  <2>3. ASSUME NEW o \in Ops, phase[o] = "ready", Works(o) PROVE Works(o)'
    <3>1. rdy[sock[o]] \subseteq rdy'[sock[o]]
      BY <1>0, <2>2, <2>3 DEF OpShape
    <3> QED BY <1>1, <2>1, <2>3, <3>1
  <2> HIDE DEF Works
  <2> QED BY <1>4, <2>1, <2>3
<1> HIDE DEF muxVars, opVars, waitVars
<1> QED BY <1>7, <1>8, <1>9, <1>10, <1>11, <1>12, <1>13, <1>15, <1>16, <1>17, LoopCases

-----------------------------------------------------------------------------
(* What holds for a program with one thread. *)

\* The thread that issues the operations is the one that runs the event loop.
OneThread == \E t : Threads = {t}

\* At the start nothing exists, so everything that is said of operations holds.
LEMMA LoopInit ==
  ASSUME AsyncInit
  PROVE  /\ AsyncInv /\ Owned /\ Idle /\ Registered /\ Firm /\ Excused /\ Wanted /\ NoHangUp
         /\ Reported /\ NoFault /\ EagerShape /\ StillTrue /\ ReadyTime /\ Served
<1>1. AsyncInv
  BY AsyncInductive
<1> USE DEF AsyncInit, Init
<1>2. Owned /\ Idle /\ Registered /\ Firm
  BY DEF Owned, Idle, Polling, Registered, Firm
<1>3. Excused /\ NoHangUp /\ NoFault /\ EagerShape
  BY NilAssumption DEF Excused, NoHangUp, NoEvents, NoFault, EagerShape, Triggers
<1>4. Wanted /\ Reported
  BY DEF Wanted, Interest, NoEvents, Reported, Polling
<1>5. StillTrue /\ ReadyTime
  BY DEF StillTrue, ReadyTime
<1>6. Served
  BY EmptyOnce DEF Served
<1> QED BY <1>1, <1>2, <1>3, <1>4, <1>5, <1>6

\* With one thread, a queued operation's event is in the interest list at every step,
\* unless getsockopt throws: no wake-up is lost between connect, start and wait_for.
THEOREM ArmedAlways == OneThread /\ "getsockopt" \notin Throws => (AsyncSpec => []Armed)
<1> SUFFICES ASSUME NEW t, Threads = {t}, "getsockopt" \notin Throws PROVE AsyncSpec => []Armed
  BY DEF OneThread
<1> DEFINE ArmedInv == AsyncInv /\ Owned /\ Idle /\ Registered
<1>1. AsyncInit => ArmedInv
  BY LoopInit
<1>2. ArmedInv /\ [AsyncNext]_asyncVars => ArmedInv'
  BY AsyncInductive, IdleStep, RegisteredStep
<1>3. ArmedInv => Armed
  BY DEF Registered, Armed
<1> QED BY <1>1, <1>2, <1>3, PTL DEF AsyncSpec

\* The error of a failed attempt reaches its receiver, and the empty functor is not
\* called, when one thread starts each sender before it makes the next.
THEOREM ErrorsDelivered == OneThread /\ Sequential => (AsyncSpec => []ErrorReachesReceiver)
<1> SUFFICES ASSUME NEW t, Threads = {t}, Sequential PROVE AsyncSpec => []ErrorReachesReceiver
  BY DEF OneThread
<1> DEFINE ErrorInv == AsyncInv /\ Owned /\ Idle /\ Excused
<1>1. AsyncInit => ErrorInv
  BY LoopInit
<1>2. ErrorInv /\ [AsyncNext]_asyncVars => ErrorInv'
  BY AsyncInductive, IdleStep, ExcusedStep
<1>3. ErrorInv => ErrorReachesReceiver
  BY DEF Excused, ErrorReachesReceiver
<1> QED BY <1>1, <1>2, <1>3, PTL DEF AsyncSpec

\* The inductive invariant behind the interest list and the pointers of the
\* demultiplexers, for one sequential thread and a kernel that reports no hang-up.
PointerInv == /\ AsyncInv /\ Owned /\ Idle /\ Firm /\ Excused /\ NoHangUp
              /\ Wanted /\ Reported /\ NoFault

\* PointerInv holds initially and is preserved by every step.
LEMMA PointerInductive ==
  ASSUME NEW t, Threads = {t}, Sequential, "POLLHUP" \notin KernelEvents
  PROVE  /\ AsyncInit => PointerInv
         /\ PointerInv /\ [AsyncNext]_asyncVars => PointerInv'
<1>1. AsyncInit => PointerInv
  BY LoopInit DEF PointerInv
<1>2. ASSUME PointerInv, [AsyncNext]_asyncVars PROVE PointerInv'
  <2>1. /\ AsyncInv /\ Owned /\ Idle /\ Firm /\ Excused /\ NoHangUp /\ Wanted /\ Reported /\ NoFault
    BY <1>2 DEF PointerInv
  <2>2. AsyncInv' /\ Owned' /\ Idle'
    BY <1>2, <2>1, AsyncInductive, IdleStep
  <2>3. Firm' /\ Excused' /\ NoHangUp'
    BY <1>2, <2>1, FirmStep, ExcusedStep, NoHangUpStep
  <2>4. Wanted' /\ Reported' /\ NoFault'
    BY <1>2, <2>1, WantedStep, ReportedStep, FaultStep
  <2> QED BY <2>2, <2>3, <2>4 DEF PointerInv
<1> QED BY <1>1, <1>2

\* With one sequential thread and no POLLHUP, the interest list asks only for events
\* that some operation waits for.
THEOREM InterestWanted ==
  OneThread /\ Sequential /\ "POLLHUP" \notin KernelEvents => (AsyncSpec => []NoStaleInterest)
<1> SUFFICES ASSUME NEW t, Threads = {t}, Sequential, "POLLHUP" \notin KernelEvents
             PROVE  AsyncSpec => []NoStaleInterest
  BY DEF OneThread
<1>1. PointerInv => NoStaleInterest
  BY DEF PointerInv, Wanted, NoStaleInterest
<1> QED BY <1>1, PointerInductive, PTL DEF AsyncSpec

\* With one sequential thread and no POLLHUP, no null or dangling pointer is
\* dereferenced and no empty functor is called.
THEOREM PointersValid ==
  OneThread /\ Sequential /\ "POLLHUP" \notin KernelEvents => (AsyncSpec => []NoFault)
<1> SUFFICES ASSUME NEW t, Threads = {t}, Sequential, "POLLHUP" \notin KernelEvents
             PROVE  AsyncSpec => []NoFault
  BY DEF OneThread
<1>1. PointerInv => NoFault
  BY DEF PointerInv
<1> QED BY <1>1, PointerInductive, PTL DEF AsyncSpec

\* With one thread a receiver is handed EAGAIN only if another operation contended for
\* its socket, whatever the kernel reports and whichever system call throws.
THEOREM EagainHasRival == OneThread => (AsyncSpec => []NoWouldBlock)
<1> SUFFICES ASSUME NEW t, Threads = {t} PROVE AsyncSpec => []NoWouldBlock
  BY DEF OneThread
<1> DEFINE ServedInv == /\ AsyncInv /\ Owned /\ Idle /\ EagerShape /\ StillTrue /\ ReadyTime
                        /\ Served
<1>1. AsyncInit => ServedInv
  BY LoopInit
<1>2. ServedInv /\ [AsyncNext]_asyncVars => ServedInv'
  BY AsyncInductive, IdleStep, EagerStep, StillTrueStep, ReadyTimeStep, ServedStep
<1>3. ServedInv => NoWouldBlock
  BY DEF Served, Rival, NoWouldBlock
<1> QED BY <1>1, <1>2, <1>3, PTL DEF AsyncSpec

=============================================================================
