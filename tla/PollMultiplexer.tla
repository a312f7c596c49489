-------------------------- MODULE PollMultiplexer --------------------------
(***************************************************************************)
(* basic_poll_multiplexer: senders are connected (which registers poll     *)
(* interest), started (which queues the operation state on the             *)
(* demultiplexer of its socket), and completed by a thread that calls      *)
(* wait_for: it copies the interest list, polls the copy without the lock, *)
(* and under the lock again clears the reported interest and moves the     *)
(* queued tasks to a local ready queue, which it then runs.                *)
(*                                                                         *)
(* A step ends where another thread can observe the difference: at every   *)
(* acquisition of mtx_, at the reads of socket_handle::error_ made outside *)
(* it, at poll(), and between two tasks of a ready queue.  mtx is held     *)
(* over several steps only by the second critical section of wait_for;     *)
(* the other critical sections are one step, taken while mtx is free.      *)
(***************************************************************************)
EXTENDS Naturals, Sequences, SequencesExt

CONSTANTS
  Threads,        \* the threads of the program
  Waiters,        \* those that call wait_for
  Clients,        \* those that start operations outside of a completion
  Sockets,        \* file descriptors; each is one socket_handle
  Ops,            \* operation states, each used once
  KernelEvents,   \* the poll events the kernel may raise
  Intervals,      \* "finite" for wait_for(n), "infinite" for wait()
  Throws,         \* the system calls that may fail with an unhandled error
  Nil

Triggers == {"READ", "WRITE", "EAGER"}
Events   == {"POLLIN", "POLLOUT", "POLLERR", "POLLHUP", "POLLNVAL"}
Faulty   == {"POLLERR", "POLLNVAL"}
Results  == {"value", "error", "would_block", "empty_call"}

ASSUME ThreadsAssumption == Waiters \subseteq Threads /\ Clients \subseteq Threads
ASSUME SocketsAssumption == Sockets \subseteq Nat
ASSUME EventsAssumption  == KernelEvents \subseteq Events
ASSUME CallsAssumption   == /\ Intervals \subseteq {"finite", "infinite"}
                            /\ Throws \subseteq {"poll", "getsockopt"}
ASSUME NilAssumption     == Nil \notin Threads /\ Nil \notin Sockets /\ Nil \notin Triggers

VARIABLES
  error,          \* socket_handle::error_, by socket
  list,           \* list_: the interest of each socket, {} when it has none
  read_queue,     \* demux_[fd].read_queue
  write_queue,    \* demux_[fd].write_queue
  demux_socket,   \* demux_[fd].socket
  mtx,            \* holder of mtx_
  phase,          \* where an operation state is in its life
  sock,           \* its socket
  trig,           \* its trigger
  func,           \* its completion handler
  demux,          \* whether its demux pointer is not null
  owner,          \* the thread that connects and starts it
  delivered,      \* what its receiver was given, one entry per call
  wpc,            \* where a thread is in wait_for
  snap,           \* its local list: the interest copied, then the revents
  ready,          \* its local ready_queue
  rdy,            \* kernel: the poll conditions of each socket
  held,           \* the program still holds the socket's dialog
  fault           \* undefined behaviour met, "none" until then

muxVars == <<list, read_queue, write_queue, demux_socket>>
opVars  == <<phase, sock, trig, func, demux, owner, delivered>>
waitVars == <<wpc, snap, ready>>
envVars == <<rdy, held>>
vars == <<error, muxVars, mtx, opVars, waitVars, envVars, fault>>

\* An operation is attempted eagerly, if at all (AsyncOperations), then a sender.
Phases == {"new", "attempted", "sender", "connecting", "connected", "starting",
           "queued", "ready", "done", "lost"}
WaitPlaces == {"out", "poll", "block", "lock", "dispatch", "run", "cont"}

\* Type correctness: the error codes, poll flags, queues and program points the
\* code can store; in particular list_ never holds a flag that only poll() sets.
TypeOK ==
  /\ error \in [Sockets -> {"OK", "EAGAIN", "EFAIL"}]
  /\ list \in [Sockets -> SUBSET {"POLLIN", "POLLOUT"}]
  /\ read_queue \in [Sockets -> Seq(Ops)]
  /\ write_queue \in [Sockets -> Seq(Ops)]
  /\ demux_socket \in [Sockets -> Sockets \cup {Nil}]
  /\ mtx \in Threads \cup {Nil}
  /\ phase \in [Ops -> Phases]
  /\ sock \in [Ops -> Sockets \cup {Nil}]
  /\ trig \in [Ops -> Triggers \cup {Nil}]
  /\ func \in [Ops -> {"io", "value", "empty"}]
  /\ demux \in [Ops -> BOOLEAN]
  /\ owner \in [Ops -> Threads \cup {Nil}]
  /\ delivered \in [Ops -> Seq(Results)]
  /\ wpc \in [Threads -> WaitPlaces]
  /\ snap \in [Threads -> [Sockets -> SUBSET Events]]
  /\ ready \in [Threads -> Seq(Ops)]
  /\ rdy \in [Sockets -> SUBSET Events]
  /\ held \in [Sockets -> BOOLEAN]
  /\ fault \in {"none", "null_demux", "null_socket", "dangling_socket", "empty_functor"}

NoEvents == [s \in Sockets |-> {}]

Init ==
  /\ error = [s \in Sockets |-> "OK"]
  /\ list = NoEvents
  /\ read_queue = [s \in Sockets |-> <<>>]
  /\ write_queue = [s \in Sockets |-> <<>>]
  /\ demux_socket = [s \in Sockets |-> Nil]
  /\ mtx = Nil
  /\ phase = [o \in Ops |-> "new"]
  /\ sock = [o \in Ops |-> Nil]
  /\ trig = [o \in Ops |-> Nil]
  /\ func = [o \in Ops |-> "io"]
  /\ demux = [o \in Ops |-> FALSE]
  /\ owner = [o \in Ops |-> Nil]
  /\ delivered = [o \in Ops |-> <<>>]
  /\ wpc = [t \in Threads |-> "out"]
  /\ snap = [t \in Threads |-> NoEvents]
  /\ ready = [t \in Threads |-> <<>>]
  /\ rdy = NoEvents
  /\ held = [s \in Sockets |-> TRUE]
  /\ fault = "none"

-----------------------------------------------------------------------------
(* Operation states and the threads that own them. *)

\* Nothing is said of an execution after undefined behaviour.
Running == fault = "none"

Ours(t, places) == \E o \in Ops : owner[o] = t /\ phase[o] \in places

\* t is between an unlocked access to error_ and what it leads to.
InCall(t) == Ours(t, {"attempted", "connecting", "starting"})

\* t owns a sender or an operation state that it has not started.
Busy(t) == Ours(t, {"attempted", "sender", "connecting", "connected", "starting"})

\* The shared_ptr in an operation state, or the program's, keeps the fd open.
Alive(s) == held[s] \/ \E o \in Ops : sock[o] = s /\ phase[o] \notin {"new", "done"}

\* The program runs code of its own on t: a client, or a completion.
InProgram(t) == /\ Running /\ ~InCall(t)
                /\ \/ wpc[t] = "out" /\ t \in Clients
                   \/ wpc[t] = "cont"

-----------------------------------------------------------------------------
(* Completion. *)

Interest(g) == IF g = "READ" THEN {"POLLIN"}
               ELSE IF g = "WRITE" THEN {"POLLOUT"} ELSE {}

\* The conditions under which the operation's system call succeeds or fails;
\* under none of them it would block.  A read at POLLHUP returns end of file.
Serves(g) == IF g = "READ" THEN {"POLLIN", "POLLHUP"} ELSE {"POLLOUT"}
Fails(g)  == IF g = "READ" THEN Faulty ELSE Faulty \cup {"POLLHUP"}

IoOutcomes(g, k) ==
  (IF k \cap Serves(g) # {}
     THEN {[result |-> "value", used |-> u] : u \in SUBSET (k \cap Interest(g))}
     ELSE {})
  \cup (IF k \cap Fails(g) # {}
          THEN {[result |-> "error", used |-> k \cap {"POLLERR"}]} ELSE {})
  \cup (IF k \cap (Serves(g) \cup Fails(g)) = {}
          THEN {[result |-> "would_block", used |-> {}]} ELSE {})

FuncOutcomes(f, g, k) ==
  IF f = "io" THEN IoOutcomes(g, k)
  ELSE {[result |-> IF f = "value" THEN "value" ELSE "empty_call", used |-> {}]}

\* complete(): an error on the handle is delivered without calling func.
Outcomes(o) ==
  IF error[sock[o]] = "EFAIL"
    THEN {[result |-> "error", used |-> {}]}
    ELSE FuncOutcomes(func[o], trig[o], rdy[sock[o]])

\* The load of error_ and the call of func are one step here.  An error that another
\* thread stores between the two is then stored before or after both; the result of func
\* may differ, the tasks and the interest do not.
Complete(o) ==
  \E out \in Outcomes(o) :
    /\ delivered' = [delivered EXCEPT ![o] = Append(@, out.result)]
    /\ phase' = [phase EXCEPT ![o] = "done"]
    /\ rdy' = [rdy EXCEPT ![sock[o]] = @ \ out.used]
    /\ fault' = IF out.result = "empty_call" THEN "empty_functor" ELSE fault

-----------------------------------------------------------------------------
(* set, connect and start. *)

\* set(): a sender that shares ownership of the socket.
Set(t, o, s, g, f) ==
  /\ InProgram(t)
  /\ phase[o] = "new" /\ held[s]
  /\ phase' = [phase EXCEPT ![o] = "sender"]
  /\ sock' = [sock EXCEPT ![o] = s]
  /\ trig' = [trig EXCEPT ![o] = g]
  /\ func' = [func EXCEPT ![o] = f]
  /\ owner' = [owner EXCEPT ![o] = t]
  /\ UNCHANGED <<error, muxVars, mtx, demux, delivered, waitVars, envVars, fault>>

\* The test that connect() and start() make without the lock.
Registers(o) == trig[o] # "EAGER" /\ error[sock[o]] # "EFAIL"

\* A plausible mistake in connect: EAGAIN taken for a failure of the socket.
ConnectCheckClean(t, o) ==
  /\ InProgram(t)
  /\ phase[o] = "sender" /\ owner[o] = t
  /\ phase' = [phase EXCEPT ![o] = IF trig[o] # "EAGER" /\ error[sock[o]] = "OK"
                                     THEN "connecting" ELSE "connected"]
  /\ UNCHANGED <<error, muxVars, mtx, sock, trig, func, demux, owner, delivered,
                 waitVars, envVars, fault>>

ConnectCheck(t, o) ==
  /\ InProgram(t)
  /\ phase[o] = "sender" /\ owner[o] = t
  /\ phase' = [phase EXCEPT ![o] = IF Registers(o) THEN "connecting" ELSE "connected"]
  /\ UNCHANGED <<error, muxVars, mtx, sock, trig, func, demux, owner, delivered,
                 waitVars, envVars, fault>>

\* update_or_insert_event(list, make_poll_event(socket, trigger))
UpdateOrInsert(l, s, g) == [l EXCEPT ![s] = @ \cup Interest(g)]

ConnectRegister(t, o) ==
  /\ Running
  /\ phase[o] = "connecting" /\ owner[o] = t
  /\ mtx = Nil
  /\ demux' = [demux EXCEPT ![o] = TRUE]
  /\ list' = UpdateOrInsert(list, sock[o], trig[o])
  /\ phase' = [phase EXCEPT ![o] = "connected"]
  /\ UNCHANGED <<error, read_queue, write_queue, demux_socket, mtx, sock, trig, func,
                 owner, delivered, waitVars, envVars, fault>>

StartInline(t, o) ==
  /\ InProgram(t)
  /\ phase[o] = "connected" /\ owner[o] = t
  /\ ~Registers(o)
  /\ Complete(o)
  /\ UNCHANGED <<error, muxVars, mtx, sock, trig, func, demux, owner, waitVars, held>>

StartCheck(t, o) ==
  /\ InProgram(t)
  /\ phase[o] = "connected" /\ owner[o] = t
  /\ Registers(o)
  /\ phase' = [phase EXCEPT ![o] = "starting"]
  /\ UNCHANGED <<error, muxVars, mtx, sock, trig, func, demux, owner, delivered,
                 waitVars, envVars, fault>>

\* A plausible mistake in push: the task goes to the front.
PushFrontIf(q, o, g) ==
  IF trig[o] = g THEN [q EXCEPT ![sock[o]] = <<o>> \o @] ELSE q

\* The push on the queue of trigger g, for an operation with trigger trig[o].
PushIf(q, o, g) == IF trig[o] = g THEN [q EXCEPT ![sock[o]] = Append(@, o)] ELSE q

StartEnqueue(t, o) ==
  /\ Running
  /\ phase[o] = "starting" /\ owner[o] = t
  /\ mtx = Nil
  /\ demux[o]
  /\ write_queue' = PushIf(write_queue, o, "WRITE")
  /\ read_queue' = PushIf(read_queue, o, "READ")
  /\ demux_socket' = [demux_socket EXCEPT ![sock[o]] = sock[o]]
  /\ phase' = [phase EXCEPT ![o] = "queued"]
  /\ UNCHANGED <<error, list, mtx, sock, trig, func, demux, owner, delivered,
                 waitVars, envVars, fault>>

\* The push through a demux pointer that connect() left null.
StartNull(t, o) ==
  /\ Running
  /\ phase[o] = "starting" /\ owner[o] = t
  /\ mtx = Nil
  /\ ~demux[o]
  /\ fault' = "null_demux"
  /\ UNCHANGED <<error, muxVars, mtx, opVars, waitVars, envVars>>

-----------------------------------------------------------------------------
(* wait_for. *)

WaitCopy(t, ivl) ==
  /\ Running
  /\ t \in Waiters /\ wpc[t] = "out"
  /\ ~Busy(t)
  /\ mtx = Nil
  /\ snap' = [snap EXCEPT ![t] = list]
  /\ wpc' = [wpc EXCEPT ![t] = IF ivl = "finite" THEN "poll" ELSE "block"]
  /\ UNCHANGED <<error, muxVars, mtx, opVars, ready, envVars, fault>>

\* poll() reports the requested conditions and, unasked, errors and hang-ups; a
\* descriptor that was closed is reported POLLNVAL.
Revents(s, interest) ==
  IF interest = {} THEN {}
  ELSE IF ~Alive(s) THEN {"POLLNVAL"}
  ELSE rdy[s] \cap (interest \cup {"POLLERR", "POLLHUP", "POLLNVAL"})

Polled(t) == [s \in Sockets |-> Revents(s, snap[t][s])]

\* poll() returns with events, at the end of a finite interval, or is not called
\* at all because the list is empty.  The retries after EINTR are in PollTimeout.
WaitPoll(t) ==
  /\ Running
  /\ wpc[t] \in {"poll", "block"}
  /\ wpc[t] = "poll" \/ snap[t] = NoEvents \/ Polled(t) # NoEvents
  /\ snap' = [snap EXCEPT ![t] = Polled(t)]
  /\ wpc' = [wpc EXCEPT ![t] = "lock"]
  /\ UNCHANGED <<error, muxVars, mtx, opVars, ready, envVars, fault>>

PollThrow(t) ==
  /\ Running
  /\ "poll" \in Throws
  /\ wpc[t] \in {"poll", "block"} /\ snap[t] # NoEvents
  /\ snap' = [snap EXCEPT ![t] = NoEvents]
  /\ wpc' = [wpc EXCEPT ![t] = "out"]
  /\ UNCHANGED <<error, muxVars, mtx, opVars, ready, envVars, fault>>

WaitLock(t) ==
  /\ Running
  /\ wpc[t] = "lock" /\ mtx = Nil
  /\ mtx' = t
  /\ wpc' = [wpc EXCEPT ![t] = "dispatch"]
  /\ UNCHANGED <<error, muxVars, opVars, snap, ready, envVars, fault>>

\* list_ is sorted by descriptor, so events are handled in that order.
IsNext(t, s) == /\ snap[t][s] # {}
                /\ \A u \in Sockets : snap[t][u] # {} => s <= u

\* Plausible mistakes in clear_event: events ^= revents; the whole entry dropped for
\* any event; the errors not treated apart.
ClearEventToggles(interest, rev) == (interest \ rev) \cup (rev \ interest)
ClearEventDrops(interest, rev)   == {}
ClearEventKeeps(interest, rev)   == interest \ rev

ClearEvent(interest, rev) == IF rev \cap Faulty # {} THEN {} ELSE interest \ rev

\* A plausible mistake in prepare_handles: either event moves both queues.
WakesBoth(g) == Faulty \cup {"POLLIN", "POLLHUP", "POLLOUT"}

\* The poll conditions on which prepare_handles moves the queue of trigger g.
Wakes(g) == Faulty \cup (IF g = "READ" THEN {"POLLIN", "POLLHUP"} ELSE {"POLLOUT"})

Moved(q, rev, g) == IF rev \cap Wakes(g) # {} THEN q ELSE <<>>

\* A plausible mistake in move_back: the other queue keeps its tasks.
LeftBehind(q, rev, g) == q

Left(q, rev, g)  == IF rev \cap Wakes(g) # {} THEN <<>> ELSE q

\* set_error(*demux.socket): the pending SO_ERROR, which the call consumes, or
\* EBADF for a descriptor closed behind the handle's back.
SocketError(s) == IF rdy[s] \cap Faulty # {} THEN "EFAIL" ELSE "OK"

BadSocket(s) == IF demux_socket[s] = Nil THEN "null_socket"
                ELSE IF Alive(s) THEN "none" ELSE "dangling_socket"

\* The tasks of socket s that prepare_handles appends to the ready queue.
AllMoved(s, rev) == Moved(write_queue[s], rev, "WRITE") \o Moved(read_queue[s], rev, "READ")

\* One iteration of the loop: clear_event, then prepare_handles.
DispatchOn(t, s) ==
  LET rev  == snap[t][s]
      errs == rev \cap Faulty # {}
  IN  /\ Running /\ wpc[t] = "dispatch" /\ IsNext(t, s)
      /\ errs => BadSocket(s) = "none"
      /\ list' = [list EXCEPT ![s] = ClearEvent(@, rev)]
      /\ error' = IF errs THEN [error EXCEPT ![s] = SocketError(s)] ELSE error
      /\ rdy' = IF errs THEN [rdy EXCEPT ![s] = @ \ {"POLLERR"}] ELSE rdy
      /\ write_queue' = [write_queue EXCEPT ![s] = Left(@, rev, "WRITE")]
      /\ read_queue' = [read_queue EXCEPT ![s] = Left(@, rev, "READ")]
      /\ ready' = [ready EXCEPT ![t] = @ \o AllMoved(s, rev)]
      /\ phase' = [o \in Ops |-> IF o \in ToSet(AllMoved(s, rev)) THEN "ready" ELSE phase[o]]
      /\ snap' = [snap EXCEPT ![t][s] = {}]
      /\ UNCHANGED <<demux_socket, mtx, sock, trig, func, demux, owner, delivered,
                     wpc, held, fault>>

DispatchEvent(t) == \E s \in Sockets : DispatchOn(t, s)

\* demux.socket dereferenced while it is null or its handle was destroyed.
DispatchFault(t) ==
  \E s \in Sockets :
    /\ Running /\ wpc[t] = "dispatch" /\ IsNext(t, s)
    /\ snap[t][s] \cap Faulty # {} /\ BadSocket(s) # "none"
    /\ fault' = BadSocket(s)
    /\ UNCHANGED <<error, muxVars, mtx, opVars, waitVars, envVars>>

\* getsockopt fails otherwise: the exception leaves wait_for, its ready_queue is
\* destroyed and the tasks already moved to it are forgotten.
DispatchThrow(t) ==
  \E s \in Sockets :
    /\ "getsockopt" \in Throws
    /\ Running /\ wpc[t] = "dispatch" /\ IsNext(t, s)
    /\ snap[t][s] \cap Faulty # {} /\ BadSocket(s) = "none"
    /\ list' = [list EXCEPT ![s] = ClearEvent(@, snap[t][s])]
    /\ phase' = [o \in Ops |-> IF o \in ToSet(ready[t]) THEN "lost" ELSE phase[o]]
    /\ ready' = [ready EXCEPT ![t] = <<>>]
    /\ snap' = [snap EXCEPT ![t] = NoEvents]
    /\ mtx' = Nil
    /\ wpc' = [wpc EXCEPT ![t] = "out"]
    /\ UNCHANGED <<error, read_queue, write_queue, demux_socket, sock, trig, func,
                   demux, owner, delivered, envVars, fault>>

DispatchEnd(t) ==
  /\ Running
  /\ wpc[t] = "dispatch" /\ snap[t] = NoEvents
  /\ mtx' = Nil
  /\ wpc' = [wpc EXCEPT ![t] = "run"]
  /\ UNCHANGED <<error, muxVars, opVars, snap, ready, envVars, fault>>

\* run_queue: pop, execute; the completion then runs the program's code ("cont").
RunTask(t) ==
  /\ Running
  /\ wpc[t] \in {"run", "cont"} /\ ready[t] # <<>>
  /\ ~Busy(t)
  /\ Complete(Head(ready[t]))
  /\ ready' = [ready EXCEPT ![t] = Tail(@)]
  /\ wpc' = [wpc EXCEPT ![t] = "cont"]
  /\ UNCHANGED <<error, muxVars, mtx, sock, trig, func, demux, owner, snap, held>>

WaitReturn(t) ==
  /\ Running
  /\ wpc[t] \in {"run", "cont"} /\ ready[t] = <<>>
  /\ ~Busy(t)
  /\ wpc' = [wpc EXCEPT ![t] = "out"]
  /\ UNCHANGED <<error, muxVars, mtx, opVars, snap, ready, envVars, fault>>

-----------------------------------------------------------------------------
(* The kernel and the program's ownership of its sockets. *)

Raise(s, e) ==
  /\ Running
  /\ Alive(s) /\ e \notin rdy[s]
  /\ rdy' = [rdy EXCEPT ![s] = @ \cup {e}]
  /\ UNCHANGED <<error, muxVars, mtx, opVars, waitVars, held, fault>>

Release(s) ==
  /\ Running
  /\ held[s]
  /\ held' = [held EXCEPT ![s] = FALSE]
  /\ UNCHANGED <<error, muxVars, mtx, opVars, waitVars, rdy, fault>>

-----------------------------------------------------------------------------
Submit(t) == \E o \in Ops, s \in Sockets, g \in Triggers :
               Set(t, o, s, g, IF g = "EAGER" THEN "value" ELSE "io")

OpStep(t) == \E o \in Ops : \/ ConnectCheck(t, o) \/ ConnectRegister(t, o)
                            \/ StartInline(t, o) \/ StartCheck(t, o)
                            \/ StartEnqueue(t, o) \/ StartNull(t, o)

WaitStep(t) == \/ \E ivl \in Intervals : WaitCopy(t, ivl)
               \/ WaitPoll(t) \/ PollThrow(t) \/ WaitLock(t)
               \/ DispatchEvent(t) \/ DispatchFault(t) \/ DispatchThrow(t)
               \/ DispatchEnd(t) \/ RunTask(t) \/ WaitReturn(t)

\* What a thread does once it was told to: everything but new operations.
ThreadStep(t) == OpStep(t) \/ WaitStep(t)

Environment == \E s \in Sockets : Release(s) \/ \E e \in KernelEvents : Raise(s, e)

Crashed == ~Running /\ UNCHANGED vars

Next == \/ \E t \in Threads : Submit(t) \/ ThreadStep(t)
        \/ Environment
        \/ Crashed

Spec == Init /\ [][Next]_vars

\* A running thread takes its next step; the loop calls wait_for again.
LiveSpec == Spec /\ \A t \in Threads : WF_vars(ThreadStep(t))

-----------------------------------------------------------------------------
(* Properties. *)

\* The queue q of socket s and trigger g holds each of its operations once.
HoldsOnce(q, s, g) ==
  /\ IsInjective(q)
  /\ ToSet(q) = {o \in Ops : phase[o] = "queued" /\ sock[o] = s /\ trig[o] = g}

QueuesHold == \A s \in Sockets : /\ HoldsOnce(read_queue[s], s, "READ")
                                 /\ HoldsOnce(write_queue[s], s, "WRITE")

ReadyHolds == /\ \A t \in Threads : IsInjective(ready[t])
              /\ \A t, u \in Threads : t # u => ToSet(ready[t]) \cap ToSet(ready[u]) = {}
              /\ {o \in Ops : phase[o] = "ready"} = UNION {ToSet(ready[t]) : t \in Threads}

DeliveredOnce == \A o \in Ops : Len(delivered[o]) = IF phase[o] = "done" THEN 1 ELSE 0

\* Every started operation is in exactly one place: once on the queue of its own
\* socket and trigger, or once on the ready queue of one waiting thread; and its
\* receiver is called once when it is run and never before (push, move_back,
\* run_queue and complete, over all interleavings of the threads).
PlacedOnce == QueuesHold /\ ReadyHolds /\ DeliveredOnce

\* A queued operation's event is in the interest list whenever a thread is about
\* to copy it: clear_event only removes the interest of queues that
\* prepare_handles moves, and connect has registered it before start queues it.
Armed == \A o \in Ops : phase[o] = "queued" => Interest(trig[o]) \subseteq list[sock[o]]

\* The interest list asks only for events some operation still waits for; a
\* leftover would make wait_for report and handle the same event again.
NoStaleInterest ==
  \A s \in Sockets, g \in {"READ", "WRITE"} :
    Interest(g) \subseteq list[s] =>
      \E o \in Ops : /\ sock[o] = s /\ trig[o] = g
                     /\ phase[o] \in {"connected", "starting", "queued"}

\* No step dereferences a null or dangling pointer: start's demux, and the
\* demux.socket that prepare_handles reads on POLLERR and POLLNVAL.
NoFault == fault = "none"

\* p is a receive, send or accept on the socket of o that did not fail at once: it can
\* have taken what poll() reported for o, in its attempt or when it was run, and its
\* attempt can have put EAGAIN over the error that woke o.
Contends(p, o) == /\ p # o /\ sock[p] = sock[o]
                  /\ func[p] = IF trig[p] = "EAGER" THEN "value" ELSE "io"

\* A receiver is handed EAGAIN only if another operation contended for its socket: no
\* event runs the tasks of the wrong queue, no task is run for an event that is over,
\* and an error that poll() reported is on the handle when the tasks it woke are run.
NoWouldBlock ==
  \A o \in Ops : "would_block" \in ToSet(delivered[o]) => \E p \in Ops : Contends(p, o)

\* A queued operation whose socket is ready for it is completed in the end.
ReadyOpCompletes ==
  \A o \in Ops :
    (phase[o] = "queued" /\ rdy[sock[o]] \cap Interest(trig[o]) # {})
      ~> phase[o] = "done"

=============================================================================
