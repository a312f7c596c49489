-------------------------- MODULE AsyncOperations --------------------------
(***************************************************************************)
(* The asynchronous accept, connect, recvmsg and sendmsg of a              *)
(* socket_dialog, on the multiplexer they submit to.  accept, recvmsg and  *)
(* sendmsg first try the system call: on success the sender carries the    *)
(* result (EAGER), on a fatal error it carries an empty functor, because   *)
(* the error on the handle is expected to be delivered instead, and        *)
(* otherwise the call is left to the multiplexer.  Every time the fairness *)
(* counter wraps to zero the attempt is skipped.                           *)
(*                                                                         *)
(* accept and recvmsg differ in their results only.  The system call and   *)
(* the store of its errno are one step; error_ is read again in the next.  *)
(***************************************************************************)
EXTENDS PollMultiplexer

CONSTANTS
  Wrap,        \* the range of fairness::counter_type: 256 in the code
  Sequential   \* the program starts each sender before it makes the next one

ASSUME WrapAssumption == Wrap \in Nat \ {0, 1}
ASSUME SequentialAssumption == Sequential \in BOOLEAN

VARIABLE
  counter      \* fairness::counter(), one for all threads and sockets

asyncVars == <<vars, counter>>

\* The counter keeps its width.
AsyncTypeOK == TypeOK /\ counter \in 0 .. (Wrap - 1)

AsyncInit == Init /\ counter = 0

-----------------------------------------------------------------------------
\* The program has a dialog with a socket and, as SocketDialogs follows through
\* get_executor, with an executor that is still there.
CanIssue(t, o, s) ==
  /\ InProgram(t)
  /\ Sequential => ~Busy(t)
  /\ phase[o] = "new" /\ held[s]

Become(o, t, s, g, f, place) ==
  /\ phase' = [phase EXCEPT ![o] = place]
  /\ sock' = [sock EXCEPT ![o] = s]
  /\ trig' = [trig EXCEPT ![o] = g]
  /\ func' = [func EXCEPT ![o] = f]
  /\ owner' = [owner EXCEPT ![o] = t]

\* A plausible mistake: a counter that never wraps.
NextCountWider == counter + 1

NextCount == (counter + 1) % Wrap

\* The counter wrapped: the operation is left to the multiplexer untried.  That is
\* a turn for the multiplexer only if the handle holds no fatal error: else start()
\* completes the operation at once.
Defer(t, o, s, g) ==
  /\ CanIssue(t, o, s)
  /\ NextCount = 0
  /\ counter' = 0
  /\ Become(o, t, s, g, "io", "sender")
  /\ UNCHANGED <<error, muxVars, mtx, demux, delivered, waitVars, envVars, fault>>

\* The error a failed attempt leaves on the handle.
Errno(result) == IF result = "error" THEN "EFAIL" ELSE "EAGAIN"

Attempt(t, o, s, g) ==
  /\ CanIssue(t, o, s)
  /\ NextCount # 0
  /\ counter' = NextCount
  /\ \E out \in IoOutcomes(g, rdy[s]) :
       /\ rdy' = [rdy EXCEPT ![s] = @ \ out.used]
       /\ IF out.result = "value"
            THEN Become(o, t, s, "EAGER", "value", "sender") /\ UNCHANGED error
            ELSE /\ error' = [error EXCEPT ![s] = Errno(out.result)]
                 /\ Become(o, t, s, g, "io", "attempted")
  /\ UNCHANGED <<muxVars, mtx, demux, delivered, waitVars, held, fault>>

\* error_ is loaded again: fatal gives an empty functor, EAGAIN a lazy operation.
AfterFailure(t, o) ==
  /\ Running
  /\ phase[o] = "attempted" /\ owner[o] = t
  /\ IF error[sock[o]] = "EFAIL"
       THEN Become(o, t, sock[o], "EAGER", "empty", "sender")
       ELSE Become(o, t, sock[o], trig[o], "io", "sender")
  /\ UNCHANGED <<error, muxVars, mtx, demux, delivered, waitVars, envVars, fault, counter>>

\* connect: in progress, connected already or refused at once; the handler only
\* reports that the socket became writable.
ConnectSocket(t, o, s) ==
  /\ CanIssue(t, o, s)
  /\ error' \in {error, [error EXCEPT ![s] = "EFAIL"]}
  /\ Become(o, t, s, "WRITE", "value", "sender")
  /\ UNCHANGED <<muxVars, mtx, demux, delivered, waitVars, envVars, fault, counter>>

-----------------------------------------------------------------------------
\* The three operations that are tried first, by the trigger they fall back to.
Accept(t, o, s)  == Defer(t, o, s, "READ") \/ Attempt(t, o, s, "READ")
Recvmsg(t, o, s) == Defer(t, o, s, "READ") \/ Attempt(t, o, s, "READ")
Sendmsg(t, o, s) == Defer(t, o, s, "WRITE") \/ Attempt(t, o, s, "WRITE")

Issue(t) ==
  \E o \in Ops, s \in Sockets :
    Accept(t, o, s) \/ Recvmsg(t, o, s) \/ Sendmsg(t, o, s) \/ ConnectSocket(t, o, s)

AsyncThreadStep(t) ==
  \/ \E o \in Ops : AfterFailure(t, o)
  \/ ThreadStep(t) /\ UNCHANGED counter

\* After undefined behaviour there is no further step.
AsyncNext == \/ \E t \in Threads : Issue(t) \/ AsyncThreadStep(t)
             \/ Environment /\ UNCHANGED counter

AsyncSpec == AsyncInit /\ [][AsyncNext]_asyncVars

AsyncLiveSpec == AsyncSpec /\ \A t \in Threads : WF_asyncVars(AsyncThreadStep(t))

-----------------------------------------------------------------------------
\* What an attempt received, sent or accepted reaches the receiver: an eager
\* operation that succeeded completes with its value.
ValueReachesReceiver ==
  \A o \in Ops : phase[o] = "done" /\ trig[o] = "EAGER" /\ func[o] = "value" =>
    delivered[o] = <<"value">>

\* The error of an attempt reaches the receiver: the empty functor that stands for
\* it is never called, because the handle still holds the error at the start.
ErrorReachesReceiver ==
  \A o \in Ops : phase[o] = "done" /\ func[o] = "empty" => delivered[o] = <<"error">>

\* No queued operation stays queued for ever while its socket stays ready; a later
\* attempt may take what it waited for, but then the socket is not ready.
NotStuckReady ==
  \A o \in Ops :
    []<>~(phase[o] = "queued" /\ rdy[sock[o]] \cap Interest(trig[o]) # {})

=============================================================================
