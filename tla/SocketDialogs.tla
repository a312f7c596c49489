--------------------------- MODULE SocketDialogs ----------------------------
(***************************************************************************)
(* The objects a program holds (basic_triggers, socket_dialog) and the     *)
(* system calls it makes through them, in one thread.  Triggers share the  *)
(* ownership of an executor, dialogs refer to it weakly and share their    *)
(* socket; an operation state shares the socket, and keeps the executor    *)
(* alive only if its handler captured it, which the handler of accept      *)
(* does.  connect may be interrupted, and reports a connection that is in  *)
(* progress as an error.                                                   *)
(*                                                                         *)
(* A program of the kind the examples are: it starts a sender at once.  It *)
(* may let triggers go at any time; operations on an executor that no      *)
(* triggers own any more stay where they are, as nothing can wait on it.   *)
(***************************************************************************)
EXTENDS Naturals, Sequences

CONSTANTS
  Triggers, Executors, Dialogs, Sockets, Ops,
  Addresses,   \* addresses a program has the bytes of
  AddrSize,    \* sizeof(Addr) of socket_address<Addr>
  Nil

ASSUME DialogAssumption ==
  /\ \A a \in Addresses : a \in Seq(Nat) /\ Len(a) \in 1 .. AddrSize
  /\ AddrSize \in Nat
  /\ Nil \notin Executors /\ Nil \notin Sockets
  /\ Nil \notin {"accept", "connect", "recvmsg", "sendmsg"}

VARIABLES
  executor_,   \* per basic_triggers: the executor it shares, Nil when moved from
  dialog,      \* per socket_dialog: its weak executor and its socket
  op,          \* the operations: started and not completed, or not in use
  kernel,      \* per descriptor: its name, its connection and its flags
  error,       \* error_ of the handle of each socket
  calling      \* the operation whose connect() is in the kernel, with its dialog

dialogVars == <<executor_, dialog, op, kernel, error, calling>>

NoDialog == [executor |-> Nil, socket |-> Nil]
NoOp == [kind |-> Nil, executor |-> Nil, socket |-> Nil]
NewSocket == [name |-> <<>>, conn |-> "idle", flags |-> {}]
Names == Addresses \cup {[i \in 1 .. AddrSize |-> 0]}    \* what sockets are bound to
Kinds == {"accept", "connect", "recvmsg", "sendmsg"}

DialogTypeOK ==
  /\ executor_ \in [Triggers -> Executors \cup {Nil}]
  /\ dialog \in [Dialogs -> [executor : Executors \cup {Nil}, socket : Sockets \cup {Nil}]]
  /\ op \in [Ops -> [kind : Kinds, executor : Executors, socket : Sockets] \cup {NoOp}]
  /\ kernel \in [Sockets -> [name : Names \cup {<<>>}, flags : SUBSET {"O_NONBLOCK"},
                             conn : {"idle", "listening", "connecting", "connected", "refused"}]]
  /\ error \in [Sockets -> {Nil, "EFAIL"}]
  /\ calling \in (Ops \X Dialogs) \cup {Nil}

DialogInit ==
  /\ executor_ = [g \in Triggers |-> Nil]
  /\ dialog = [d \in Dialogs |-> NoDialog]
  /\ op = [o \in Ops |-> NoOp]
  /\ kernel = [s \in Sockets |-> NewSocket]
  /\ error = [s \in Sockets |-> Nil]
  /\ calling = Nil

-----------------------------------------------------------------------------
(* socket_option and socket_address: a storage of fixed size, of which the *)
(* first size_ bytes count.                                                *)

\* From a span, which is copied to the front of a storage of zeros.
Option(bytes) ==
  [storage |-> [i \in 1 .. AddrSize |-> IF i <= Len(bytes) THEN bytes[i] ELSE 0],
   size_ |-> Len(bytes)]

\* make_address() without an argument: the whole storage, of zeros.
MakeAddress == [storage |-> [i \in 1 .. AddrSize |-> 0], size_ |-> AddrSize]

\* A plausible mistake: end() is the end of the storage.
AsStorage(option) == option.storage

\* begin() to end(): what is passed to a system call.
AsSpan(option) == SubSeq(option.storage, 1, option.size_)

-----------------------------------------------------------------------------
(* Ownership.                                                              *)

\* The handler of accept captures the shared pointer, for push.
Pins(o, e) == op[o].kind = "accept" /\ op[o].executor = e

\* An executor lives while a shared pointer to it does; weak pointers expire with it.
Living(e) == (\E g \in Triggers : executor_[g] = e) \/ (\E o \in Ops : Pins(o, e))

\* A descriptor is open while a dialog or an operation state shares its handle.
Open(s) == (\E d \in Dialogs : dialog[d].socket = s) \/ (\E o \in Ops : op[o].socket = s)

\* scope_: every sender of set is nested in it, and active until it completes.
Active(e) == {o \in Ops : op[o].executor = e}

Idle == calling = Nil

-----------------------------------------------------------------------------
(* basic_triggers.                                                         *)

\* The constructor makes an executor: one that nothing refers to.
Construct(g, e) ==
  /\ Idle /\ executor_[g] = Nil
  /\ ~Living(e) /\ Active(e) = {} /\ \A d \in Dialogs : dialog[d].executor # e
  /\ executor_' = [executor_ EXCEPT ![g] = e]
  /\ UNCHANGED <<dialog, op, kernel, error, calling>>

\* Move construction and move assignment; the target releases its executor, whatever is
\* active in it.
Move(g, h) ==
  /\ Idle /\ g # h /\ executor_[h] # Nil
  /\ executor_' = [executor_ EXCEPT ![g] = executor_[h], ![h] = Nil]
  /\ UNCHANGED <<dialog, op, kernel, error, calling>>

\* The destructor: defaulted, and does not wait for what is active.  (Without assertions;
\* exec::async_scope asserts in its destructor that nothing is.)
Destroy(g) ==
  /\ Idle /\ executor_[g] # Nil
  /\ executor_' = [executor_ EXCEPT ![g] = Nil]
  /\ UNCHANGED <<dialog, op, kernel, error, calling>>

\* fcntl with F_SETFL.
Fcntl(descriptor, flags) == [descriptor EXCEPT !.flags = flags]

\* A plausible mistake: the descriptor stays as socket() or accept() made it.
PushAsIs(s, descriptor) == kernel' = [kernel EXCEPT ![s] = descriptor]

\* executor::push: F_GETFL, then F_SETFL with O_NONBLOCK added.
Push(s, descriptor) ==
  kernel' = [kernel EXCEPT ![s] = Fcntl(descriptor, descriptor.flags \cup {"O_NONBLOCK"})]

\* emplace: a socket_handle from socket(), then push.  A failed call throws, the
\* handle closes its descriptor, and nothing is left.
Emplace(g, d, s) ==
  /\ Idle /\ executor_[g] # Nil
  /\ dialog[d] = NoDialog /\ ~Open(s)
  /\ Push(s, NewSocket)
  /\ dialog' = [dialog EXCEPT ![d] = [executor |-> executor_[g], socket |-> s]]
  /\ error' = [error EXCEPT ![s] = Nil]
  /\ UNCHANGED <<executor_, op, calling>>

-----------------------------------------------------------------------------
(* socket_dialog: a pair of pointers that is copied and dropped freely.    *)

CopyDialog(d, other) ==
  /\ Idle /\ dialog[d] = NoDialog /\ dialog[other] # NoDialog
  /\ dialog' = [dialog EXCEPT ![d] = dialog[other]]
  /\ UNCHANGED <<executor_, op, kernel, error, calling>>

DropDialog(d) ==
  /\ Idle /\ dialog[d] # NoDialog
  /\ dialog' = [dialog EXCEPT ![d] = NoDialog]
  /\ UNCHANGED <<executor_, op, kernel, error, calling>>

-----------------------------------------------------------------------------
(* The system calls of a socket.  One that fails changes nothing.          *)

\* bind passes the bytes of the address that count; a second bind fails.
SocketBind(s, address) ==
  kernel[s].name = <<>> /\ kernel' = [kernel EXCEPT ![s].name = AsSpan(address)]

SocketListen(s) ==
  kernel[s].conn = "idle" /\ kernel' = [kernel EXCEPT ![s].conn = "listening"]

SocketShutdown(s) ==
  kernel[s].conn = "connected" /\ kernel' = [kernel EXCEPT ![s].conn = "idle"]

\* What accept() returns: a socket with the name of the listening one and without its
\* flags.
SocketAccept(s) == [NewSocket EXCEPT !.name = kernel[s].name, !.conn = "connected"]

\* getsockopt of SO_ERROR, which takes the error of a failed connect away.
SocketOption(s) ==
  kernel[s].conn = "refused" /\ kernel' = [kernel EXCEPT ![s].conn = "idle"]

-----------------------------------------------------------------------------
(* What a dialog forwards to its socket.                                   *)

CanCall(d) == Idle /\ dialog[d].socket # Nil

Bind(d, address) ==
  /\ CanCall(d) /\ SocketBind(dialog[d].socket, address)
  /\ UNCHANGED <<executor_, dialog, op, error, calling>>

Listen(d) ==
  /\ CanCall(d) /\ SocketListen(dialog[d].socket)
  /\ UNCHANGED <<executor_, dialog, op, error, calling>>

Shutdown(d) ==
  /\ CanCall(d) /\ SocketShutdown(dialog[d].socket)
  /\ UNCHANGED <<executor_, dialog, op, error, calling>>

Getsockopt(d) ==
  /\ CanCall(d) /\ SocketOption(dialog[d].socket)
  /\ UNCHANGED <<executor_, dialog, op, error, calling>>

-----------------------------------------------------------------------------
(* The asynchronous operations, as far as ownership goes.                  *)

\* get_executor: locks the weak pointer, throws when it has expired.
GetExecutor(d) == dialog[d].executor # Nil /\ Living(dialog[d].executor)

Submit(o, d, kind) ==
  op' = [op EXCEPT ![o] = [kind |-> kind, executor |-> dialog[d].executor,
                           socket |-> dialog[d].socket]]

Start(o, d, kind) ==
  /\ CanCall(d) /\ op[o] = NoOp /\ GetExecutor(d)
  /\ kind \in {"accept", "recvmsg", "sendmsg"}
  /\ Submit(o, d, kind)
  /\ UNCHANGED <<executor_, dialog, kernel, error, calling>>

\* connect() is called, and again after every signal.
ConnectCalls(o, d) ==
  /\ CanCall(d) /\ op[o] = NoOp /\ GetExecutor(d)
  /\ calling' = <<o, d>>
  /\ UNCHANGED <<executor_, dialog, op, kernel, error>>

\* What connect() answers, and the connection that it leaves.  EAGAIN is the answer
\* of a local socket whose peer has no room.
ConnectAnswers(conn) ==
  CASE conn = "idle"       -> {<<"ok", "connected">>, <<"EINPROGRESS", "connecting">>,
                               <<"EINTR", "connecting">>, <<"EAGAIN", "idle">>,
                               <<"ECONNREFUSED", "idle">>}
    [] conn = "connecting" -> {<<"EALREADY", "connecting">>}
    [] conn = "connected"  -> {<<"EISCONN", "connected">>}
    [] conn = "listening"  -> {<<"EISCONN", "listening">>}
    [] conn = "refused"    -> {<<"ECONNREFUSED", "idle">>}

\* A plausible mistake: only the first call can be in progress.
InProgressOnce == {"EINPROGRESS", "EAGAIN"}

\* The errors handle_connect_error lets pass.
InProgress == {"EINPROGRESS", "EAGAIN", "EALREADY", "EISCONN"}

ConnectReturns ==
  /\ calling # Nil
  /\ LET o == calling[1]  d == calling[2]  s == dialog[d].socket
     IN \E answer \in ConnectAnswers(kernel[s].conn) :
          /\ kernel' = [kernel EXCEPT ![s].conn = answer[2]]
          /\ IF answer[1] = "EINTR"
               THEN UNCHANGED <<op, error, calling>>
               ELSE /\ error' = [error EXCEPT ![s] =
                                   IF answer[1] \in InProgress \cup {"ok"} THEN @ ELSE "EFAIL"]
                    /\ Submit(o, d, "connect")
                    /\ calling' = Nil
  /\ UNCHANGED <<executor_, dialog>>

\* The kernel ends an attempt to connect, also while the program is in the call.
Settle(s) ==
  /\ Open(s) /\ kernel[s].conn = "connecting"
  /\ \E conn \in {"connected", "refused"} : kernel' = [kernel EXCEPT ![s].conn = conn]
  /\ UNCHANGED <<executor_, dialog, op, error, calling>>

\* wait_for on triggers that share the executor completes an operation.
Complete(g, o) ==
  /\ Idle /\ op[o].kind \in Kinds \ {"accept"} /\ op[o].executor = executor_[g]
  /\ op' = [op EXCEPT ![o] = NoOp]
  /\ UNCHANGED <<executor_, dialog, kernel, error, calling>>

\* accept completes: the new socket is pushed, and returned as a dialog of the executor
\* the handler captured.
CompleteAccept(g, o, d, s) ==
  /\ Idle /\ op[o].kind = "accept" /\ op[o].executor = executor_[g]
  /\ kernel[op[o].socket].conn = "listening"
  /\ dialog[d] = NoDialog /\ ~Open(s)
  /\ Push(s, SocketAccept(op[o].socket))
  /\ dialog' = [dialog EXCEPT ![d] = [executor |-> op[o].executor, socket |-> s]]
  /\ error' = [error EXCEPT ![s] = Nil]
  /\ op' = [op EXCEPT ![o] = NoOp]
  /\ UNCHANGED <<executor_, calling>>

DialogNext ==
  \/ \E g \in Triggers, e \in Executors : Construct(g, e)
  \/ \E g, h \in Triggers : Move(g, h)
  \/ \E g \in Triggers : Destroy(g)
  \/ \E g \in Triggers, d \in Dialogs, s \in Sockets : Emplace(g, d, s)
  \/ \E d, other \in Dialogs : CopyDialog(d, other)
  \/ \E d \in Dialogs : DropDialog(d) \/ Listen(d) \/ Shutdown(d) \/ Getsockopt(d)
  \/ \E d \in Dialogs, address \in {Option(a) : a \in Addresses} \cup {MakeAddress} : Bind(d, address)
  \/ \E o \in Ops, d \in Dialogs, kind \in Kinds : Start(o, d, kind)
  \/ \E o \in Ops, d \in Dialogs : ConnectCalls(o, d)
  \/ ConnectReturns
  \/ \E s \in Sockets : Settle(s)
  \/ \E g \in Triggers, o \in Ops : Complete(g, o)
  \/ \E g \in Triggers, o \in Ops, d \in Dialogs, s \in Sockets :
       CompleteAccept(g, o, d, s)

DialogSpec == DialogInit /\ [][DialogNext]_dialogVars

-----------------------------------------------------------------------------
\* No system call that the event loop makes blocks it: every socket an operation or a
\* dialog holds was made non-blocking, accepted ones too.
NeverBlocks == \A s \in Sockets : Open(s) => "O_NONBLOCK" \in kernel[s].flags

\* connect stores an error on the handle only for an attempt that is over: a retry
\* after a signal, or a second connect, does not blame a connection that is being
\* made or was made.
BlamesFailuresOnly ==
  [][\A s \in Sockets :
       error[s] = Nil /\ error'[s] # Nil => kernel'[s].conn \notin {"connecting", "connected"}]_dialogVars

=============================================================================
