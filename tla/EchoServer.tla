----------------------------- MODULE EchoServer -----------------------------
(***************************************************************************)
(* The echo server of examples/tcp_echo.cpp and the clients it serves, one *)
(* byte stream in each direction.  The server works through dialogs: an    *)
(* operation that it spawned is pending until the kernel can do it, and    *)
(* its then-handler spawns the next one.  A client is a program on the     *)
(* synchronous operations: it sends a message of several buffers, dropping *)
(* after every partial sendmsg what was taken, then receives into several  *)
(* buffers and walks them with an iterator.                                *)
(*                                                                         *)
(* The kernel takes or gives any number of bytes it has room or data for.  *)
(* The server has one thread; its pending operations complete in any order.*)
(***************************************************************************)
EXTENDS MessageBuffer, FiniteSets

CONSTANTS
  Clients,
  Ranges,      \* the buffers of the message of each client
  RecvRanges,  \* the buffers a client receives into
  BufferSize,  \* the bytes of the server's buffer: 1024 in the code
  Capacity,    \* the bytes the kernel holds in each direction
  MaxSignals,  \* how many signals interrupt a client's system calls
  Faults       \* what may fail: "setup", "fcntl", "accept", "reset"

ASSUME EchoAssumption ==
  /\ BufferSize \in Nat \ {0} /\ Capacity \in Nat \ {0} /\ MaxSignals \in Nat
  /\ Faults \subseteq {"setup", "fcntl", "accept", "reset"}
  /\ Ranges \in [Clients -> Seq([data : Nat, size : Nat, element : Nat])]
  /\ RecvRanges \in Seq([data : Nat, size : Nat, element : Nat])

\* The buffers a client receives into do not overlap.
ASSUME RecvAssumption ==
  LET at == Bytes(MakeBuffers(RecvRanges))
  IN  \A i, j \in DOMAIN at : at[i] = at[j] => i = j

VARIABLES
  main,        \* the call main() is in, or how it ended
  acceptor,    \* "called", "pending" or "ended": where acceptor() is
  conn,        \* per client: its connection, named for what is pending on it
  msg,         \* the message shared by reader() and writer()
  buf,         \* the bytes of the buffer shared by reader() and writer()
  up, down,    \* the bytes in the kernel from and to the client
  client,      \* what the client is doing
  outgoing,    \* the message the client still has to send
  incoming,    \* what a client's recvmsg put in its buffers: the bytes, and the walk
  signals,     \* signals that interrupted a client
  blocks,      \* history: what each recvmsg of the server received
  collected    \* history: what the client has read

serverVars == <<main, acceptor, conn, msg, buf, blocks>>
clientVars == <<client, outgoing, incoming, signals, collected>>
echoVars == <<serverVars, clientVars, up, down>>

Calls == <<"emplace", "setsockopt", "bind", "listen", "acceptor">>

Payload(c) == Bytes(MakeBuffers(Ranges[c]))
RecvBuffers == MakeBuffers(RecvRanges)
Padding == 0

\* The server's message stays inside its buffer.
EchoTypeOK ==
  /\ main \in Range(Calls) \cup {"loop", "returned", "terminated"}
  /\ acceptor \in {"none", "called", "pending", "ended"}
  /\ conn \in [Clients -> {"none", "backlog", "reading", "writing", "closed"}]
  /\ client \in [Clients -> {"idle", "sending", "receiving", "walking", "closed"}]
  /\ signals \in 0 .. MaxSignals
  /\ \A c \in Clients : /\ Len(up[c]) <= Capacity /\ Len(down[c]) <= Capacity
                         /\ Range(Iov(msg[c])) \subseteq DOMAIN buf[c]

EchoInit ==
  /\ main = "emplace" /\ acceptor = "none"
  /\ conn = [c \in Clients |-> "none"]
  /\ msg = [c \in Clients |-> SocketMessage(<<>>)]
  /\ buf = [c \in Clients |-> <<>>]
  /\ up = [c \in Clients |-> <<>>] /\ down = up
  /\ client = [c \in Clients |-> "idle"]
  /\ outgoing = [c \in Clients |-> SocketMessage(MakeBuffers(Ranges[c]))]
  /\ incoming = [c \in Clients |-> [bytes |-> <<>>, it |-> 0]]
  /\ signals = 0
  /\ blocks = [c \in Clients |-> <<>>] /\ collected = blocks

-----------------------------------------------------------------------------
(* The server.                                                             *)

\* main and make_server up to acceptor: a call that fails throws out of main.
MakeServer ==
  \E i \in 1 .. 4 :
    /\ main = Calls[i]
    /\ \/ main' = Calls[i + 1] /\ acceptor' = IF i = 4 THEN "called" ELSE "none"
       \/ "setup" \in Faults /\ main' = "terminated" /\ UNCHANGED acceptor
    /\ UNCHANGED <<conn, msg, buf, blocks, clientVars, up, down>>

\* A plausible mistake: the buffer of the last round is used again.
ReadingAgain(c) ==
  /\ conn' = [conn EXCEPT ![c] = "reading"]
  /\ buf' = [buf EXCEPT ![c] = IF @ = <<>> THEN [i \in 1 .. BufferSize |-> Padding] ELSE @]
  /\ msg' = [msg EXCEPT ![c] = SocketMessage(<<Buffer(1, BufferSize)>>)]

\* reader: a new message over a new buffer, which is filled with zeros.
Reading(c) ==
  /\ conn' = [conn EXCEPT ![c] = "reading"]
  /\ buf' = [buf EXCEPT ![c] = [i \in 1 .. BufferSize |-> Padding]]
  /\ msg' = [msg EXCEPT ![c] = SocketMessage(
               PushBack(<<>>, [data |-> 1, size |-> BufferSize, element |-> 1]))]

\* acceptor: accept is left to the multiplexer, because nobody is waiting or because
\* the fairness counter wrapped.
AcceptLater ==
  /\ acceptor = "called"
  /\ acceptor' = "pending"
  /\ main' = "loop"
  /\ UNCHANGED <<conn, msg, buf, blocks, clientVars, up, down>>

\* A plausible mistake: the handler does not call acceptor again.
AcceptsOnce(c) ==
  /\ acceptor \in {"called", "pending"} /\ conn[c] = "backlog"
  /\ Reading(c)
  /\ acceptor' = "none"
  /\ main' = "loop"
  /\ UNCHANGED <<blocks, clientVars, up, down>>

\* The then-handler of accept, at once or from the event loop.
Accepted(c) ==
  /\ acceptor \in {"called", "pending"} /\ conn[c] = "backlog"
  /\ Reading(c)
  /\ acceptor' = "called"
  /\ main' = "loop"
  /\ UNCHANGED <<blocks, clientVars, up, down>>

\* accept fails, for want of descriptors say: the error goes to error_handler.
AcceptFails ==
  /\ "accept" \in Faults
  /\ acceptor \in {"called", "pending"}
  /\ acceptor' = "ended"
  /\ main' = "loop"
  /\ UNCHANGED <<conn, msg, buf, blocks, clientVars, up, down>>

\* executor->push throws for the new socket, which is closed.  An eager accept throws
\* out of acceptor(): in a then-handler that is an error like any other, in main it
\* is not caught.  The handler of a pending accept is noexcept.
PushFails(c) ==
  /\ "fcntl" \in Faults
  /\ acceptor \in {"called", "pending"} /\ conn[c] = "backlog"
  /\ conn' = [conn EXCEPT ![c] = "closed"]
  /\ IF acceptor = "pending" \/ main = "acceptor"
       THEN main' = "terminated" /\ UNCHANGED acceptor
       ELSE acceptor' = "ended" /\ UNCHANGED main
  /\ UNCHANGED <<msg, buf, blocks, clientVars, up, down>>

\* A plausible mistake: recvmsg waits until the buffer is full.
ReadsFull(c) ==
  /\ conn[c] = "reading" /\ Len(up[c]) >= BufferSize
  /\ buf' = [buf EXCEPT ![c] = SubSeq(up[c], 1, BufferSize)]
  /\ blocks' = [blocks EXCEPT ![c] = Append(@, SubSeq(up[c], 1, BufferSize))]
  /\ up' = [up EXCEPT ![c] = SubSeq(@, BufferSize + 1, Len(@))]
  /\ conn' = [conn EXCEPT ![c] = "writing"]
  /\ UNCHANGED <<main, acceptor, msg, down, clientVars>>

\* The then-handler of recvmsg with len > 0: writer is called with the whole message.
ReadSome(c) ==
  /\ conn[c] = "reading"
  /\ \E k \in 1 .. Len(up[c]) :
       /\ k <= Len(Iov(msg[c]))
       /\ buf' = [buf EXCEPT ![c] =
                    [i \in DOMAIN @ |-> IF i <= k THEN up[c][i] ELSE @[i]]]
       /\ blocks' = [blocks EXCEPT ![c] = Append(@, SubSeq(up[c], 1, k))]
       /\ up' = [up EXCEPT ![c] = SubSeq(@, k + 1, Len(@))]
  /\ conn' = [conn EXCEPT ![c] = "writing"]
  /\ UNCHANGED <<main, acceptor, msg, down, clientVars>>

\* recvmsg returned 0: the handler returns, and the dialog closes the socket.
ReadEnd(c) ==
  /\ conn[c] = "reading" /\ client[c] = "closed" /\ up[c] = <<>>
  /\ conn' = [conn EXCEPT ![c] = "closed"]
  /\ UNCHANGED <<main, acceptor, msg, buf, blocks, clientVars, up, down>>

\* recvmsg or sendmsg failed: error_handler, and the dialog closes the socket.
ConnectionFails(c) ==
  /\ conn[c] \in {"reading", "writing"}
  /\ client[c] = "closed" \/ "reset" \in Faults
  /\ conn' = [conn EXCEPT ![c] = "closed"]
  /\ UNCHANGED <<main, acceptor, msg, buf, blocks, clientVars, up, down>>

\* What is left to send in the server's buffer.
Unsent(c) == LET at == Iov(msg[c]) IN [i \in DOMAIN at |-> buf[c][at[i]]]

\* The then-handler of sendmsg: write on if something is left, else read.
WriteSome(c) ==
  /\ conn[c] = "writing"
  /\ \E k \in 1 .. Len(Unsent(c)) :
       /\ Len(down[c]) + k <= Capacity
       /\ down' = [down EXCEPT ![c] = @ \o SubSeq(Unsent(c), 1, k)]
       /\ LET left == PlusAssign(msg[c].buffers, k)
          IN IF IsEmpty(left)
               THEN Reading(c)
               ELSE msg' = [msg EXCEPT ![c].buffers = left] /\ UNCHANGED <<conn, buf>>
  /\ UNCHANGED <<main, acceptor, blocks, up, clientVars>>

\* wait() found nothing to wait for, and main returns.
MainReturns ==
  /\ main = "loop" /\ acceptor = "ended"
  /\ \A c \in Clients : conn[c] \notin {"reading", "writing"}
  /\ main' = "returned"
  /\ UNCHANGED <<acceptor, conn, msg, buf, blocks, clientVars, up, down>>

Serving == main \notin {"returned", "terminated"}

ServerStep(c) == Serving /\ (ReadSome(c) \/ ReadEnd(c) \/ WriteSome(c))
AcceptStep(c) == Serving /\ (Accepted(c) \/ PushFails(c))

-----------------------------------------------------------------------------
(* The clients.                                                            *)

Connect(c) ==
  /\ client[c] = "idle" /\ conn[c] = "none"
  /\ main \in {"acceptor", "loop"}
  /\ client' = [client EXCEPT ![c] = IF IsEmpty(outgoing[c].buffers) THEN "receiving" ELSE "sending"]
  /\ conn' = [conn EXCEPT ![c] = "backlog"]
  /\ UNCHANGED <<main, acceptor, msg, buf, blocks, outgoing, incoming, signals, collected, up, down>>

\* EINTR: the loops in sendmsg and recvmsg call again with the same header.
Interrupted(c) ==
  /\ client[c] \in {"sending", "receiving"}
  /\ signals < MaxSignals
  /\ signals' = signals + 1
  /\ UNCHANGED <<serverVars, client, outgoing, incoming, collected, up, down>>

\* One sendmsg and the buffers += that follows it.
ClientSends(c) ==
  /\ client[c] = "sending" /\ conn[c] # "closed"
  /\ \E k \in 1 .. Len(Iov(outgoing[c])) :
       /\ Len(up[c]) + k <= Capacity
       /\ up' = [up EXCEPT ![c] = @ \o SubSeq(Iov(outgoing[c]), 1, k)]
       /\ outgoing' = [outgoing EXCEPT ![c].buffers = PlusAssign(@, k)]
  /\ client' = [client EXCEPT ![c] = IF IsEmpty(outgoing'[c].buffers) THEN "receiving" ELSE @]
  /\ UNCHANGED <<serverVars, incoming, signals, collected, down>>

ClientReceives(c) ==
  /\ client[c] = "receiving"
  /\ \E k \in 1 .. Len(down[c]) :
       /\ k <= Len(Bytes(RecvBuffers))
       /\ incoming' = [incoming EXCEPT ![c] =
                         [bytes |-> SubSeq(down[c], 1, k), it |-> Begin(RecvBuffers)]]
       /\ down' = [down EXCEPT ![c] = SubSeq(@, k + 1, Len(@))]
  /\ client' = [client EXCEPT ![c] = "walking"]
  /\ UNCHANGED <<serverVars, outgoing, signals, collected, up>>

\* The byte that recvmsg put at an address: it fills the buffers in their order.
Stored(c, at) ==
  incoming[c].bytes[CHOOSE i \in DOMAIN incoming[c].bytes : Bytes(RecvBuffers)[i] = at]

\* The received bytes that lie in the buffer the iterator is at.
InBuffer(c) ==
  LET span == Deref(RecvBuffers, incoming[c].it)
      filled == {Bytes(RecvBuffers)[i] : i \in DOMAIN incoming[c].bytes}
  IN  [i \in {j \in DOMAIN span : span[j] \in filled} |-> Stored(c, span[i])]

\* One turn of the loop over the buffers, which ends at end().
ClientWalks(c) ==
  /\ client[c] = "walking"
  /\ IF Same(incoming[c].it, End(RecvBuffers))
       THEN /\ client' = [client EXCEPT ![c] = "receiving"]
            /\ UNCHANGED <<incoming, collected>>
       ELSE /\ collected' = [collected EXCEPT ![c] = @ \o InBuffer(c)]
            /\ incoming' = [incoming EXCEPT ![c].it = Increment(@)]
            /\ UNCHANGED client
  /\ UNCHANGED <<serverVars, outgoing, signals, up, down>>

\* A client may leave at any time; it must when the server closed the connection.
ClientCloses(c) ==
  /\ client[c] \in {"sending", "receiving"}
  /\ client' = [client EXCEPT ![c] = "closed"]
  /\ UNCHANGED <<serverVars, outgoing, incoming, signals, collected, up, down>>

ClientStep(c) == ClientSends(c) \/ ClientReceives(c) \/ ClientWalks(c)

EchoNext ==
  \/ MakeServer \/ (Serving /\ (AcceptLater \/ AcceptFails)) \/ MainReturns
  \/ \E c \in Clients :
       \/ AcceptStep(c) \/ ServerStep(c) \/ (Serving /\ ConnectionFails(c))
       \/ Connect(c) \/ Interrupted(c) \/ ClientStep(c) \/ ClientCloses(c)

EchoSpec ==
  /\ EchoInit /\ [][EchoNext]_echoVars
  /\ \A c \in Clients : WF_echoVars(ServerStep(c)) /\ WF_echoVars(AcceptStep(c))
                        /\ WF_echoVars(ClientStep(c))

-----------------------------------------------------------------------------
\* Whatever the kernel takes at a time, operator+= of the client's message neither
\* skips nor repeats a byte: what the server received, what is under way and what is
\* still to be sent make up the payload.
NothingLost ==
  \A c \in Clients :
    FlattenSeq(blocks[c]) \o up[c] \o Iov(outgoing[c]) = Payload(c)

Pad(block) == block \o [i \in 1 .. (BufferSize - Len(block)) |-> Padding]

\* The bytes a client received and has not walked over yet.
Unwalked(c) ==
  IF client[c] # "walking" THEN <<>>
  ELSE LET before == Len(Bytes(SubSeq(RecvBuffers, 1, incoming[c].it)))
       IN SubSeq(incoming[c].bytes, before + 1, Len(incoming[c].bytes))

\* What comes back over an open connection are the blocks the server received, in
\* order and each filled up with zeros to the size of its buffer, because writer is
\* given the whole message: partial sends and the next reader lose and repeat nothing.
\* That the zeros come back too is not what the example promises: EchoIsReceived.
EchoIsPadded ==
  \A c \in Clients :
    conn[c] \in {"reading", "writing"} /\ client[c] # "closed" =>
      collected[c] \o Unwalked(c) \o down[c] \o (IF conn[c] = "writing" THEN Unsent(c) ELSE <<>>)
        = FlattenSeq([i \in DOMAIN blocks[c] |-> Pad(blocks[c][i])])

\* The server echoes back the data it receives: what a client has read is the
\* beginning of what the server received from it, and nothing else.
EchoIsReceived == \A c \in Clients : IsPrefix(collected[c], FlattenSeq(blocks[c]))

\* The client sends before it reads, the server writes before it reads, and neither
\* has room: they wait for each other until one of them closes.
Standoff(c) ==
  /\ client[c] = "sending" /\ conn[c] = "writing"
  /\ Len(up[c]) = Capacity /\ Len(down[c]) = Capacity

\* A connection the server reads from brings the client all of its payload back (with
\* the padding, which is left out here), unless the two end in a standoff, one of
\* them closes or the server ends.
EchoArrives ==
  \A c \in Clients :
    conn[c] = "reading" ~>
      \/ SelectSeq(collected[c], LAMBDA b : b # Padding) = Payload(c)
      \/ Standoff(c)
      \/ conn[c] = "closed" \/ client[c] = "closed" \/ ~Serving

\* Every client in the backlog is accepted, or accept has failed once for good.
BacklogDrains ==
  \A c \in Clients :
    conn[c] = "backlog" ~> conn[c] # "backlog" \/ acceptor = "ended" \/ ~Serving

=============================================================================
