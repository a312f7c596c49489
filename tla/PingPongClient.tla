--------------------------- MODULE PingPongClient ---------------------------
(***************************************************************************)
(* AsyncPingPongClient of examples/async_ping_pong_client.cpp: connect,    *)
(* then send a ping, wait for a pong, and so on until ping_count pongs     *)
(* were counted.  Each handler spawns the next operation with a copy of    *)
(* the sequence number; the handlers of errors do nothing.  run() calls    *)
(* wait() until both counters have reached ping_count.                     *)
(*                                                                         *)
(* The peer is external: it answers every read of pings with one pong.     *)
(***************************************************************************)
EXTENDS Naturals, Sequences, SequencesExt, FiniteSets

CONSTANTS
  ping_count,
  Ping, Pong,  \* the two messages, as sequences of bytes
  PongBuffer,  \* the size of pong_buf: 256 in the code
  Capacity,    \* the bytes the kernel holds in each direction
  Faults       \* what may happen: "refused", "reset", "close", "split"

ASSUME PingAssumption ==
  /\ ping_count \in Nat \ {0} /\ Capacity \in Nat /\ PongBuffer \in Nat
  /\ Ping \in Seq(0 .. 255) /\ Pong \in Seq(0 .. 255)
  /\ Len(Ping) \in 1 .. Capacity /\ Len(Pong) \in 1 .. Capacity /\ Len(Pong) <= PongBuffer
  /\ Faults \subseteq {"refused", "reset", "close", "split"}

VARIABLES
  run,             \* "loop" or "returned"
  scope,           \* the operations spawned and not completed, with their sequence
  pings_sent, pongs_received,
  sent, received,  \* the bytes in the kernel, to and from the peer
  peer,            \* "open", or "closed" for writing
  trouble          \* history: one of the Faults has happened

pingVars == <<run, scope, pings_sent, pongs_received, sent, received, peer, trouble>>

Operation(kind, sequence) == [kind |-> kind, sequence |-> sequence]
Operations == [kind : {"connect", "sendmsg", "recvmsg"}, sequence : 0 .. ping_count]

\* Counters are compared with ping_count only and saturate beyond it.
Count(n) == IF n <= ping_count THEN n + 1 ELSE n

PingTypeOK ==
  /\ run \in {"loop", "returned"}
  /\ scope \subseteq Operations
  /\ pings_sent \in 0 .. ping_count + 1 /\ pongs_received \in 0 .. ping_count + 1
  /\ Len(sent) <= Capacity /\ Len(received) <= Capacity
  /\ peer \in {"open", "closed"} /\ trouble \in BOOLEAN

\* run() up to its loop: connect is spawned.
PingInit ==
  /\ run = "loop"
  /\ scope = {Operation("connect", 0)}
  /\ pings_sent = 0 /\ pongs_received = 0
  /\ sent = <<>> /\ received = <<>>
  /\ peer = "open" /\ trouble = FALSE

-----------------------------------------------------------------------------
\* An operation completes, and its handler spawns what follows.
Completes(op, next) == op \in scope /\ scope' = (scope \ {op}) \cup next

\* A plausible mistake: the end of the sequence is not looked at.
StartAlways(sequence) == {Operation("sendmsg", sequence)}

\* start_ping_pong, and send_ping unless the sequence has reached its end.
StartPingPong(sequence) ==
  IF sequence < ping_count THEN {Operation("sendmsg", sequence)} ELSE {}

Connected(op) ==
  /\ op.kind = "connect" /\ run = "loop"
  /\ Completes(op, StartPingPong(0))
  /\ UNCHANGED <<run, pings_sent, pongs_received, sent, received, peer, trouble>>

\* A plausible mistake: the wait for a pong is spawned together with the next ping.
PingSentEarly(op) ==
  /\ op.kind = "sendmsg" /\ run = "loop"
  /\ \E k \in 1 .. Len(Ping) :
       Len(sent) + k <= Capacity /\ sent' = sent \o SubSeq(Ping, 1, k)
  /\ pings_sent' = Count(pings_sent)
  /\ Completes(op, {Operation("recvmsg", op.sequence)} \cup StartPingPong(op.sequence + 1))
  /\ UNCHANGED <<run, pongs_received, received, peer, trouble>>

\* The kernel takes what it has room for; the handler does not look how much it was.
PingSent(op) ==
  /\ op.kind = "sendmsg" /\ run = "loop"
  /\ \E k \in 1 .. Len(Ping) :
       Len(sent) + k <= Capacity /\ sent' = sent \o SubSeq(Ping, 1, k)
  /\ pings_sent' = Count(pings_sent)
  /\ Completes(op, {Operation("recvmsg", op.sequence)})
  /\ UNCHANGED <<run, pongs_received, received, peer, trouble>>

\* message.find("pong")
HasPong(bytes) == \E i \in 1 .. Len(bytes) : IsPrefix(Pong, SubSeq(bytes, i, Len(bytes)))

\* Plausible mistakes: the sequence moves on without a pong, or the pong is not counted.
HandledAnyway(sequence, bytes) ==
  [pongs |-> IF HasPong(bytes) THEN Count(pongs_received) ELSE pongs_received, next |-> sequence + 1]

HandledUncounted(sequence, bytes) ==
  [pongs |-> pongs_received, next |-> IF HasPong(bytes) THEN sequence + 1 ELSE sequence]

\* The handler of wait_for_pong, up to schedule_next_ping.
Handled(sequence, bytes) ==
  IF HasPong(bytes) THEN [pongs |-> Count(pongs_received), next |-> sequence + 1]
                    ELSE [pongs |-> pongs_received, next |-> sequence]

\* recvmsg returns what has arrived, nothing when the peer has closed.  The sequence
\* goes on to start_ping_pong after a delay.
PongReceived(op) ==
  /\ op.kind = "recvmsg" /\ run = "loop"
  /\ received # <<>> \/ peer = "closed"
  /\ LET taken == SubSeq(received, 1, IF Len(received) < PongBuffer THEN Len(received) ELSE PongBuffer)
         after == Handled(op.sequence, taken)
     IN /\ received' = SubSeq(received, Len(taken) + 1, Len(received))
        /\ pongs_received' = after.pongs
        /\ Completes(op, StartPingPong(after.next))
  /\ UNCHANGED <<run, pings_sent, sent, peer, trouble>>

\* The operation failed; upon_error swallows the error, and nothing follows.
Failed(op) ==
  /\ op.kind = "connect" => "refused" \in Faults
  /\ op.kind # "connect" => "reset" \in Faults
  /\ run = "loop"
  /\ Completes(op, {})
  /\ trouble' = TRUE
  /\ UNCHANGED <<run, pings_sent, pongs_received, sent, received, peer>>

\* The loop condition of run().
RunReturns ==
  /\ run = "loop"
  /\ pings_sent >= ping_count /\ pongs_received >= ping_count
  /\ run' = "returned"
  /\ UNCHANGED <<scope, pings_sent, pongs_received, sent, received, peer, trouble>>

Client == RunReturns \/ \E op \in scope : Connected(op) \/ PingSent(op) \/ PongReceived(op)

-----------------------------------------------------------------------------
(* The peer and the kernel.                                                *)

PeerAnswers ==
  /\ sent # <<>> /\ peer = "open" /\ Len(received) + Len(Pong) <= Capacity
  /\ sent' = <<>>
  /\ received' = received \o Pong
  /\ UNCHANGED <<run, scope, pings_sent, pongs_received, peer, trouble>>

\* The pong comes in two segments, and a read sees the first one only.
PongSplit(op) ==
  /\ "split" \in Faults
  /\ op.kind = "recvmsg" /\ run = "loop"
  /\ \E k \in 1 .. (Len(received) - 1) :
       LET after == Handled(op.sequence, SubSeq(received, 1, k))
       IN /\ received' = SubSeq(received, k + 1, Len(received))
          /\ pongs_received' = after.pongs
          /\ Completes(op, StartPingPong(after.next))
  /\ trouble' = TRUE
  /\ UNCHANGED <<run, pings_sent, sent, peer>>

\* The peer stops answering; it still reads.
PeerCloses ==
  /\ "close" \in Faults /\ peer = "open"
  /\ peer' = "closed" /\ trouble' = TRUE
  /\ UNCHANGED <<run, scope, pings_sent, pongs_received, sent, received>>

PeerDiscards ==
  /\ peer = "closed" /\ sent # <<>>
  /\ sent' = <<>>
  /\ UNCHANGED <<run, scope, pings_sent, pongs_received, received, peer, trouble>>

PingNext ==
  \/ Client \/ PeerAnswers \/ PeerCloses \/ PeerDiscards
  \/ \E op \in scope : Failed(op) \/ PongSplit(op)

PingSpec == PingInit /\ [][PingNext]_pingVars /\ WF_pingVars(Client) /\ WF_pingVars(PeerAnswers)

-----------------------------------------------------------------------------
\* pong_buf and pong_msg are shared by all receives of a client: no two operations are
\* ever in flight, so no receive overwrites what the handler of another one reads.
OneInFlight == Cardinality(scope) <= 1

\* The copy of the sequence number that the handlers pass along and the counters agree
\* whatever was read: it is the number of pongs counted, and none of them was counted
\* before its ping; the client stops sending when the last one was.
SequenceCountsPongs ==
  /\ \A op \in scope : op.sequence = pongs_received
  /\ pongs_received <= pings_sent /\ pongs_received <= ping_count

\* With a peer that answers and a connection that holds, run() returns.  After an
\* error nothing is in flight and its loop goes on for ever.
RunEnds == <>(run = "returned" \/ trouble)

=============================================================================
