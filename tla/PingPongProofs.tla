--------------------------- MODULE PingPongProofs ---------------------------
(***************************************************************************)
(* Proofs about the ping-pong client, for every number of pings, every     *)
(* pair of messages and every capacity of the kernel: one operation is in  *)
(* flight at a time, and the sequence number that it carries is the number *)
(* of pongs that were counted, whatever the peer and the network do.       *)
(***************************************************************************)
EXTENDS PingPongClient, FiniteSetTheorems, SequenceTheorems, TLAPS

Bytes == Seq(0 .. 255)

\* An operation that may be in flight: it carries the number of pongs; a ping is sent
\* only before the last pong, and a pong is waited for only when a ping is ahead.
Fits(op) ==
  /\ op \in Operations
  /\ op.sequence = pongs_received
  /\ op.kind = "connect" => pongs_received = 0
  /\ op.kind # "connect" => pongs_received < ping_count
  /\ op.kind = "recvmsg" => pongs_received < pings_sent

\* The inductive invariant.
PingInv ==
  /\ PingTypeOK
  /\ sent \in Bytes /\ received \in Bytes
  /\ pongs_received <= pings_sent /\ pongs_received <= ping_count
  /\ scope = {} \/ \E op \in Operations : scope = {op} /\ Fits(op)

-----------------------------------------------------------------------------
\* What start_ping_pong spawns fits the number of pongs it is started with.
LEMMA StartFits ==
  ASSUME NEW n \in 0 .. ping_count, pongs_received' = n
  PROVE  StartPingPong(n) = {} \/ \E op \in Operations : StartPingPong(n) = {op} /\ Fits(op)'
<1> DEFINE op == Operation("sendmsg", n)
<1>1. op \in Operations /\ op.kind = "sendmsg" /\ op.sequence = n
  BY DEF Operation, Operations
<1>2. CASE n < ping_count
  <2>1. StartPingPong(n) = {op}
    BY <1>2 DEF StartPingPong
  <2>2. Fits(op)'
    BY <1>1, <1>2 DEF Fits, Operations
  <2> QED BY <1>1, <2>1, <2>2
<1>3. CASE ~(n < ping_count)
  BY <1>3 DEF StartPingPong
<1> QED BY <1>2, <1>3

\* The only operation in flight completes: what follows is all there is.
LEMMA CompletesOnly ==
  ASSUME PingInv, NEW op \in scope, NEW next, Completes(op, next)
  PROVE  scope = {op} /\ Fits(op) /\ op \in Operations /\ scope' = next
<1>1. PICK one \in Operations : scope = {one} /\ Fits(one)
  BY DEF PingInv
<1>2. op = one
  BY <1>1
<1>3. (scope \ {op}) \cup next = next
  BY <1>1, <1>2
<1> QED BY <1>1, <1>2, <1>3 DEF Completes

\* What is left of a sequence after its first k elements, and a sequence with k bytes
\* of another one appended.
LEMMA Rest ==
  ASSUME NEW S, NEW s \in Seq(S), NEW k \in 0 .. Len(s)
  PROVE  /\ SubSeq(s, k + 1, Len(s)) \in Seq(S)
         /\ Len(SubSeq(s, k + 1, Len(s))) <= Len(s)
<1>1. Len(s) \in Nat /\ \A i \in 1 .. Len(s) : s[i] \in S
  BY LenProperties
<1>2. k + 1 \in Int /\ Len(s) \in Int /\ \A i \in k + 1 .. Len(s) : s[i] \in S
  BY <1>1
<1>3. /\ SubSeq(s, k + 1, Len(s)) \in Seq(S)
      /\ Len(SubSeq(s, k + 1, Len(s))) = IF k + 1 <= Len(s) THEN Len(s) - (k + 1) + 1 ELSE 0
  BY <1>2, SubSeqProperties
<1> QED BY <1>1, <1>3

\* What a write of the first k bytes of t appends to the stream s.
LEMMA Appended ==
  ASSUME NEW S, NEW s \in Seq(S), NEW t \in Seq(S), NEW k \in 0 .. Len(t)
  PROVE  /\ SubSeq(t, 1, k) \in Seq(S) /\ Len(SubSeq(t, 1, k)) = k
         /\ s \o SubSeq(t, 1, k) \in Seq(S)
         /\ Len(s \o SubSeq(t, 1, k)) = Len(s) + k
<1>1. Len(t) \in Nat /\ \A i \in 1 .. Len(t) : t[i] \in S
  BY LenProperties
<1>2. k \in Int /\ \A i \in 1 .. k : t[i] \in S
  BY <1>1
<1>3. SubSeq(t, 1, k) \in Seq(S) /\ Len(SubSeq(t, 1, k)) = IF 1 <= k THEN k - 1 + 1 ELSE 0
  BY <1>2, SubSeqProperties
<1>4. Len(SubSeq(t, 1, k)) = k
  BY <1>3
<1> QED BY <1>3, <1>4, ConcatProperties

\* A receive that took the first k bytes and its handler keep the invariant.
LEMMA ReceiveStep ==
  ASSUME PingInv, NEW op \in scope, op.kind = "recvmsg",
         NEW k \in 0 .. Len(received), NEW bytes,
         received' = SubSeq(received, k + 1, Len(received)),
         pongs_received' = Handled(op.sequence, bytes).pongs,
         Completes(op, StartPingPong(Handled(op.sequence, bytes).next)),
         UNCHANGED <<run, pings_sent, sent, peer>>, trouble' \in BOOLEAN
  PROVE  PingInv'
<1> DEFINE after == Handled(op.sequence, bytes)
<1>1. /\ Fits(op) /\ op \in Operations /\ scope' = StartPingPong(after.next)
  BY CompletesOnly
<1>2. /\ ping_count \in Nat \ {0} /\ Capacity \in Nat
      /\ pings_sent \in 0 .. ping_count + 1 /\ pongs_received \in 0 .. ping_count + 1
      /\ pongs_received < ping_count /\ pongs_received < pings_sent
      /\ op.sequence = pongs_received /\ received \in Bytes /\ Len(received) <= Capacity
  BY <1>1, PingAssumption DEF PingInv, PingTypeOK, Fits
<1>3. /\ after.next = after.pongs /\ after.pongs \in 0 .. ping_count
      /\ after.pongs <= pings_sent
  <2>1. CASE HasPong(bytes)
    <3>1. after.pongs = pongs_received + 1 /\ after.next = pongs_received + 1
      BY <1>2, <2>1 DEF Handled, Count
    <3> QED BY <1>2, <3>1
  <2>2. CASE ~HasPong(bytes)
    <3>1. after.pongs = pongs_received /\ after.next = pongs_received
      BY <1>2, <2>2 DEF Handled
    <3> QED BY <1>2, <3>1
  <2> QED BY <2>1, <2>2
<1> HIDE DEF after
<1>4. received' \in Bytes /\ Len(received') <= Capacity
  <2>1. /\ SubSeq(received, k + 1, Len(received)) \in Bytes
        /\ Len(SubSeq(received, k + 1, Len(received))) <= Len(received)
    BY <1>2, Rest DEF Bytes
  <2>2. Len(received) \in Nat /\ Len(received') \in Nat
    BY <1>2, <2>1, LenProperties DEF Bytes
  <2> QED BY <1>2, <2>1, <2>2
<1>5. scope' = {} \/ \E one \in Operations : scope' = {one} /\ Fits(one)'
  BY <1>1, <1>3, StartFits DEF after
<1>6. scope' \subseteq Operations
  BY <1>5
<1>7. pongs_received' \in 0 .. ping_count
  BY <1>3 DEF after
<1>8. PingTypeOK'
  BY <1>2, <1>4, <1>6, <1>7 DEF PingInv, PingTypeOK
<1>9. sent' \in Bytes /\ pongs_received' <= pings_sent' /\ pongs_received' <= ping_count
  BY <1>2, <1>3, <1>7 DEF PingInv, after
<1> QED BY <1>4, <1>5, <1>8, <1>9 DEF PingInv

\* Every step keeps the invariant.
LEMMA PingStep == PingInv /\ [PingNext]_pingVars => PingInv'
<1> SUFFICES ASSUME PingInv, [PingNext]_pingVars PROVE PingInv'
  OBVIOUS
<1>0. /\ ping_count \in Nat \ {0} /\ Capacity \in Nat /\ PongBuffer \in Nat
      /\ Ping \in Bytes /\ Pong \in Bytes
      /\ pings_sent \in 0 .. ping_count + 1 /\ pongs_received \in 0 .. ping_count + 1
      /\ sent \in Bytes /\ received \in Bytes
      /\ Len(sent) <= Capacity /\ Len(received) <= Capacity
      /\ Len(sent) \in Nat /\ Len(received) \in Nat
      /\ pongs_received <= pings_sent /\ pongs_received <= ping_count
  BY PingAssumption DEF PingInv, PingTypeOK, Bytes
<1>1. ASSUME NEW op \in scope, Connected(op) PROVE PingInv'
  <2>1. scope' = StartPingPong(0) /\ Fits(op)
    BY <1>1, CompletesOnly DEF Connected
  <2>2. pongs_received = 0 /\ UNCHANGED <<run, pings_sent, pongs_received, sent, received, peer, trouble>>
    <3>1. pongs_received = 0
      BY <1>1, <2>1 DEF Connected, Fits
    <3> QED BY <1>1, <3>1 DEF Connected
  <2>3. scope' = {} \/ \E one \in Operations : scope' = {one} /\ Fits(one)'
    BY <1>0, <2>1, <2>2, StartFits
  <2> QED BY <2>2, <2>3 DEF PingInv, PingTypeOK
<1>2. ASSUME NEW op \in scope, PingSent(op) PROVE PingInv'
  <2> DEFINE next == Operation("recvmsg", op.sequence)
  <2>1. scope' = {next} /\ Fits(op) /\ op \in Operations /\ op.kind = "sendmsg"
    BY <1>2, CompletesOnly DEF PingSent
  <2>2. PICK k \in 1 .. Len(Ping) : Len(sent) + k <= Capacity /\ sent' = sent \o SubSeq(Ping, 1, k)
    BY <1>2 DEF PingSent
  <2>3. sent' \in Bytes /\ Len(sent') <= Capacity
    <3>1. k \in 0 .. Len(Ping)
      BY <1>0, LenProperties DEF Bytes
    <3>2. sent' \in Bytes /\ Len(sent') = Len(sent) + k
      <4>1. sent \in Seq(0 .. 255) /\ Ping \in Seq(0 .. 255)
        BY <1>0 DEF Bytes
      <4>2. /\ sent \o SubSeq(Ping, 1, k) \in Seq(0 .. 255)
            /\ Len(sent \o SubSeq(Ping, 1, k)) = Len(sent) + k
        BY <3>1, <4>1, Appended
      <4> QED BY <2>2, <4>2 DEF Bytes
    <3> QED BY <1>0, <2>2, <3>2
  <2>4. pings_sent' = Count(pings_sent) /\ UNCHANGED <<run, pongs_received, received, peer, trouble>>
    BY <1>2 DEF PingSent
  <2>5. pongs_received < ping_count /\ op.sequence = pongs_received
    BY <2>1 DEF Fits
  <2>6. pings_sent' \in 0 .. ping_count + 1 /\ pongs_received < pings_sent'
    BY <1>0, <2>4, <2>5 DEF Count
  <2>7. next \in Operations /\ Fits(next)'
    BY <2>1, <2>4, <2>5, <2>6 DEF Operation, Operations, Fits
  <2> HIDE DEF next
  <2>8. scope' \subseteq Operations
    BY <2>1, <2>7
  <2>9. PingTypeOK'
    BY <1>0, <2>3, <2>4, <2>6, <2>8 DEF PingInv, PingTypeOK
  <2> QED BY <1>0, <2>1, <2>3, <2>4, <2>6, <2>7, <2>9 DEF PingInv
<1>3. ASSUME NEW op \in scope, PongReceived(op) PROVE PingInv'
  <2> DEFINE k == IF Len(received) < PongBuffer THEN Len(received) ELSE PongBuffer
             taken == SubSeq(received, 1, k)
  <2>1. k \in 0 .. Len(received) /\ Len(taken) = k
    BY <1>0 DEF Bytes
  <2>2. /\ op.kind = "recvmsg"
        /\ received' = SubSeq(received, k + 1, Len(received))
        /\ pongs_received' = Handled(op.sequence, taken).pongs
        /\ Completes(op, StartPingPong(Handled(op.sequence, taken).next))
        /\ UNCHANGED <<run, pings_sent, sent, peer>> /\ trouble' \in BOOLEAN
    BY <1>3, <2>1 DEF PongReceived, PingInv, PingTypeOK
  <2> HIDE DEF k, taken
  <2> QED BY <2>1, <2>2, ReceiveStep
<1>4. ASSUME NEW op \in scope, PongSplit(op) PROVE PingInv'
  <2>1. PICK k \in 1 .. (Len(received) - 1) :
             /\ received' = SubSeq(received, k + 1, Len(received))
             /\ pongs_received' = Handled(op.sequence, SubSeq(received, 1, k)).pongs
             /\ Completes(op, StartPingPong(Handled(op.sequence, SubSeq(received, 1, k)).next))
    BY <1>4 DEF PongSplit
  <2>2. k \in 0 .. Len(received)
    BY <1>0
  <2>3. op.kind = "recvmsg" /\ UNCHANGED <<run, pings_sent, sent, peer>> /\ trouble' \in BOOLEAN
    BY <1>4 DEF PongSplit
  <2> QED BY <2>1, <2>2, <2>3, ReceiveStep
<1>5. ASSUME NEW op \in scope, Failed(op) PROVE PingInv'
  <2>1. scope' = {}
    BY <1>5, CompletesOnly DEF Failed
  <2> QED BY <1>5, <2>1 DEF Failed, PingInv, PingTypeOK
<1>6. CASE RunReturns
  BY <1>6 DEF RunReturns, PingInv, PingTypeOK, Fits
<1>7. CASE PeerAnswers
  <2>1. sent' \in Bytes /\ Len(sent') = 0 /\ received' \in Bytes /\ Len(received') <= Capacity
    BY <1>0, <1>7 DEF PeerAnswers, Bytes
  <2> QED BY <1>0, <1>7, <2>1 DEF PeerAnswers, PingInv, PingTypeOK, Fits
<1>8. CASE PeerCloses
  BY <1>8 DEF PeerCloses, PingInv, PingTypeOK, Fits
<1>9. CASE PeerDiscards
  <2>1. sent' \in Bytes /\ Len(sent') = 0
    BY <1>9 DEF PeerDiscards, Bytes
  <2> QED BY <1>0, <1>9, <2>1 DEF PeerDiscards, PingInv, PingTypeOK, Fits
<1>10. CASE UNCHANGED pingVars
  BY <1>10 DEF pingVars, PingInv, PingTypeOK, Fits
<1> QED
  BY <1>1, <1>2, <1>3, <1>4, <1>5, <1>6, <1>7, <1>8, <1>9, <1>10 DEF PingNext, Client

\* The client starts with nothing in flight.
LEMMA PingInvInit == PingInit => PingInv
<1> SUFFICES ASSUME PingInit PROVE PingInv
  OBVIOUS
<1> DEFINE op == Operation("connect", 0)
<1>1. op \in Operations /\ op.kind = "connect" /\ op.sequence = 0
  BY PingAssumption DEF Operation, Operations
<1>2. scope = {op} /\ Fits(op)
  BY <1>1 DEF PingInit, Fits
<1>3. /\ sent \in Bytes /\ received \in Bytes /\ Len(sent) = 0 /\ Len(received) = 0
  BY DEF PingInit, Bytes
<1> HIDE DEF op
<1>4. scope \subseteq Operations
  BY <1>1, <1>2
<1>5. /\ pings_sent \in 0 .. ping_count + 1 /\ pongs_received \in 0 .. ping_count + 1
      /\ pongs_received <= pings_sent /\ pongs_received <= ping_count
      /\ Len(sent) <= Capacity /\ Len(received) <= Capacity
  BY <1>3, PingAssumption DEF PingInit
<1>6. PingTypeOK
  BY <1>4, <1>5 DEF PingInit, PingTypeOK
<1> QED BY <1>1, <1>2, <1>3, <1>5, <1>6 DEF PingInv

\* The invariant holds throughout; fairness is not needed.
LEMMA PingCorrect == PingSpec => []PingInv
BY PingInvInit, PingStep, PTL DEF PingSpec

\* The type invariant: the counters saturate and the kernel never holds more than its
\* capacity, for every number of pings.
THEOREM PingTypeCorrect == PingSpec => []PingTypeOK
<1>1. PingInv => PingTypeOK
  BY DEF PingInv
<1> QED BY <1>1, PingCorrect, PTL

\* The client never has two operations in flight on its shared buffer, whatever the
\* peer does and however often a connection breaks or a pong is split.
THEOREM NeverTwoInFlight == PingSpec => []OneInFlight
<1>1. PingInv => OneInFlight
  <2> SUFFICES ASSUME PingInv PROVE Cardinality(scope) <= 1
    BY DEF OneInFlight
  <2>1. CASE scope = {}
    BY <2>1, FS_EmptySet
  <2>2. CASE \E op \in Operations : scope = {op}
    BY <2>2, FS_Singleton
  <2> QED BY <2>1, <2>2 DEF PingInv
<1> QED BY <1>1, PingCorrect, PTL

\* The sequence number in flight is the number of pongs counted, none before its ping
\* and none after the last, for every ping_count.
THEOREM SequenceIsPongs == PingSpec => []SequenceCountsPongs
<1>1. PingInv => SequenceCountsPongs
  BY DEF PingInv, Fits, SequenceCountsPongs
<1> QED BY <1>1, PingCorrect, PTL

=============================================================================
