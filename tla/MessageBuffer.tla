--------------------------- MODULE MessageBuffer ----------------------------
(***************************************************************************)
(* message_buffer, socket_message and buffer_iterator as operators: a      *)
(* message is a sequence of buffers, each an address and a length, and     *)
(* operator+= drops the bytes that a partial sendmsg has already taken.    *)
(* Addresses are numbers; Nil is nullptr.                                  *)
(***************************************************************************)
EXTENDS Naturals, Sequences, SequencesExt

CONSTANT Nil

Buffer(base, len) == [iov_base |-> base, iov_len |-> len]

\* A contiguous range: where it starts, how many elements, bytes in an element.
PushBack(buffers, range) ==
  Append(buffers, Buffer(range.data, range.size * range.element))

\* message_buffer(bufs...)
MakeBuffers(ranges) ==
  LET made[i \in 0 .. Len(ranges)] ==
        IF i = 0 THEN <<>> ELSE PushBack(made[i - 1], ranges[i])
  IN  made[Len(ranges)]

-----------------------------------------------------------------------------
\* A plausible mistake: the address moves on, the length stays.
AdvanceBaseOnly(buf, len) ==
  IF buf.iov_len <= len THEN Buffer(Nil, 0) ELSE Buffer(buf.iov_base + len, buf.iov_len)

\* operator+= of a native buffer.
AdvanceBuffer(buf, len) ==
  IF buf.iov_len <= len THEN Buffer(Nil, 0)
                        ELSE Buffer(buf.iov_base + len, buf.iov_len - len)

\* A plausible mistake: a buffer that is used up exactly is kept in whole.
RemoveOffByOne(acc, buf) ==
  IF acc.len < buf.iov_len + 1 /\ acc.len # 0
    THEN [len |-> 0, kept |-> Append(acc.kept, buf)]
    ELSE IF acc.len = 0 THEN [acc EXCEPT !.kept = Append(@, buf)]
                        ELSE [acc EXCEPT !.len = @ - buf.iov_len]

\* The predicate of remove_if, with the len that it captures by reference.
RemoveIfUsed(acc, buf) ==
  IF acc.len = 0 THEN [acc EXCEPT !.kept = Append(@, buf)]
  ELSE IF acc.len < buf.iov_len
    THEN [len |-> 0, kept |-> Append(acc.kept, AdvanceBuffer(buf, acc.len))]
    ELSE [acc EXCEPT !.len = @ - buf.iov_len]

\* buffers += len
PlusAssign(buffers, len) ==
  LET acc[i \in 0 .. Len(buffers)] ==
        IF i = 0 THEN [len |-> len, kept |-> <<>>] ELSE RemoveIfUsed(acc[i - 1], buffers[i])
  IN  acc[Len(buffers)].kept

\* empty() adds up the lengths: buffers of length zero do not count.
IsEmpty(buffers) ==
  LET len[i \in 0 .. Len(buffers)] == IF i = 0 THEN 0 ELSE len[i - 1] + buffers[i].iov_len
  IN  len[Len(buffers)] = 0

-----------------------------------------------------------------------------
(* buffer_iterator: a position in the vector; begin() is 0.                *)

Begin(buffers) == 0
End(buffers) == Len(buffers)
Increment(it) == it + 1
Advance(it, n) == it + n
Distance(it, from) == it - from
Same(it, other) == it = other

\* operator*: the span of the buffer the iterator is at.
Deref(buffers, it) ==
  LET buf == buffers[it + 1]
  IN [i \in 1 .. buf.iov_len |-> buf.iov_base + i - 1]

\* operator[]
Subscript(buffers, it, n) == Deref(buffers, Advance(it, n))

\* The addresses of a message in the order of its buffers.
Bytes(buffers) ==
  FlattenSeq([i \in 1 .. Distance(End(buffers), Begin(buffers)) |->
                Subscript(buffers, Begin(buffers), i - 1)])

-----------------------------------------------------------------------------
\* socket_message: the echo server and its clients leave the address unset.
SocketMessage(buffers) == [address |-> Nil, buffers |-> buffers]

\* The conversion to message_header and on to the header of the system call; control
\* data and flags are left out.
Header(msg) == [msg_name |-> msg.address, msg_iov |-> msg.buffers]

\* What recvmsg and sendmsg see of a message: the addresses behind its header.
Iov(msg) == Bytes(Header(msg).msg_iov)

=============================================================================
